----------------------------- MODULE VsfProofs -----------------------------
(***************************************************************************)
(* The theorems about what the vsf process asks of the driver: the regions *)
(* of the OSD manager, and the capture chain from boot to exit.            *)
(*                                                                         *)
(* First what set and trigger leave in the driver and in the canvases, for *)
(* any number of regions, every size of the picture and whatever the       *)
(* requests draw.                                                          *)
(*                                                                         *)
(* RegionAsConfigured is inductive as it stands: the driver attaches a     *)
(* region once, so that a request of the other kind ends the process       *)
(* before it can disagree with the stored configuration.                   *)
(*                                                                         *)
(* CanvasIsLast rests on Painted, that a canvas holds what the code draws  *)
(* for the last request; the lemmas then follow the code's unsigned        *)
(* numbers from a request's coordinates to the pixels of a border.         *)
(*                                                                         *)
(* Then the capture chain, for any number of system objects, VIs, encoders *)
(* and layers, of starts and of refused calls.  The calls of boot are a    *)
(* list whose calls, once the system is initialised, make things in the    *)
(* order of a weight W, each after what it needs and none twice            *)
(* (BootShape).  What a process undoes or stops is a list that never stops *)
(* a thing before what stands on it (Orderly), even when a refused call    *)
(* makes it leave the next ones out (Skips).  ChainInv ties the lists to   *)
(* the driver: a process that boots has made exactly what its calls so far *)
(* make, and what one that fails or exits has left to call covers all that *)
(* still stands.                                                           *)
(***************************************************************************)
EXTENDS OsdMgr, Capture, TLAPS

Kinds == [kind : {"none", "cover", "overlay"}, layer : {0, 1, 4}, shown : BOOLEAN]

\* What RegionAsConfigured says of one region.
Agrees(id) ==
  cfg[id].cond # "other" =>
    /\ rgn[id].kind = KindOf(cfg[id].cond)
    /\ rgn[id].kind = "overlay" => rgn[id].shown
    /\ (rgn[id].kind = "cover" /\ ~retouched[id]) => rgn[id].shown = cfg[id].enable

\* Covers are in a layer of their own.
Layered(id) == rgn[id].kind # "none" => (rgn[id].kind = "cover" <=> rgn[id].layer = 4)

\* The state before the first request is that of a request without effect.
LEMMA NothingIsRequest == Nothing \in Requests
<1>1. Nothing \in [cond : {"mask", "other"}, enable : BOOLEAN, boxes : {{}}, points : {{}}]
  BY DEF Nothing
<1> QED BY <1>1 DEF Requests

\* The kind and the flag of every request.
LEMMA RequestCond ==
  ASSUME NEW r \in Requests
  PROVE  r.cond \in Conditions /\ r.enable \in BOOLEAN
BY DEF Requests, Conditions

\* No region is attached at first, and none is configured.
LEMMA InitAgrees == OsdInit => RegionAsConfigured
BY NothingIsRequest DEF OsdInit, RegionAsConfigured, OsdTypeOK, Detached, Stored, Nothing, Conditions

\* A request of one region leaves what belongs to the others, and its own
\* region is of a kind that the driver accepted.
LEMMA CtrlKinds ==
  ASSUME OsdTypeOK, NEW id \in Regions, NEW r \in Requests, Ctrl(id, r)
  PROVE  /\ rgn' \in [Regions -> Kinds]
         /\ drawn' \in [Regions -> Requests]
         /\ fault' \in {"none", "driver", "draw"}
         /\ \A d \in Regions : d # id => rgn'[d] = rgn[d]
         /\ \A d \in Regions : Layered(d)'
<1>0. /\ rgn \in [Regions -> Kinds] /\ drawn \in [Regions -> Requests]
      /\ fault \in {"none", "driver", "draw"} /\ \A d \in Regions : Layered(d)
  BY DEF OsdTypeOK, Kinds, Layered
<1>1. r.cond \in Conditions /\ r.enable \in BOOLEAN
  BY RequestCond
<1>2. CASE UNCHANGED <<rgn, drawn>> /\ fault' \in {fault, "driver"}
  BY <1>0, <1>2 DEF Layered
<1>3. CASE r.cond = "mask" /\ Accepts(id, "cover") /\ Cover(id, r)
  <2>1. [kind |-> "cover", layer |-> LayerOf(r.cond), shown |-> r.enable] \in Kinds
    BY <1>1, <1>3 DEF LayerOf, Kinds
  <2>2. LayerOf(r.cond) = 4
    BY <1>3 DEF LayerOf
  <2> QED BY <1>0, <1>3, <2>1, <2>2 DEF Cover, Layered
<1>4. CASE r.cond \in {"texts", "objs"} /\ Accepts(id, "overlay") /\ Overlay(id, r)
  <2>1. LayerOf(r.cond) \in {0, 1}
    BY <1>4 DEF LayerOf
  <2>2. rgn[id] \in Kinds /\ rgn[id].kind \in {"none", "overlay"} /\ Layered(id)
    BY <1>0, <1>4 DEF Accepts
  <2>3. DEFINE v == [kind |-> "overlay", shown |-> TRUE,
                     layer |-> IF rgn[id].kind = "none" THEN LayerOf(r.cond) ELSE rgn[id].layer]
  <2>4. v \in Kinds /\ v.layer # 4 /\ v.kind = "overlay"
    BY <2>1, <2>2 DEF Kinds, Layered
  <2>5. rgn' = [rgn EXCEPT ![id] = v]
    BY <1>4 DEF Overlay
  <2>6. drawn' \in [Regions -> Requests] /\ fault' \in {"none", "draw"}
    BY <1>0, <1>4 DEF Overlay
  <2> HIDE DEF v
  <2> QED BY <1>0, <2>4, <2>5, <2>6 DEF Layered
<1> QED BY <1>2, <1>3, <1>4 DEF Ctrl

\* What a request leaves of its own region agrees with it: an unknown condition
\* leaves everything alone, a mask is displayed as it says, the rest is shown.
LEMMA CtrlAgrees ==
  ASSUME OsdTypeOK, NEW id \in Regions, NEW r \in Requests, Ctrl(id, r), fault' = "none",
         r.cond # "other"
  PROVE  /\ rgn'[id].kind = KindOf(r.cond)
         /\ rgn[id].kind \in {"none", rgn'[id].kind}
         /\ rgn'[id].kind = "overlay" => rgn'[id].shown
         /\ rgn'[id].kind = "cover" => rgn'[id].shown = r.enable
<1>0. rgn \in [Regions -> Kinds]
  BY DEF OsdTypeOK, Kinds
<1>1. CASE r.cond = "mask" /\ Accepts(id, "cover") /\ Cover(id, r)
  BY <1>0, <1>1 DEF Cover, KindOf, Accepts
<1>2. CASE r.cond \in {"texts", "objs"} /\ Accepts(id, "overlay") /\ Overlay(id, r)
  <2>1. rgn'[id].kind = "overlay" /\ rgn'[id].shown = TRUE
    BY <1>0, <1>2 DEF Overlay
  <2> QED BY <1>0, <1>2, <2>1 DEF KindOf, Accepts
<1> QED BY <1>1, <1>2 DEF Ctrl

\* A set or a trigger of one region keeps all of them as configured.
LEMMA RequestAgrees ==
  ASSUME RegionAsConfigured, fault = "none", NEW id \in Regions, NEW r \in Requests,
         Set(id, r) \/ Trigger(id, r)
  PROVE  RegionAsConfigured'
<1>0. /\ OsdTypeOK /\ Ctrl(id, r) /\ r.cond \in Conditions /\ r.enable \in BOOLEAN
      /\ cfg \in [Regions -> [cond : Conditions, enable : BOOLEAN]]
      /\ retouched \in [Regions -> BOOLEAN] /\ rgn \in [Regions -> Kinds]
  BY RequestCond DEF RegionAsConfigured, OsdTypeOK, Kinds, Set, Trigger
<1>1. /\ cfg' \in [Regions -> [cond : Conditions, enable : BOOLEAN]]
      /\ retouched' \in [Regions -> BOOLEAN]
      /\ \A d \in Regions : d # id => cfg'[d] = cfg[d] /\ retouched'[d] = retouched[d]
  <2>1. Stored(r) \in [cond : Conditions, enable : BOOLEAN]
    BY <1>0 DEF Stored
  <2>2. /\ cfg' = cfg \/ cfg' = [cfg EXCEPT ![id] = Stored(r)]
        /\ \E b \in BOOLEAN : retouched' = [retouched EXCEPT ![id] = b]
    BY DEF Set, Trigger
  <2> QED BY <1>0, <2>1, <2>2
<1>2. OsdTypeOK'
  BY <1>0, <1>1, CtrlKinds DEF OsdTypeOK, Kinds, Layered
<1>3. ASSUME fault' = "none", NEW d \in Regions PROVE Agrees(d)'
  <2>1. \A e \in Regions : Agrees(e)
    BY DEF RegionAsConfigured, Agrees
  <2>2. CASE d # id
    BY <1>0, <1>1, <2>1, <2>2, CtrlKinds DEF Agrees
  <2>3. CASE d = id /\ r.cond = "other"
    <3>1. rgn' = rgn
      BY <1>0, <2>3 DEF Ctrl
    <3>2. CASE Set(id, r)
      BY <1>0, <1>3, <2>3, <3>2 DEF Set, Stored, Agrees
    <3>3. CASE Trigger(id, r)
      BY <1>0, <2>1, <2>3, <3>1, <3>3 DEF Trigger, Agrees
    <3> QED BY <3>2, <3>3
  <2>4. CASE d = id /\ r.cond # "other"
    <3>1. CASE Set(id, r)
      <4>1. cfg'[id].cond = r.cond /\ cfg'[id].enable = r.enable
        BY <1>0, <1>3, <3>1 DEF Set, Stored
      <4> QED BY <1>0, <1>3, <2>4, <4>1, CtrlAgrees DEF Agrees
    <3>2. CASE Trigger(id, r)
      <4>1. cfg' = cfg /\ retouched'[id] = TRUE
        BY <1>0, <3>2 DEF Trigger
      <4>2. Agrees(id) /\ rgn[id].kind \in {"none", rgn'[id].kind}
        BY <1>0, <1>3, <2>1, <2>4, CtrlAgrees
      <4>3. cfg[id].cond # "other" => KindOf(cfg[id].cond) # "none"
        BY DEF KindOf
      <4> QED BY <1>0, <1>3, <2>4, <4>1, <4>2, <4>3, CtrlAgrees DEF Agrees
    <3> QED BY <3>1, <3>2
  <2> QED BY <2>2, <2>3, <2>4
<1> QED BY <1>2, <1>3 DEF RegionAsConfigured, Agrees

\* osd_mgr.c and rgn.c: after any sequence of set and trigger requests the
\* regions in the driver are what the stored configuration says, a mask shown
\* exactly when it is enabled unless it was triggered since.
THEOREM RegionAsConfiguredAlways == OsdSpec => []RegionAsConfigured
<1>1. RegionAsConfigured /\ [OsdNext]_osdVars => RegionAsConfigured'
  <2> SUFFICES ASSUME RegionAsConfigured, [OsdNext]_osdVars PROVE RegionAsConfigured'
    OBVIOUS
  <2>1. CASE UNCHANGED osdVars
    BY <2>1 DEF osdVars, RegionAsConfigured, OsdTypeOK
  <2>2. CASE OsdNext
    BY <2>2, RequestAgrees DEF OsdNext
  <2> QED BY <2>1, <2>2
<1> QED BY InitAgrees, <1>1, PTL DEF OsdSpec
-----------------------------------------------------------------------------
(***************************************************************************)
(* What is drawn                                                           *)
(***************************************************************************)
\* Division of products, which the provers do not do by themselves.
LEMMA TimesLeft ==
  ASSUME NEW a \in Nat, NEW b \in Nat, NEW c \in Nat, a <= b
  PROVE  a * c <= b * c
<1>1. PICK d \in Nat : b = a + d
  <2>1. b - a \in Nat /\ b = a + (b - a)
    OBVIOUS
  <2> QED BY <2>1
<1>2. b * c = a * c + d * c /\ d * c \in Nat /\ a * c \in Nat
  BY <1>1
<1> QED BY <1>2

\* What a quotient is, in products.
LEMMA DivBounds ==
  ASSUME NEW n \in Nat, NEW u \in Nat \ {0}
  PROVE  n \div u \in Nat /\ u * (n \div u) <= n /\ n < u * (n \div u) + u
  OBVIOUS

\* A number below a multiple has a smaller quotient.
LEMMA DivLess ==
  ASSUME NEW n \in Nat, NEW u \in Nat \ {0}, NEW k \in Nat, n < u * k
  PROVE  n \div u < k
<1> DEFINE d == n \div u
<1>1. d \in Nat /\ u * d <= n
  BY DivBounds
<1> HIDE DEF d
<1>2. ASSUME k <= d PROVE FALSE
  <2>1. k * u <= d * u
    BY <1>1, <1>2, TimesLeft
  <2>2. d * u = u * d /\ k * u = u * k /\ u * d \in Nat
    BY <1>1
  <2> QED BY <1>1, <2>1, <2>2
<1>3. d < k
  BY <1>1, <1>2
<1> QED BY <1>3 DEF d

\* Unsigned numbers below the word do not wrap.
LEMMA ModBelow ==
  ASSUME NEW w \in Nat \ {0}, NEW x \in 0 .. w - 1
  PROVE  x % w = x
  OBVIOUS

\* The bounds of the constants in the forms the lemmas below need.
LEMMA Sizes ==
  /\ Unit \in Nat \ {0} /\ Word \in Nat \ {0} /\ Pitch \in Nat \ {0}
  /\ Width \in Nat \ {0} /\ Height \in Nat \ {0} /\ Width <= Pitch
  /\ Unit * Width < Word /\ Unit * Height < Word /\ 2 * (Pitch * Height) < Word
  /\ Width < Word /\ Height < Word
<1>1. /\ Unit \in Nat \ {0} /\ Word \in Nat /\ Pitch \in Nat /\ Pitch >= Width
      /\ Width \in Nat \ {0} /\ Height \in Nat \ {0}
      /\ Unit * Width < Word /\ Unit * Height < Word /\ 2 * Pitch * Height < Word
  BY OsdAssumption
<1>2. 2 * Pitch * Height = 2 * (Pitch * Height)
  BY <1>1
<1>3. 1 * Width <= Unit * Width /\ 1 * Height <= Unit * Height
  BY <1>1, TimesLeft
<1>4. Unit * Width \in Nat /\ Unit * Height \in Nat
  BY <1>1
<1> QED BY <1>1, <1>2, <1>3, <1>4

\* A place and a length of a request, of which the length was cut to what the
\* unit leaves behind the place, lie in the picture when they are scaled.
LEMMA Spans ==
  ASSUME NEW v \in 0 .. Unit - 1, NEW n \in Nat, NEW size \in Nat \ {0}, Unit * size < Word
  PROVE  /\ Place(v, size) \in 0 .. size - 1
         /\ Wrap(Least(n, Wrap(Unit - v)) * size) \div Unit \in Nat
         /\ Place(v, size) + (Wrap(Least(n, Wrap(Unit - v)) * size) \div Unit) <= size
<1> DEFINE l == Least(n, Unit - v)
           p == (v * size) \div Unit
           q == (l * size) \div Unit
<1>1. Unit \in Nat \ {0} /\ Word \in Nat \ {0}
  BY Sizes
<1>2. Unit <= Unit * size /\ Unit * size \in Nat
  <2>1. 1 * Unit <= size * Unit
    BY <1>1, TimesLeft
  <2> QED BY <1>1, <2>1
<1>3. Wrap(Unit - v) = Unit - v
  <2>1. Unit - v \in 0 .. Word - 1
    BY <1>1, <1>2
  <2> QED BY <1>1, <2>1, ModBelow DEF Wrap
<1>4. l \in Nat /\ v + l <= Unit /\ l <= Unit
  BY <1>1 DEF Least
<1> HIDE DEF l
<1>5. l * size \in Nat /\ l * size <= Unit * size /\ v * size \in Nat
  BY <1>1, <1>4, TimesLeft
<1>6. Wrap(l * size) = l * size
  <2>1. l * size \in 0 .. Word - 1
    BY <1>1, <1>2, <1>5
  <2> HIDE DEF l
  <2> QED BY <1>1, <2>1, ModBelow DEF Wrap
<1>7. v * size < Unit * size
  <2>1. (v + 1) * size <= Unit * size
    BY <1>1, TimesLeft
  <2>2. (v + 1) * size = v * size + size
    OBVIOUS
  <2> QED BY <1>2, <1>5, <2>1, <2>2
<1>8. /\ p \in Nat /\ p < size /\ Unit * p <= v * size
      /\ q \in Nat /\ Unit * q <= l * size
  BY <1>1, <1>5, <1>7, DivBounds, DivLess
<1> HIDE DEF p, q
<1>9. p + q <= size
  <2>1. ASSUME size + 1 <= p + q PROVE FALSE
    <3>1. (size + 1) * Unit <= (p + q) * Unit
      BY <1>1, <1>8, <2>1, TimesLeft
    <3>2. (size + 1) * Unit = Unit * size + Unit /\ (p + q) * Unit = Unit * p + Unit * q
      BY <1>1, <1>8
    <3>3. (v + l) * size <= Unit * size
      BY <1>1, <1>4, TimesLeft
    <3>4. (v + l) * size = v * size + l * size
      BY <1>4
    <3>5. Unit * p \in Nat /\ Unit * q \in Nat
      BY <1>1, <1>8
    <3> QED BY <1>1, <1>2, <1>5, <1>8, <3>1, <3>2, <3>3, <3>4, <3>5
  <2> QED BY <1>8, <2>1
<1>10. Range(v, 0, Unit - 1) = v
  BY <1>1 DEF Range
<1>11. Place(v, size) = p
  BY <1>10 DEF Place, Scale, p
<1>12. Wrap(Least(n, Wrap(Unit - v)) * size) \div Unit = q
  BY <1>3, <1>6 DEF q, l
<1> QED BY <1>8, <1>9, <1>11, <1>12

\* A rectangle that starts in the picture ends in it.
LEMMA RectInPicture ==
  ASSUME NEW b \in Boxes, InPicture(b), NEW r, r = Rect(b)
  PROVE  /\ r.x \in 0 .. Width - 1 /\ r.w \in Nat /\ r.x + r.w <= Width
         /\ r.y \in 0 .. Height - 1 /\ r.h \in Nat /\ r.y + r.h <= Height
<1>1. b.x \in 0 .. Unit - 1 /\ b.y \in 0 .. Unit - 1 /\ b.w \in Nat /\ b.h \in Nat
  BY OsdAssumption DEF InPicture
<1>2. /\ r.x = Place(b.x, Width) /\ r.w = Wrap(Least(b.w, Wrap(Unit - b.x)) * Width) \div Unit
      /\ r.y = Place(b.y, Height) /\ r.h = Wrap(Least(b.h, Wrap(Unit - b.y)) * Height) \div Unit
  BY DEF Rect
<1>3. r.x \in 0 .. Width - 1 /\ r.w \in Nat /\ r.x + r.w <= Width
  <2> DEFINE place == Place(b.x, Width)
             length == Wrap(Least(b.w, Wrap(Unit - b.x)) * Width) \div Unit
  <2>1. Width \in Nat \ {0} /\ Unit * Width < Word
    BY Sizes
  <2>2. place \in 0 .. Width - 1 /\ length \in Nat /\ place + length <= Width
    BY <1>1, <2>1, Spans
  <2>3. r.x = place /\ r.w = length
    BY <1>2
  <2> HIDE DEF place, length
  <2> QED BY <2>2, <2>3
<1>4. r.y \in 0 .. Height - 1 /\ r.h \in Nat /\ r.y + r.h <= Height
  <2> DEFINE place == Place(b.y, Height)
             length == Wrap(Least(b.h, Wrap(Unit - b.y)) * Height) \div Unit
  <2>1. Height \in Nat \ {0} /\ Unit * Height < Word
    BY Sizes
  <2>2. place \in 0 .. Height - 1 /\ length \in Nat /\ place + length <= Height
    BY <1>1, <2>1, Spans
  <2>3. r.y = place /\ r.h = length
    BY <1>2
  <2> HIDE DEF place, length
  <2> QED BY <2>2, <2>3
<1> QED BY <1>3, <1>4

\* Inside of the picture no number of the drawing code wraps.
LEMMA RowsExact ==
  ASSUME NEW j \in 0 .. Height - 1
  PROVE  Rows(j) = j * Pitch /\ j * Pitch \in Nat /\ j * Pitch + Pitch <= Pitch * Height
<1> DEFINE m == j * Pitch
<1>1. m \in Nat
  BY Sizes
<1>2. m + Pitch <= Pitch * Height
  <2>1. (j + 1) * Pitch <= Height * Pitch
    BY Sizes, TimesLeft
  <2>2. (j + 1) * Pitch = m + Pitch /\ Height * Pitch = Pitch * Height
    BY Sizes
  <2> QED BY <2>1, <2>2
<1>3. j * 2 * Pitch = 2 * m
  BY Sizes
<1> DEFINE a == Pitch * Height
<1>4. a \in Nat /\ 2 * a < Word /\ m + Pitch <= a /\ Pitch \in Nat \ {0} /\ Word \in Nat \ {0}
  BY <1>2, Sizes
<1> HIDE DEF m, a
<1>5. Wrap(2 * m) = 2 * m
  <2>1. 2 * m \in 0 .. Word - 1
    BY <1>1, <1>4
  <2> QED BY <1>4, <2>1, ModBelow DEF Wrap
<1>6. (2 * m) \div 2 = m
  BY <1>1
<1>7. Rows(j) = m
  BY <1>3, <1>5, <1>6 DEF Rows
<1> QED BY <1>1, <1>2, <1>7 DEF m

\* The place of a pixel, and the two sums of the border of a rectangle.
LEMMA PixelExact ==
  ASSUME NEW j \in 0 .. Height - 1, NEW i \in 0 .. Width - 1
  PROVE  /\ Pixel(i, j) = j * Pitch + i /\ Wrap(i) = i /\ Wrap(j) = j
         /\ Wrap(Rows(Wrap(j)) + i) = j * Pitch + i
         /\ Wrap(Rows(j) + Wrap(i)) = j * Pitch + i
<1> DEFINE m == j * Pitch
           a == Pitch * Height
<1>1. Rows(j) = m /\ m \in Nat /\ m + Pitch <= a
  BY RowsExact
<1>2. /\ a \in Nat /\ 2 * a < Word /\ Width <= Pitch /\ Width < Word /\ Height < Word
      /\ Word \in Nat \ {0} /\ Pitch \in Nat /\ Width \in Nat /\ Height \in Nat
  BY Sizes
<1> HIDE DEF m, a
<1>3. i \in 0 .. Word - 1 /\ j \in 0 .. Word - 1 /\ m + i \in 0 .. Word - 1
  BY <1>1, <1>2
<1>4. Wrap(i) = i /\ Wrap(j) = j /\ Wrap(m + i) = m + i
  BY <1>2, <1>3, ModBelow DEF Wrap
<1> QED BY <1>1, <1>4 DEF Pixel, m

\* The border that is drawn is the border of the rectangle, when it is not
\* thinner than that.
LEMMA BorderIsFrame ==
  ASSUME NEW r, r.x \in Nat, r.y \in Nat, r.w \in Nat, r.h \in Nat, r.w >= 4, r.h >= 4,
         r.x + r.w <= Width, r.y + r.h <= Height
  PROVE  Border(r) = Frame(r)
<1> DEFINE begin == Rows(r.y) + r.x
           Ends(n) == (0 .. 3) \cup {n - l : l \in 1 .. 4}
           A == {begin + Wrap(Rows(Wrap(k)) + i) : k \in Ends(r.h), i \in 0 .. r.w - 1}
           B == {begin + Wrap(Rows(i) + Wrap(k)) : k \in Ends(r.w), i \in 0 .. r.h - 1}
           At(i, k) == Pixel(r.x + i, r.y + k)
<1>0. Width \in Nat /\ Height \in Nat /\ Pitch \in Nat
  BY Sizes
<1>1. ASSUME NEW i \in 0 .. r.w - 1, NEW k \in 0 .. r.h - 1
      PROVE  /\ begin + Wrap(Rows(Wrap(k)) + i) = At(i, k)
             /\ begin + Wrap(Rows(k) + Wrap(i)) = At(i, k)
  <2>1. /\ i \in 0 .. Width - 1 /\ k \in 0 .. Height - 1
        /\ r.x + i \in 0 .. Width - 1 /\ r.y + k \in 0 .. Height - 1 /\ r.y \in 0 .. Height - 1
    BY <1>0
  <2>2. Wrap(Rows(Wrap(k)) + i) = k * Pitch + i /\ Wrap(Rows(k) + Wrap(i)) = k * Pitch + i
    BY <2>1, PixelExact
  <2>3. Pixel(r.x + i, r.y + k) = (r.y + k) * Pitch + (r.x + i)
    BY <2>1, PixelExact
  <2>4. Rows(r.y) = r.y * Pitch
    BY <2>1, RowsExact
  <2>5. (r.y + k) * Pitch = r.y * Pitch + k * Pitch /\ r.y * Pitch \in Nat /\ k * Pitch \in Nat
    BY <1>0, <2>1
  <2> HIDE DEF Ends, A, B
  <2> QED BY <2>1, <2>2, <2>3, <2>4, <2>5
<1>2. \A n \in {r.w, r.h} : Ends(n) = {k \in 0 .. n - 1 : k < 4 \/ k >= n - 4}
  <2>1. ASSUME NEW n \in Nat, n >= 4 PROVE Ends(n) = {k \in 0 .. n - 1 : k < 4 \/ k >= n - 4}
    <3>1. \A k \in Ends(n) : k \in 0 .. n - 1 /\ (k < 4 \/ k >= n - 4)
      BY <2>1
    <3>2. ASSUME NEW k \in 0 .. n - 1, k < 4 \/ k >= n - 4 PROVE k \in Ends(n)
      <4>1. CASE k < 4
        BY <4>1
      <4>2. CASE k >= n - 4
        <5>1. n - k \in 1 .. 4 /\ k = n - (n - k)
          BY <2>1, <4>2
        <5> QED BY <5>1
      <4> QED BY <3>2, <4>1, <4>2
    <3> HIDE DEF Ends
    <3> QED BY <3>1, <3>2
  <2> HIDE DEF Ends
  <2> QED BY <2>1
<1>3. Border(r) = A \cup B
  BY DEF Border
<1> HIDE DEF Ends, At, begin
<1>4. A = {At(i, k) : k \in Ends(r.h), i \in 0 .. r.w - 1}
  BY <1>1, <1>2
<1>5. B = {At(k, i) : k \in Ends(r.w), i \in 0 .. r.h - 1}
  BY <1>1, <1>2
<1> HIDE DEF A, B
<1>6. ASSUME NEW q \in A \cup B PROVE q \in Frame(r)
  <2>1. PICK i \in 0 .. r.w - 1, k \in 0 .. r.h - 1 :
          q = At(i, k) /\ (i \in Ends(r.w) \/ k \in Ends(r.h))
    <3>1. CASE q \in A
      BY <1>2, <1>4, <3>1
    <3>2. CASE q \in B
      BY <1>2, <1>5, <3>2
    <3> QED BY <1>6, <3>1, <3>2
  <2>2. i < 4 \/ i >= r.w - 4 \/ k < 4 \/ k >= r.h - 4
    BY <1>2, <2>1
  <2> DEFINE p == <<r.x + i, r.y + k>>
  <2>3. p \in (r.x .. r.x + r.w - 1) \X (r.y .. r.y + r.h - 1)
    OBVIOUS
  <2>4. p[1] < r.x + 4 \/ p[1] >= r.x + r.w - 4 \/ p[2] < r.y + 4 \/ p[2] >= r.y + r.h - 4
    BY <2>2
  <2>5. q = Pixel(p[1], p[2])
    BY <2>1 DEF At
  <2> HIDE DEF p
  <2> QED BY <2>3, <2>4, <2>5 DEF Frame
<1>7. ASSUME NEW q \in Frame(r) PROVE q \in A \cup B
  <2>1. PICK p \in (r.x .. r.x + r.w - 1) \X (r.y .. r.y + r.h - 1) :
          /\ q = Pixel(p[1], p[2])
          /\ p[1] < r.x + 4 \/ p[1] >= r.x + r.w - 4 \/ p[2] < r.y + 4 \/ p[2] >= r.y + r.h - 4
    BY <1>7 DEF Frame
  <2> DEFINE i == p[1] - r.x
             k == p[2] - r.y
  <2>2. p[1] \in r.x .. r.x + r.w - 1 /\ p[2] \in r.y .. r.y + r.h - 1
    BY <2>1
  <2>3. i \in 0 .. r.w - 1 /\ k \in 0 .. r.h - 1 /\ r.x + i = p[1] /\ r.y + k = p[2]
    BY <2>2
  <2>4. i < 4 \/ i >= r.w - 4 \/ k < 4 \/ k >= r.h - 4
    BY <2>1, <2>2
  <2>5. q = At(i, k)
    BY <2>1, <2>3 DEF At
  <2> HIDE DEF i, k
  <2>6. i \in Ends(r.w) \/ k \in Ends(r.h)
    BY <1>2, <2>3, <2>4
  <2> QED BY <1>4, <1>5, <2>3, <2>5, <2>6
<1> QED BY <1>3, <1>6, <1>7

\* The pixels of the picture.
Picture == {Pixel(i, j) : i \in 0 .. Width - 1, j \in 0 .. Height - 1}

\* Characters are cut at the edges of the picture.
LEMMA TextInPicture ==
  ASSUME NEW p
  PROVE  TextAt(p) \subseteq Picture
<1>1. \A x, y : CharAt(x, y) \subseteq Picture
  BY DEF CharAt, Picture
<1> QED BY <1>1 DEF TextAt

\* What an object that starts in the picture draws, and is not too thin.
LEMMA ObjectDrawn ==
  ASSUME NEW b \in Boxes, InPicture(b), ~Thin(b)
  PROVE  /\ ObjAt(b) \subseteq Picture
         /\ ObjAt(b) = IF Rect(b).w > 0 /\ Rect(b).h > 0
                       THEN Frame(Rect(b)) \cup TextAt([x |-> b.x - Margin, y |-> b.y]) ELSE {}
<1> DEFINE r == Rect(b)
<1>1. /\ r.x \in 0 .. Width - 1 /\ r.w \in Nat /\ r.x + r.w <= Width
      /\ r.y \in 0 .. Height - 1 /\ r.h \in Nat /\ r.y + r.h <= Height
  BY RectInPicture
<1>2. r.w \notin 1 .. 3 /\ r.h \notin 1 .. 3
  BY DEF Thin
<1>3. ObjAt(b) = IF Wrap(r.w * r.h) = 0 THEN {}
                 ELSE Border(r) \cup TextAt([x |-> b.x - Margin, y |-> b.y])
  BY DEF ObjAt
<1> HIDE DEF r
<1>4. CASE r.w = 0 \/ r.h = 0
  <2>1. r.w * r.h = 0
    BY <1>1, <1>4
  <2>2. Wrap(r.w * r.h) = 0
    <3>1. 0 \in 0 .. Word - 1 /\ Word \in Nat \ {0}
      BY Sizes
    <3> QED BY <2>1, <3>1, ModBelow DEF Wrap
  <2>3. ObjAt(b) = {}
    BY <1>3, <2>2
  <2> QED BY <1>1, <1>4, <2>3 DEF r
<1>5. CASE r.w # 0 /\ r.h # 0
  <2>1. r.w >= 4 /\ r.h >= 4
    BY <1>1, <1>2, <1>5
  <2>2. Wrap(r.w * r.h) # 0
    <3> DEFINE n == r.w * r.h
    <3>1. n <= Pitch * Height
      <4>1. r.w <= Pitch /\ r.h <= Height /\ Pitch \in Nat /\ Height \in Nat
        BY <1>1, Sizes
      <4>2. r.w * r.h <= Pitch * r.h /\ r.h * Pitch <= Height * Pitch
        BY <1>1, <4>1, TimesLeft
      <4>3. r.h * Pitch = Pitch * r.h /\ Height * Pitch = Pitch * Height /\ r.w * r.h \in Nat
            /\ Pitch * r.h \in Nat /\ Pitch * Height \in Nat
        BY <1>1, <4>1
      <4> QED BY <4>2, <4>3
    <3>2. n \in Nat /\ n # 0
      <4>1. 4 * r.h <= r.w * r.h
        BY <1>1, <2>1, TimesLeft
      <4>2. r.w * r.h \in Nat
        BY <1>1
      <4> QED BY <1>1, <2>1, <4>1, <4>2
    <3>3. Pitch * Height \in Nat /\ 2 * (Pitch * Height) < Word /\ Word \in Nat \ {0}
      BY Sizes
    <3> HIDE DEF n
    <3>4. n \in 0 .. Word - 1
      BY <3>1, <3>2, <3>3
    <3>5. Wrap(n) = n
      BY <3>3, <3>4, ModBelow DEF Wrap
    <3> QED BY <3>2, <3>5 DEF n
  <2>3. Border(r) = Frame(r)
    BY <1>1, <2>1, BorderIsFrame
  <2>4. Frame(r) \subseteq Picture
    <3>1. ASSUME NEW q \in Frame(r) PROVE q \in Picture
      <4>1. PICK p \in (r.x .. r.x + r.w - 1) \X (r.y .. r.y + r.h - 1) : q = Pixel(p[1], p[2])
        BY <3>1 DEF Frame
      <4>2. p[1] \in r.x .. r.x + r.w - 1 /\ p[2] \in r.y .. r.y + r.h - 1
        BY <4>1
      <4>3. p[1] \in 0 .. Width - 1 /\ p[2] \in 0 .. Height - 1
        BY <1>1, <4>2, Sizes
      <4> QED BY <4>1, <4>3 DEF Picture
    <3> QED BY <3>1
  <2>5. ObjAt(b) = Frame(r) \cup TextAt([x |-> b.x - Margin, y |-> b.y])
    BY <1>3, <2>2, <2>3
  <2>6. r.w > 0 /\ r.h > 0
    BY <1>1, <1>5
  <2> QED BY <2>4, <2>5, <2>6, TextInPicture DEF r
<1> QED BY <1>4, <1>5

\* What a canvas shows of a request, pixel by pixel.
Shown(r) ==
  UNION ({TextAt(p) : p \in r.points} \cup
         {Frame(Rect(b)) \cup TextAt([x |-> b.x - Margin, y |-> b.y]) :
            b \in {o \in r.boxes : Rect(o).w > 0 /\ Rect(o).h > 0}})

\* A request whose objects start in the picture draws that, and stays in it.
LEMMA RequestDrawn ==
  ASSUME NEW r \in Requests, \A b \in r.boxes : InPicture(b) /\ ~Thin(b)
  PROVE  Drawing(r) \subseteq Picture /\ Drawing(r) = Shown(r)
<1>1. r.boxes \subseteq Boxes
  BY DEF Requests
<1>2. \A b \in r.boxes :
        /\ ObjAt(b) \subseteq Picture
        /\ ObjAt(b) = IF Rect(b).w > 0 /\ Rect(b).h > 0
                      THEN Frame(Rect(b)) \cup TextAt([x |-> b.x - Margin, y |-> b.y]) ELSE {}
  BY <1>1, ObjectDrawn
<1> DEFINE D(b) == Frame(Rect(b)) \cup TextAt([x |-> b.x - Margin, y |-> b.y])
           E == {o \in r.boxes : Rect(o).w > 0 /\ Rect(o).h > 0}
<1>3. \A q : q \in Drawing(r) <=> (\E b \in r.boxes : q \in ObjAt(b)) \/ (\E p \in r.points : q \in TextAt(p))
  BY DEF Drawing
<1>4. Drawing(r) \subseteq Picture
  BY <1>2, <1>3, TextInPicture
<1>5. \A q : (\E b \in r.boxes : q \in ObjAt(b)) <=> (\E b \in E : q \in D(b))
  BY <1>2
<1> HIDE DEF D, E
<1>6. Drawing(r) = UNION ({TextAt(p) : p \in r.points} \cup {D(b) : b \in E})
  BY <1>3, <1>5
<1> QED BY <1>4, <1>6 DEF D, E, Shown

\* A canvas holds what the last request drew.
Painted == canvas = [id \in Regions |-> Drawing(drawn[id])]

\* A request clears the canvas of its region and draws, or leaves all canvases.
LEMMA PaintedStep ==
  ASSUME OsdTypeOK, Painted, [OsdNext]_osdVars
  PROVE  Painted'
<1>1. CASE UNCHANGED <<canvas, drawn>>
  BY <1>1 DEF Painted
<1>2. ASSUME NEW id \in Regions, NEW r \in Requests, Ctrl(id, r) PROVE Painted'
  <2>1. CASE UNCHANGED <<canvas, drawn>>
    BY <2>1 DEF Painted
  <2>2. CASE canvas' = [canvas EXCEPT ![id] = Drawing(r)] /\ drawn' = [drawn EXCEPT ![id] = r]
    <3>1. drawn \in [Regions -> Requests]
      BY DEF OsdTypeOK
    <3>2. \A d \in Regions : drawn'[d] = IF d = id THEN r ELSE drawn[d]
      BY <2>2, <3>1
    <3>3. canvas' = [d \in Regions |-> IF d = id THEN Drawing(r) ELSE Drawing(drawn[d])]
      BY <2>2 DEF Painted
    <3> QED BY <3>2, <3>3 DEF Painted
  <2> QED BY <1>2, <2>1, <2>2 DEF Ctrl, Cover, Overlay
<1> QED BY <1>1, <1>2 DEF OsdNext, Set, Trigger, osdVars

\* The drawing code of osd_mgr.c keeps to the canvas, for every size of the
\* picture and every request with objects that start in it and are not thinner
\* than their border: unsigned numbers never wrap, and nothing of an earlier
\* request remains.
THEOREM CanvasIsLastAlways == OsdSpec => []CanvasIsLast
<1>1. OsdInit => Painted
  <2>1. Drawing(Nothing) = {}
    BY DEF Drawing, Nothing
  <2> QED BY <2>1 DEF OsdInit, Painted
<1>2. RegionAsConfigured /\ Painted /\ [OsdNext]_osdVars => Painted'
  BY PaintedStep DEF RegionAsConfigured
<1>3. RegionAsConfigured /\ Painted => CanvasIsLast
  <2>1. ASSUME RegionAsConfigured, Painted, NEW id \in Regions,
               \A b \in drawn[id].boxes : InPicture(b) /\ ~Thin(b)
        PROVE  canvas[id] \subseteq Picture /\ canvas[id] = Shown(drawn[id])
    <3>1. drawn[id] \in Requests
      BY <2>1 DEF RegionAsConfigured, OsdTypeOK
    <3>2. canvas[id] = Drawing(drawn[id])
      BY <2>1 DEF Painted
    <3> QED BY <2>1, <3>1, <3>2, RequestDrawn
  <2>2. CanvasIsLast <=>
          \A id \in Regions :
            (\A b \in drawn[id].boxes : InPicture(b) /\ ~Thin(b)) =>
              canvas[id] \subseteq Picture /\ canvas[id] = Shown(drawn[id])
    BY DEF CanvasIsLast, Picture, Shown
  <2> QED BY <2>1, <2>2, Zenon
<1> QED BY <1>1, <1>2, <1>3, RegionAsConfiguredAlways, PTL DEF OsdSpec
-----------------------------------------------------------------------------
(***************************************************************************)
(* Boot                                                                    *)
(***************************************************************************)
\* The shape of a call.
Ops == {"make", "drop", "param", "clear", "stop", "free", "pump", "die"}
Names == {"vb", "sys", "mipi", "sensor", "dev", "pipe", "run", "chn", "isp", "ispRun", "grp", "layer",
          "started", "viBind", "enc", "recv", "bind"} \cup Ops
CallSet == [op : Ops, res : Names \X Int, skip : Nat]
C(op, kind, i) == [op |-> op, res |-> <<kind, i>>, skip |-> 0]

\* A list of one call.
LEMMA OneCall ==
  ASSUME NEW op \in Ops, NEW kind \in Names, NEW i \in Int
  PROVE  /\ Call(op, kind, i) \in Seq(CallSet) /\ Len(Call(op, kind, i)) = 1
         /\ Call(op, kind, i)[1] = C(op, kind, i) /\ DOMAIN Call(op, kind, i) = 1 .. 1
<1>1. [op |-> op, res |-> <<kind, i>>, skip |-> 0] \in CallSet
  BY DEF CallSet
<1> QED BY <1>1 DEF Call, C

\* The lists that make one resource.
LEMMA MakeIs ==
  ASSUME NEW kind \in Names, NEW i \in Int
  PROVE  /\ Make(kind, i) \in Seq(CallSet) /\ Len(Make(kind, i)) = 1
         /\ Make(kind, i)[1] = C("make", kind, i) /\ DOMAIN Make(kind, i) = 1 .. 1
<1>1. "make" \in Ops
  BY DEF Ops
<1> QED BY <1>1, OneCall DEF Make

\* Two lists of calls, one after the other.
Then(a, b) == a \o b

\* Two lists, one after the other.
LEMMA Concat ==
  ASSUME NEW S, NEW a \in Seq(S), NEW b \in Seq(S)
  PROVE  /\ a \o b \in Seq(S) /\ Len(a \o b) = Len(a) + Len(b)
         /\ Len(a) \in Nat /\ Len(b) \in Nat
         /\ DOMAIN a = 1 .. Len(a) /\ DOMAIN b = 1 .. Len(b)
         /\ DOMAIN (a \o b) = 1 .. Len(a) + Len(b)
         /\ \A i \in 1 .. Len(a) : (a \o b)[i] = a[i]
         /\ \A i \in 1 .. Len(b) : (a \o b)[Len(a) + i] = b[i]
         /\ \A i \in 1 .. Len(a) + Len(b) : i > Len(a) => (a \o b)[i] = b[i - Len(a)]
OBVIOUS

\* s is a, of m calls, and then b, of n.
IsThen(s, a, b, m, n) ==
  /\ s \in Seq(CallSet) /\ Len(s) = m + n
  /\ DOMAIN a = 1 .. m /\ DOMAIN b = 1 .. n /\ DOMAIN s = 1 .. m + n
  /\ \A i \in 1 .. m : s[i] = a[i]
  /\ \A i \in m + 1 .. m + n : s[i] = b[i - m]

\* The calls of two lists, one after the other.
LEMMA ThenIs ==
  ASSUME NEW a, NEW b, a \in Seq(CallSet), b \in Seq(CallSet), NEW m \in Nat, NEW n \in Nat, Len(a) = m, Len(b) = n
  PROVE  IsThen(Then(a, b), a, b, m, n)
<1>1. a \o b \in Seq(CallSet) /\ DOMAIN a = 1 .. m /\ DOMAIN b = 1 .. n
  OBVIOUS
<1>2. Len(a \o b) = m + n
  OBVIOUS
<1>3. DOMAIN (a \o b) = 1 .. m + n
  BY <1>1, <1>2
<1>4. ASSUME NEW i \in 1 .. m PROVE (a \o b)[i] = a[i]
  BY Concat
<1>5. ASSUME NEW i \in m + 1 .. m + n PROVE (a \o b)[i] = b[i - m]
  <2>1. i \in 1 .. m + n /\ i > m
    OBVIOUS
  <2> QED BY <2>1, Concat
<1> QED BY <1>1, <1>4, <1>5, <1>2, <1>3 DEF Then, IsThen

\* Two lists of one call.
LEMMA ThenTwo ==
  ASSUME NEW a, NEW b, a \in Seq(CallSet), b \in Seq(CallSet), Len(a) = 1, Len(b) = 1
  PROVE  /\ Then(a, b) \in Seq(CallSet) /\ Len(Then(a, b)) = 2
         /\ Then(a, b)[1] = a[1] /\ Then(a, b)[2] = b[1]
<1>1. /\ a \o b \in Seq(CallSet) /\ Len(a \o b) = 2 /\ (a \o b)[1] = a[1] /\ (a \o b)[2] = b[1]
  BY Concat
<1> QED BY <1>1 DEF Then

\* The order in which the resources are made.
W(r) ==
  CASE r[1] = "vb" -> 1
    [] r[1] = "sys" -> 2
    [] r[1] = "dev" -> 3 + 4 * r[2]
    [] r[1] = "pipe" -> 4 + 4 * r[2]
    [] r[1] = "run" -> 5 + 4 * r[2]
    [] r[1] = "chn" -> 6 + 4 * r[2]
    [] r[1] = "isp" -> 3 + 4 * vis + 2 * r[2]
    [] r[1] = "ispRun" -> 4 + 4 * vis + 2 * r[2]
    [] r[1] = "grp" -> 3 + 6 * vis
    [] r[1] = "layer" -> 4 + 6 * vis + r[2]
    [] r[1] = "started" -> 4 + 6 * vis + Layers
    [] r[1] = "viBind" -> 5 + 6 * vis + Layers
    [] r[1] = "enc" -> 6 + 6 * vis + Layers + 3 * r[2]
    [] r[1] = "recv" -> 7 + 6 * vis + Layers + 3 * r[2]
    [] r[1] = "bind" -> 8 + 6 * vis + Layers + 3 * r[2]
    [] OTHER -> 0

\* A call that makes something that only one may make.
Weighs(c) == c.op = "make" /\ c.res \notin Idempotent

\* What boot makes: of the VIs and of the channels that the configuration has.
Numbers == {chans[e] : e \in Es}
Own ==
  ({"vb", "sys", "mipi", "sensor", "grp", "started", "viBind"} \X {0})
  \cup ({"dev", "pipe", "run", "chn", "isp", "ispRun"} \X Vs)
  \cup ({"layer"} \X Ls)
  \cup ({"enc", "recv", "bind"} \X Numbers)

\* Calls of boot after the system is initialised.
OfBoot(c) ==
  /\ c.op \in {"make", "param"}
  /\ c.op = "make" => c.res \in Own
  /\ c.op = "param" => c.res[1] = "param"
Boots(s) == s \in Seq(CallSet) /\ \A i \in DOMAIN s : OfBoot(s[i])

\* They make things in order, each once.
Rising(s, lo, hi) ==
  /\ \A i \in DOMAIN s : Weighs(s[i]) => W(s[i].res) \in lo .. hi - 1
  /\ \A i, k \in DOMAIN s : i < k /\ Weighs(s[i]) /\ Weighs(s[k]) => W(s[i].res) < W(s[k].res)

\* Two parts of boot, one after the other.
LEMMA BootsConcat ==
  ASSUME NEW a, NEW b, Boots(a), Boots(b)
  PROVE  Boots(a \o b)
<1>1. a \in Seq(CallSet) /\ b \in Seq(CallSet)
  BY DEF Boots
<1>2. ASSUME NEW i \in DOMAIN (a \o b)
      PROVE  OfBoot((a \o b)[i])
  <2>1. i \in 1 .. Len(a) \/ (i > Len(a) /\ i - Len(a) \in 1 .. Len(b))
    BY <1>1, Concat
  <2>2. CASE i \in 1 .. Len(a)
    BY <1>1, <2>2, Concat DEF Boots
  <2>3. CASE i > Len(a) /\ i - Len(a) \in 1 .. Len(b)
    <3>1. (a \o b)[i] = b[i - Len(a)] /\ i - Len(a) \in DOMAIN b
      BY <1>1, <2>3, Concat
    <3> QED BY <3>1 DEF Boots
  <2> QED BY <2>1, <2>2, <2>3
<1>3. a \o b \in Seq(CallSet)
  BY <1>1, Concat
<1> QED BY <1>2, <1>3 DEF Boots

\* Two lists that make things in order, the second after the first.
LEMMA RisingConcat ==
  ASSUME NEW a \in Seq(CallSet), NEW b \in Seq(CallSet), NEW lo \in Int, NEW mid \in Int, NEW hi \in Int,
         lo <= mid, mid <= hi, Rising(a, lo, mid), Rising(b, mid, hi)
  PROVE  Rising(a \o b, lo, hi)
<1> DEFINE s == a \o b
           n == Len(a)
<1>1. /\ n \in Nat /\ Len(b) \in Nat /\ DOMAIN s = 1 .. n + Len(b) /\ DOMAIN a = 1 .. n /\ DOMAIN b = 1 .. Len(b)
      /\ \A i \in DOMAIN a : s[i] = a[i]
      /\ \A i \in DOMAIN s : i > n => s[i] = b[i - n] /\ i - n \in DOMAIN b
  BY Concat
<1> HIDE DEF s, n
<1>2. \A i \in DOMAIN s : Weighs(s[i]) => W(s[i].res) \in (IF i <= n THEN lo .. mid - 1 ELSE mid .. hi - 1)
  <2>1. ASSUME NEW i \in DOMAIN s, Weighs(s[i]) PROVE W(s[i].res) \in (IF i <= n THEN lo .. mid - 1 ELSE mid .. hi - 1)
    <3>1. CASE i <= n
      BY <1>1, <2>1, <3>1 DEF Rising
    <3>2. CASE i > n
      BY <1>1, <2>1, <3>2 DEF Rising
    <3> QED BY <1>1, <3>1, <3>2
  <2> QED BY <2>1
<1>3. ASSUME NEW i \in DOMAIN s, NEW k \in DOMAIN s, i < k, Weighs(s[i]), Weighs(s[k]) PROVE W(s[i].res) < W(s[k].res)
  <2>1. CASE k <= n
    BY <1>1, <1>3, <2>1 DEF Rising
  <2>2. CASE i > n
    <3>1. s[i] = b[i - n] /\ i - n \in DOMAIN b /\ s[k] = b[k - n] /\ k - n \in DOMAIN b /\ i - n < k - n
      BY <1>1, <1>3, <2>2
    <3> QED BY <1>3, <3>1 DEF Rising
  <2>3. CASE i <= n /\ k > n
    BY <1>1, <1>2, <1>3, <2>3
  <2> QED BY <1>1, <2>1, <2>2, <2>3
<1>4. \A i \in DOMAIN s : Weighs(s[i]) => W(s[i].res) \in lo .. hi - 1
  BY <1>2
<1> QED BY <1>3, <1>4 DEF Rising, s

Configured == vis \in 1 .. MaxVis /\ ids \in Numberings /\ chans \in Numberings

Good(s, lo, hi) == Boots(s) /\ Rising(s, lo, hi)

\* Both together.
LEMMA GoodConcat ==
  ASSUME NEW a, NEW b, NEW lo \in Int, NEW mid \in Int, NEW hi \in Int,
         lo <= mid, mid <= hi, Good(a, lo, mid), Good(b, mid, hi)
  PROVE  Good(a \o b, lo, hi)
BY BootsConcat, RisingConcat DEF Good, Boots

\* A call that makes what the configuration has.
LEMMA MakeGood ==
  ASSUME NEW kind \in Names, NEW i \in Int, <<kind, i>> \in Own,
         NEW lo \in Int, NEW hi \in Int,
         <<kind, i>> \in Idempotent \/ W(<<kind, i>>) \in lo .. hi - 1
  PROVE  /\ Good(Make(kind, i), lo, hi) /\ Len(Make(kind, i)) = 1
         /\ Make(kind, i) \in Seq(CallSet) /\ Make(kind, i)[1] = C("make", kind, i)
<1>1. /\ Make(kind, i) \in Seq(CallSet) /\ Len(Make(kind, i)) = 1 /\ DOMAIN Make(kind, i) = 1 .. 1
      /\ Make(kind, i)[1] = C("make", kind, i)
  BY MakeIs
<1>2. C("make", kind, i).op = "make" /\ C("make", kind, i).res = <<kind, i>>
  BY DEF C
<1> DEFINE s == Make(kind, i)
<1>3. \A k \in DOMAIN s : s[k].op = "make" /\ s[k].res = <<kind, i>> /\ k = 1
  BY <1>1, <1>2
<1> HIDE DEF s
<1>4. Boots(s)
  BY <1>1, <1>3 DEF Boots, OfBoot, s
<1>5. Rising(s, lo, hi)
  BY <1>3 DEF Rising, Weighs
<1> QED BY <1>1, <1>4, <1>5 DEF Good, s

\* A call that makes nothing.
LEMMA AskGood ==
  ASSUME NEW i \in Int, NEW lo \in Int, NEW hi \in Int
  PROVE  /\ Good(Ask(i), lo, hi) /\ Len(Ask(i)) = 1
         /\ Ask(i) \in Seq(CallSet) /\ Ask(i)[1] = C("param", "param", i)
<1>1. /\ Ask(i) \in Seq(CallSet) /\ Len(Ask(i)) = 1 /\ DOMAIN Ask(i) = 1 .. 1
      /\ Ask(i)[1] = C("param", "param", i)
  BY OneCall DEF Ask, Mark, Ops, Names
<1>2. C("param", "param", i).op = "param" /\ C("param", "param", i).res[1] = "param"
  BY DEF C
<1> DEFINE s == Ask(i)
<1>3. \A k \in DOMAIN s : s[k].op = "param" /\ s[k].res[1] = "param"
  BY <1>1, <1>2
<1> HIDE DEF s
<1>4. Boots(s) /\ Rising(s, lo, hi)
  BY <1>1, <1>3 DEF Boots, OfBoot, Rising, Weighs, s
<1> QED BY <1>1, <1>4 DEF Good, s

\* What there is of each kind.
LEMMA ResourceKinds ==
  /\ \A k \in {"vb", "sys", "mipi", "sensor", "grp", "started", "viBind"} : <<k, 0>> \in Own
  /\ \A k \in {"dev", "pipe", "run", "chn", "isp", "ispRun"} : \A v \in 0 .. vis - 1 : <<k, v>> \in Own
  /\ \A l \in Ls : <<"layer", l>> \in Own
  /\ \A k \in {"enc", "recv", "bind"} : \A n \in Numbers : <<k, n>> \in Own
BY DEF Own, Vs

\* The calls of one VI, and what all together are.
LEMMA SingleVi ==
  ASSUME NEW v \in Int
  PROVE  /\ CreateSingleVi(v) \in Seq(CallSet) /\ Len(CreateSingleVi(v)) = 4
         /\ CreateSingleVi(v)[1] = C("make", "dev", v) /\ CreateSingleVi(v)[2] = C("make", "pipe", v)
         /\ CreateSingleVi(v)[3] = C("make", "run", v) /\ CreateSingleVi(v)[4] = C("make", "chn", v)
<1> DEFINE a == Make("dev", v)
           b == Make("pipe", v)
           c == Make("run", v)
           d == Make("chn", v)
<1>1. /\ a \in Seq(CallSet) /\ Len(a) = 1 /\ a[1] = C("make", "dev", v)
      /\ b \in Seq(CallSet) /\ Len(b) = 1 /\ b[1] = C("make", "pipe", v)
      /\ c \in Seq(CallSet) /\ Len(c) = 1 /\ c[1] = C("make", "run", v)
      /\ d \in Seq(CallSet) /\ Len(d) = 1 /\ d[1] = C("make", "chn", v)
  <2>1. {"dev", "pipe", "run", "chn"} \subseteq Names
    BY DEF Names
  <2> QED BY <2>1, MakeIs
<1>2. CreateSingleVi(v) = a \o (b \o c) \o d
  BY DEF CreateSingleVi, StartDev, StartViPipe, StartViChn
<1> HIDE DEF a, b, c, d
<1>3. b \o c \in Seq(CallSet) /\ Len(b \o c) = 2 /\ (b \o c)[1] = b[1] /\ (b \o c)[2] = c[1]
  BY <1>1, Concat
<1>4. /\ a \o (b \o c) \in Seq(CallSet) /\ Len(a \o (b \o c)) = 3
      /\ (a \o (b \o c))[1] = a[1] /\ (a \o (b \o c))[2] = b[1] /\ (a \o (b \o c))[3] = c[1]
  BY <1>1, <1>3, Concat
<1> QED BY <1>1, <1>2, <1>3, <1>4, Concat

\* All VIs: the device, the pipe and the channel of one after another.
LEMMA CreateViGood ==
  ASSUME Configured
  PROVE  /\ Good(CreateVi, 3, 3 + 4 * vis) /\ Len(CreateVi) = 4 * vis
         /\ CreateVi[1] = C("make", "dev", 0)
<1>1. vis \in Nat \ {0} /\ vis <= MaxVis /\ MaxVis \in Nat
  BY CaptureAssumption DEF Configured
<1>2. Len(CreateSingleVi(0)) = 4
  BY SingleVi
<1>3. CreateVi = [j \in 1 .. vis * 4 |-> CreateSingleVi((j - 1) \div 4)[((j - 1) % 4) + 1]]
  BY <1>1, <1>2 DEF CreateVi, Each
<1>4. ASSUME NEW j \in 1 .. vis * 4
      PROVE  /\ CreateVi[j] \in CallSet /\ CreateVi[j].op = "make" /\ CreateVi[j].res \in Own
             /\ W(CreateVi[j].res) = 2 + j
  <2> DEFINE v == (j - 1) \div 4
             b == ((j - 1) % 4) + 1
  <2>1. v \in 0 .. vis - 1 /\ b \in 1 .. 4 /\ j = 4 * v + b
    BY <1>1
  <2>2. CreateVi[j] = CreateSingleVi(v)[b]
    BY <1>3
  <2> HIDE DEF v, b
  <2>3. v \in 0 .. vis - 1 /\ v \in Int
    BY <1>1, <2>1
  <2>4. PICK k \in {"dev", "pipe", "run", "chn"} :
          CreateVi[j] = C("make", k, v) /\ W(<<k, v>>) = 2 + j
    <3>1. CASE b = 1
      BY <2>1, <2>2, <2>3, <3>1, SingleVi DEF W
    <3>2. CASE b = 2
      BY <2>1, <2>2, <2>3, <3>2, SingleVi DEF W
    <3>3. CASE b = 3
      BY <2>1, <2>2, <2>3, <3>3, SingleVi DEF W
    <3>4. CASE b = 4
      BY <2>1, <2>2, <2>3, <3>4, SingleVi DEF W
    <3> QED BY <2>1, <3>1, <3>2, <3>3, <3>4
  <2>5. C("make", k, v) \in CallSet /\ C("make", k, v).op = "make" /\ C("make", k, v).res = <<k, v>>
    BY <2>3 DEF C, CallSet, Ops, Names
  <2> QED BY <2>3, <2>4, <2>5, ResourceKinds
<1>5. vis * 4 = 4 * vis /\ 4 * vis \in Nat
  BY <1>1
<1>6. CreateVi \in Seq(CallSet) /\ Len(CreateVi) = 4 * vis /\ DOMAIN CreateVi = 1 .. 4 * vis
  BY <1>3, <1>4, <1>5
<1>7. Good(CreateVi, 3, 3 + 4 * vis)
  BY <1>1, <1>4, <1>6 DEF Good, Boots, OfBoot, Rising, Weighs
<1>8. CreateVi[1] = CreateSingleVi(0)[1]
  BY <1>1, <1>3
<1> QED BY <1>6, <1>7, <1>8, SingleVi

\* A list of n calls, of which those that make things do it in order.
Part(s, n, lo, hi) == Good(s, lo, hi) /\ s \in Seq(CallSet) /\ Len(s) = n

\* Two lists one after the other.
LEMMA Joined ==
  ASSUME NEW a, NEW b, NEW lo \in Int, NEW mid \in Int, NEW hi \in Int, NEW m \in Nat, NEW n \in Nat,
         Part(a, m, lo, mid), Part(b, n, mid, hi), lo <= mid, mid <= hi
  PROVE  /\ Part(Then(a, b), m + n, lo, hi)
         /\ \A i \in 1 .. m : Then(a, b)[i] = a[i]
         /\ \A i \in m + 1 .. m + n : Then(a, b)[i] = b[i - m]
<1>1. a \in Seq(CallSet) /\ b \in Seq(CallSet) /\ Len(a) = m /\ Len(b) = n
  BY DEF Part
<1>2. Good(Then(a, b), lo, hi)
  BY GoodConcat DEF Part, Then
<1>3. /\ Then(a, b) \in Seq(CallSet) /\ Len(Then(a, b)) = m + n
      /\ \A i \in 1 .. m : Then(a, b)[i] = a[i]
      /\ \A i \in m + 1 .. m + n : Then(a, b)[i] = b[i - m]
  <2>1. IsThen(Then(a, b), a, b, m, n)
    BY <1>1, ThenIs
  <2> QED BY <2>1 DEF IsThen
<1> QED BY <1>2, <1>3 DEF Part

\* All ISPs.
LEMMA CreateIspGood ==
  ASSUME Configured
  PROVE  /\ Good(CreateIsp, 3 + 4 * vis, 3 + 6 * vis) /\ Len(CreateIsp) = 2 * vis
         /\ CreateIsp[2] = C("make", "ispRun", 0)
<1>1. vis \in Nat \ {0} /\ vis <= MaxVis /\ MaxVis \in Nat
  BY CaptureAssumption DEF Configured
<1>2. ASSUME NEW v \in Int
      PROVE  /\ Len(StartIsp(v)) = 2
             /\ StartIsp(v)[1] = C("make", "isp", v) /\ StartIsp(v)[2] = C("make", "ispRun", v)
  <2> DEFINE a == Make("isp", v)
             b == Make("ispRun", v)
  <2>1. /\ a \in Seq(CallSet) /\ Len(a) = 1 /\ a[1] = C("make", "isp", v)
        /\ b \in Seq(CallSet) /\ Len(b) = 1 /\ b[1] = C("make", "ispRun", v)
    <3>1. {"isp", "ispRun"} \subseteq Names
      BY DEF Names
    <3> QED BY <3>1, MakeIs
  <2>2. StartIsp(v) = Then(a, b)
    BY DEF StartIsp, Then
  <2> HIDE DEF a, b
  <2>3. Len(Then(a, b)) = 2 /\ Then(a, b)[1] = a[1] /\ Then(a, b)[2] = b[1]
    BY <2>1, ThenTwo
  <2> QED BY <2>1, <2>2, <2>3
<1>3. CreateIsp = [j \in 1 .. vis * 2 |-> StartIsp((j - 1) \div 2)[((j - 1) % 2) + 1]]
  <2>1. Len(StartIsp(0)) = 2
    BY <1>2
  <2> QED BY <1>1, <2>1 DEF CreateIsp, Each
<1>4. ASSUME NEW j \in 1 .. vis * 2
      PROVE  /\ CreateIsp[j] \in CallSet /\ CreateIsp[j].op = "make" /\ CreateIsp[j].res \in Own
             /\ W(CreateIsp[j].res) = 2 + 4 * vis + j
  <2> DEFINE v == (j - 1) \div 2
             b == ((j - 1) % 2) + 1
  <2>1. v \in 0 .. vis - 1 /\ b \in 1 .. 2 /\ j = 2 * v + b
    BY <1>1
  <2>2. CreateIsp[j] = StartIsp(v)[b]
    BY <1>3
  <2> HIDE DEF v, b
  <2>3. v \in 0 .. vis - 1 /\ v \in Int
    BY <1>1, <2>1
  <2>4. PICK k \in {"isp", "ispRun"} : CreateIsp[j] = C("make", k, v) /\ W(<<k, v>>) = 2 + 4 * vis + j
    <3>1. CASE b = 1
      BY <1>1, <1>2, <2>1, <2>2, <2>3, <3>1 DEF W
    <3>2. CASE b = 2
      BY <1>1, <1>2, <2>1, <2>2, <2>3, <3>2 DEF W
    <3> QED BY <2>1, <3>1, <3>2
  <2>5. C("make", k, v) \in CallSet /\ C("make", k, v).op = "make" /\ C("make", k, v).res = <<k, v>>
    BY <2>3 DEF C, CallSet, Ops, Names
  <2> QED BY <2>3, <2>4, <2>5, ResourceKinds
<1>5. vis * 2 = 2 * vis /\ 2 * vis \in Nat
  BY <1>1
<1>6. CreateIsp \in Seq(CallSet) /\ Len(CreateIsp) = 2 * vis /\ DOMAIN CreateIsp = 1 .. 2 * vis
  BY <1>3, <1>4, <1>5
<1>7. Good(CreateIsp, 3 + 4 * vis, 3 + 6 * vis)
  BY <1>1, <1>4, <1>6 DEF Good, Boots, OfBoot, Rising, Weighs
<1>8. CreateIsp[2] = StartIsp(0)[2]
  <2>1. 2 \in 1 .. vis * 2 /\ (2 - 1) \div 2 = 0 /\ ((2 - 1) % 2) + 1 = 2
    BY <1>1
  <2> QED BY <1>3, <2>1
<1> QED BY <1>2, <1>6, <1>7, <1>8

\* What one VI object starts: everything in order, after the receiver.
LEMMA ViInitGood ==
  ASSUME Configured, NEW v \in Int
  PROVE  /\ Good(ViInit(v), 3, 3 + 6 * vis) /\ ViInit(v) \in Seq(CallSet)
         /\ Len(ViInit(v)) = 6 + 6 * vis
         /\ ViInit(v)[7] = C("make", "dev", 0)
         /\ \A i \in 1 .. 6 : ~Weighs(ViInit(v)[i])
         /\ \E i \in 1 .. 6 + 6 * vis : ViInit(v)[i] = C("make", "ispRun", 0)
<1> DEFINE p1 == Ask(0)
           p2 == Ask(v)
           m1 == Make("mipi", 0)
           m2 == Make("sensor", 0)
           hi == 3 + 6 * vis
           mid == 3 + 4 * vis
           cv == CreateVi
           ci == CreateIsp
           n1 == 4 * vis
           n2 == 2 * vis
<1>1. /\ n1 \in Nat /\ n2 \in Nat /\ n1 >= 4 /\ n2 >= 2 /\ mid = 3 + n1 /\ hi = 3 + (n1 + n2)
      /\ 6 * vis = n1 + n2
  BY CaptureAssumption DEF Configured
<1>2. Part(p1, 1, 3, 3) /\ Part(p2, 1, 3, 3)
  BY AskGood DEF Part
<1>3. Part(m1, 1, 3, 3) /\ Part(m2, 1, 3, 3)
  <2>1. /\ <<"mipi", 0>> \in Own /\ <<"sensor", 0>> \in Own
        /\ <<"mipi", 0>> \in Idempotent /\ <<"sensor", 0>> \in Idempotent
        /\ "mipi" \in Names /\ "sensor" \in Names /\ 0 \in Int /\ 3 \in Int
    BY ResourceKinds DEF Idempotent, Names
  <2>2. Good(m1, 3, 3) /\ m1 \in Seq(CallSet) /\ Len(m1) = 1
    BY <2>1, MakeGood, Zenon
  <2>3. Good(m2, 3, 3) /\ m2 \in Seq(CallSet) /\ Len(m2) = 1
    BY <2>1, MakeGood, Zenon
  <2> QED BY <2>2, <2>3 DEF Part
<1>4. /\ Part(cv, n1, 3, mid) /\ cv[1] = C("make", "dev", 0)
      /\ Part(ci, n2, mid, hi) /\ ci[2] = C("make", "ispRun", 0)
  BY CreateViGood, CreateIspGood DEF Part, Good, Boots
<1>5. ViInit(v) = Then(Then(p1, p2), Then(Then(Then(Then(Then(m1, m2), p1), p1), cv), ci))
  BY DEF ViInit, SetParam, StartVi, StartMipi, EnableMipiClock, EnableSensorClock, SetMipiAttr, Then
<1> HIDE DEF p1, p2, m1, m2, cv, ci, hi, mid, n1, n2
<1> DEFINE q == Then(p1, p2)
           a == Then(Then(Then(m1, m2), p1), p1)
           d == Then(a, cv)
           e == Then(d, ci)
           s == Then(q, e)
<1>6. Part(q, 2, 3, 3)
  <2>1. Part(q, 1 + 1, 3, 3)
    BY <1>2, Joined
  <2> QED BY <2>1
<1>7. Part(a, 4, 3, 3)
  <2>1. Part(Then(m1, m2), 2, 3, 3)
    <3>1. Part(Then(m1, m2), 1 + 1, 3, 3)
      BY <1>3, Joined
    <3> QED BY <3>1
  <2>2. Part(Then(Then(m1, m2), p1), 3, 3, 3)
    <3>1. Part(Then(Then(m1, m2), p1), 2 + 1, 3, 3)
      BY <1>2, <2>1, Joined
    <3> QED BY <3>1
  <2>3. Part(a, 3 + 1, 3, 3)
    BY <1>2, <2>2, Joined
  <2> QED BY <2>3
<1>8. ViInit(v) = s
  BY <1>5
<1> HIDE DEF s
<1> HIDE DEF q
<1> HIDE DEF e
<1> HIDE DEF d
<1> HIDE DEF a
<1>9. /\ Part(d, 4 + n1, 3, mid)
      /\ \A i \in 1 .. 4 : d[i] = a[i]
      /\ \A i \in 4 + 1 .. 4 + n1 : d[i] = cv[i - 4]
  BY <1>1, <1>4, <1>7, Joined DEF d
<1>10. d[5] = C("make", "dev", 0)
  BY <1>1, <1>4, <1>9
<1>11. /\ Part(e, (4 + n1) + n2, 3, hi)
       /\ \A i \in 1 .. 4 + n1 : e[i] = d[i]
       /\ \A i \in (4 + n1) + 1 .. (4 + n1) + n2 : e[i] = ci[i - (4 + n1)]
  BY <1>1, <1>4, <1>9, Joined DEF e
<1>12. e[5] = C("make", "dev", 0) /\ \A i \in 1 .. 4 : e[i] = a[i]
  BY <1>1, <1>9, <1>10, <1>11
<1>13. /\ Part(s, 2 + ((4 + n1) + n2), 3, hi)
       /\ \A i \in 1 .. 2 : s[i] = q[i]
       /\ \A i \in 2 + 1 .. 2 + ((4 + n1) + n2) : s[i] = e[i - 2]
  BY <1>1, <1>6, <1>11, Joined DEF s
<1>14. s[7] = C("make", "dev", 0) /\ \A i \in 1 .. 4 : s[2 + i] = a[i]
  BY <1>1, <1>12, <1>13
<1>15. \A i \in 1 .. 6 : ~Weighs(s[i])
  <2>1. \A i \in 1 .. 2 : ~Weighs(q[i])
    BY <1>6 DEF Part, Good, Boots, Rising
  <2>2. \A i \in 1 .. 4 : ~Weighs(a[i])
    BY <1>7 DEF Part, Good, Boots, Rising
  <2>3. ASSUME NEW i \in 1 .. 6, i > 2 PROVE ~Weighs(s[i])
    <3>1. i - 2 \in 1 .. 4 /\ 2 + (i - 2) = i
      BY <2>3
    <3> QED BY <1>14, <2>2, <3>1
  <2> QED BY <1>13, <2>1, <2>3
<1>16. 2 + ((4 + n1) + n2) = 6 + 6 * vis
  BY <1>1
<1>17. \E i \in 1 .. 2 + ((4 + n1) + n2) : s[i] = C("make", "ispRun", 0)
  <2>1. e[6 + n1] = ci[2]
    <3>1. 6 + n1 \in (4 + n1) + 1 .. (4 + n1) + n2 /\ (6 + n1) - (4 + n1) = 2
      BY <1>1
    <3> QED BY <1>11, <3>1
  <2>2. s[8 + n1] = e[6 + n1]
    <3>1. 8 + n1 \in 2 + 1 .. 2 + ((4 + n1) + n2) /\ (8 + n1) - 2 = 6 + n1
      BY <1>1
    <3> QED BY <1>13, <3>1
  <2>3. 8 + n1 \in 1 .. 2 + ((4 + n1) + n2)
    BY <1>1
  <2> QED BY <1>4, <2>1, <2>2, <2>3
<1> QED BY <1>8, <1>13, <1>14, <1>15, <1>16, <1>17 DEF Part, hi

\* The first two blocks of a list of equal blocks.
LEMMA FirstBlocks ==
  ASSUME NEW n \in Nat \ {0}, NEW j \in 1 .. n
  PROVE  /\ (j - 1) \div n = 0 /\ (j - 1) % n = j - 1
         /\ (n + j - 1) \div n = 1 /\ (n + j - 1) % n = j - 1
<1>1. j - 1 \in 0 .. n - 1
  OBVIOUS
<1>2. (j - 1) \div n = 0
  <2>1. j - 1 < n * 1 /\ j - 1 \in Nat
    BY <1>1
  <2>2. (j - 1) \div n < 1 /\ (j - 1) \div n \in Nat
    BY <2>1, DivLess, DivBounds
  <2> QED BY <2>2
<1>3. (j - 1) % n = j - 1
  BY <1>1
<1> DEFINE q == (n + j - 1) \div n
<1>4. q = 1
  <2>1. n + j - 1 < n * 2 /\ n + j - 1 \in Nat
    BY <1>1
  <2>2. q < 2 /\ q \in Nat /\ n + j - 1 < n * q + n
    BY <2>1, DivLess, DivBounds
  <2> HIDE DEF q
  <2>3. q # 0
    <3>1. q = 0 => n * q = 0
      OBVIOUS
    <3> QED BY <1>1, <2>2, <3>1
  <2> QED BY <2>2, <2>3
<1>5. (n + j - 1) % n = j - 1
  <2>1. n + j - 1 = n * q + ((n + j - 1) % n)
    BY <1>1
  <2> QED BY <1>1, <1>4, <2>1
<1> QED BY <1>2, <1>3, <1>4, <1>5

\* Any block.
LEMMA AnyBlock ==
  ASSUME NEW n \in Nat \ {0}, NEW k \in Nat, NEW j \in 1 .. k * n
  PROVE  (j - 1) \div n \in 0 .. k - 1 /\ ((j - 1) % n) + 1 \in 1 .. n
<1>1. n * k = k * n /\ k * n \in Nat
  OBVIOUS
<1>2. j - 1 < n * k /\ j - 1 \in Nat
  BY <1>1
<1>3. (j - 1) \div n < k /\ (j - 1) \div n \in Nat
  BY <1>2, DivLess, DivBounds
<1>4. (j - 1) % n \in 0 .. n - 1
  BY <1>2
<1> QED BY <1>3, <1>4

\* All VI objects: the first is as it is with one of them, the second begins the same.
LEMMA ViConstructorIs ==
  ASSUME Configured
  PROVE  /\ Boots(ViConstructor) /\ ViConstructor \in Seq(CallSet)
         /\ Len(ViConstructor) \in Nat
         /\ vis = 1 => Len(ViConstructor) = 6 + 6 * vis
         /\ vis > 1 => Len(ViConstructor) >= 2 * (6 + 6 * vis)
         /\ \A j \in 1 .. 6 + 6 * vis : ViConstructor[j] = ViInit(0)[j]
         /\ vis > 1 => \A j \in 1 .. 6 + 6 * vis : ViConstructor[6 + 6 * vis + j] = ViInit(1)[j]
<1> DEFINE n == 6 + 6 * vis
           s == ViConstructor
<1>1. vis \in Nat \ {0} /\ n \in Nat \ {0}
  BY CaptureAssumption DEF Configured
<1>2. Len(ViInit(0)) = n /\ \A v \in Int : ViInit(v) \in Seq(CallSet) /\ Len(ViInit(v)) = n /\ Boots(ViInit(v))
  BY ViInitGood DEF Good
<1> HIDE DEF n
<1>3. s = [j \in 1 .. vis * n |-> ViInit((j - 1) \div n)[((j - 1) % n) + 1]]
  BY <1>1, <1>2 DEF ViConstructor, Each
<1>4. ASSUME NEW j \in 1 .. vis * n
      PROVE  s[j] \in CallSet /\ OfBoot(s[j])
  <2> DEFINE q == (j - 1) \div n
             r == ((j - 1) % n) + 1
  <2>1. q \in 0 .. vis - 1 /\ r \in 1 .. n
    BY <1>1, AnyBlock
  <2>2. s[j] = ViInit(q)[r]
    BY <1>3
  <2> HIDE DEF q, r
  <2>3. ViInit(q) \in Seq(CallSet) /\ Len(ViInit(q)) = n /\ Boots(ViInit(q))
    BY <1>1, <1>2, <2>1
  <2> DEFINE w == ViInit(q)
  <2> HIDE DEF w
  <2>4. w \in Seq(CallSet) /\ Len(w) = n /\ Boots(w) /\ s[j] = w[r]
    BY <2>2, <2>3 DEF w
  <2>5. r \in DOMAIN w
    BY <2>1, <2>4
  <2> QED BY <2>1, <2>4, <2>5 DEF Boots
<1> DEFINE len == vis * n
<1>5. len \in Nat /\ (vis = 1 => len = n) /\ (vis > 1 => len >= 2 * n) /\ len >= n
  <2>1. 1 * n <= vis * n /\ (vis > 1 => 2 * n <= vis * n)
    BY <1>1, TimesLeft
  <2> QED BY <1>1, <2>1
<1>6. s = [j \in 1 .. len |-> ViInit((j - 1) \div n)[((j - 1) % n) + 1]] /\ \A j \in 1 .. len : s[j] \in CallSet
  BY <1>3, <1>4
<1>7. \A j \in 1 .. len : OfBoot(s[j])
  BY <1>4
<1> HIDE DEF len, s
<1>8. s \in Seq(CallSet) /\ Len(s) = len /\ DOMAIN s = 1 .. len
  BY <1>5, <1>6
<1>9. Boots(s)
  BY <1>7, <1>8 DEF Boots
<1>10. ASSUME NEW j \in 1 .. n PROVE s[j] = ViInit(0)[j]
  <2>1. j \in 1 .. len
    BY <1>1, <1>5
  <2>2. (j - 1) \div n = 0 /\ (j - 1) % n = j - 1
    BY <1>1, FirstBlocks
  <2>3. s[j] = ViInit((j - 1) \div n)[((j - 1) % n) + 1]
    BY <1>6, <2>1
  <2>4. (j - 1) + 1 = j
    BY <1>1
  <2> QED BY <2>2, <2>3, <2>4
<1>11. ASSUME NEW j \in 1 .. n, vis > 1 PROVE s[n + j] = ViInit(1)[j]
  <2> DEFINE k == n + j
  <2>1. k \in 1 .. len /\ k - 1 = n + j - 1 /\ (j - 1) + 1 = j
    BY <1>1, <1>5, <1>11
  <2>2. (k - 1) \div n = 1 /\ (k - 1) % n = j - 1
    BY <1>1, <2>1, FirstBlocks
  <2> HIDE DEF k
  <2>3. s[k] = ViInit((k - 1) \div n)[((k - 1) % n) + 1]
    BY <1>6, <2>1
  <2>4. s[k] = ViInit(1)[j]
    BY <2>1, <2>2, <2>3
  <2> QED BY <2>4 DEF k
<1> QED BY <1>5, <1>8, <1>9, <1>10, <1>11 DEF n, s

\* A function on 1 .. n is a list of n.
LEMMA ListIs ==
  ASSUME NEW S, NEW n \in Nat, NEW f, DOMAIN f = 1 .. n, f = [j \in DOMAIN f |-> f[j]], \A j \in 1 .. n : f[j] \in S
  PROVE  f \in Seq(S) /\ Len(f) = n
<1>1. f \in [1 .. n -> S]
  OBVIOUS
<1> QED BY <1>1

\* A list makes things in order when every two calls of it do.
LEMMA RisingIs ==
  ASSUME NEW s, NEW lo, NEW hi,
         \A i \in DOMAIN s : Weighs(s[i]) => W(s[i].res) \in lo .. hi - 1,
         \A i, k \in DOMAIN s : i < k /\ Weighs(s[i]) /\ Weighs(s[k]) => W(s[i].res) < W(s[k].res)
  PROVE  Rising(s, lo, hi)
BY DEF Rising

\* The pairs that two even places belong to.
LEMMA Halves ==
  ASSUME NEW i \in Int, NEW k \in Int, i < k, i % 2 = 0, k % 2 = 0
  PROVE  (i - 1) \div 2 < (k - 1) \div 2 /\ (i - 1) \div 2 \in Int /\ (k - 1) \div 2 \in Int
<1>1. PICK a \in Int : i = 2 * a
  <2>1. i = 2 * (i \div 2) /\ i \div 2 \in Int
    OBVIOUS
  <2> QED BY <2>1
<1>2. PICK b \in Int : k = 2 * b
  <2>1. k = 2 * (k \div 2) /\ k \div 2 \in Int
    OBVIOUS
  <2> QED BY <2>1
<1> QED BY <1>1, <1>2

\* The channels of the group, each after a call that asks for it.
LEMMA LayersGood ==
  ASSUME Configured, NEW s, s \in Seq(CallSet), NEW n \in Nat, n = 2 * Layers, Len(s) = n,
         \A j \in 1 .. n :
            \/ j % 2 = 1 /\ s[j] = C("param", "param", (j - 1) \div 2)
            \/ j % 2 = 0 /\ s[j] = C("make", "layer", (j - 1) \div 2)
  PROVE  Part(s, n, 4 + 6 * vis, 4 + 6 * vis + Layers)
<1> DEFINE w == 4 + 6 * vis
<1>1. w \in Nat /\ Layers \in Nat
  BY CaptureAssumption DEF Configured
<1>2. ASSUME NEW j \in 1 .. n
      PROVE  /\ s[j].op \in {"make", "param"} /\ (s[j].op = "make" => s[j].res \in Own)
             /\ s[j].op = "param" => s[j].res[1] = "param"
             /\ Weighs(s[j]) => j % 2 = 0 /\ W(s[j].res) = w + ((j - 1) \div 2)
  <2> DEFINE l == (j - 1) \div 2
  <2>1. l \in 0 .. Layers - 1 /\ l \in Int
    BY <1>1
  <2>2. W(<<"layer", l>>) = w + l
    BY DEF W
  <2>3. CASE s[j] = C("param", "param", l)
    <3> HIDE DEF l, w
    <3> QED BY <2>3 DEF C, Weighs
  <2>4. CASE s[j] = C("make", "layer", l) /\ j % 2 = 0
    <3>1. <<"layer", l>> \in Own
      BY <2>1, ResourceKinds DEF Ls
    <3> HIDE DEF l, w
    <3>2. s[j].op = "make" /\ s[j].res = <<"layer", l>>
      BY <2>4 DEF C
    <3> QED BY <2>2, <2>4, <3>1, <3>2 DEF l
  <2> QED BY <2>3, <2>4
<1>3. DOMAIN s = 1 .. n
  OBVIOUS
<1> HIDE DEF w
<1>4. Boots(s)
  BY <1>2, <1>3 DEF Boots, OfBoot
<1>5. ASSUME NEW i \in DOMAIN s, Weighs(s[i]) PROVE W(s[i].res) \in w .. (w + Layers) - 1
  <2>1. (i - 1) \div 2 \in 0 .. Layers - 1
    BY <1>1, <1>3
  <2>2. W(s[i].res) = w + ((i - 1) \div 2)
    BY <1>2, <1>3, <1>5
  <2> QED BY <1>1, <2>1, <2>2
<1>6. ASSUME NEW i \in DOMAIN s, NEW k \in DOMAIN s, i < k, Weighs(s[i]), Weighs(s[k])
      PROVE  W(s[i].res) < W(s[k].res)
  <2>1. W(s[i].res) = w + ((i - 1) \div 2) /\ i % 2 = 0
    BY <1>2, <1>3, <1>6
  <2>2. W(s[k].res) = w + ((k - 1) \div 2) /\ k % 2 = 0
    BY <1>2, <1>3, <1>6
  <2>3. (i - 1) \div 2 < (k - 1) \div 2 /\ (i - 1) \div 2 \in Int /\ (k - 1) \div 2 \in Int
    <3>1. i \in Int /\ k \in Int /\ i < k /\ i % 2 = 0 /\ k % 2 = 0
      BY <1>3, <1>6, <2>1, <2>2
    <3> QED BY <3>1, Halves, Zenon
  <2> QED BY <1>1, <2>1, <2>2, <2>3
<1>7. Rising(s, w, w + Layers)
  <2>1. \A i \in DOMAIN s : Weighs(s[i]) => W(s[i].res) \in w .. (w + Layers) - 1
    BY <1>5
  <2>2. \A i, k \in DOMAIN s : i < k /\ Weighs(s[i]) /\ Weighs(s[k]) => W(s[i].res) < W(s[k].res)
    BY <1>6
  <2> QED BY <2>1, <2>2, RisingIs, Zenon
<1> QED BY <1>4, <1>7 DEF Part, Good, w

\* The group, its channels and the binding to the VI.
LEMMA VpssInitGood ==
  ASSUME Configured
  PROVE  Part(VpssInit, 4 + 2 * Layers, 3 + 6 * vis, 6 + 6 * vis + Layers)
<1> DEFINE w == 3 + 6 * vis
           n == 2 * Layers
           p == Ask(0)
           g == Make("grp", 0)
           ls == [j \in 1 .. Layers * 2 |->
                    IF j % 2 = 1 THEN C("param", "param", (j - 1) \div 2) ELSE C("make", "layer", (j - 1) \div 2)]
           st == Make("started", 0)
           vb == Make("viBind", 0)
<1>1. w \in Nat /\ Layers \in Nat /\ n \in Nat
  BY CaptureAssumption DEF Configured
<1>2. VpssInit = Then(Then(p, Then(Then(g, ls), st)), vb)
  <2> DEFINE layer(c) == Ask(c) \o Make("layer", c)
  <2>1. ASSUME NEW c \in Int
        PROVE  Len(layer(c)) = 2 /\ layer(c)[1] = C("param", "param", c) /\ layer(c)[2] = C("make", "layer", c)
    <3> DEFINE a == Ask(c)
               b == Make("layer", c)
    <3>1. /\ a \in Seq(CallSet) /\ Len(a) = 1 /\ a[1] = C("param", "param", c)
          /\ b \in Seq(CallSet) /\ Len(b) = 1 /\ b[1] = C("make", "layer", c)
      BY OneCall DEF Make, Ask, Mark, Ops, Names
    <3>2. layer(c) = Then(a, b)
      BY DEF Then
    <3> HIDE DEF a, b, layer
    <3>3. Len(Then(a, b)) = 2 /\ Then(a, b)[1] = a[1] /\ Then(a, b)[2] = b[1]
      BY <3>1, ThenTwo
    <3> QED BY <3>1, <3>2, <3>3
  <2>2. Each(Layers, layer) = ls
    <3>1. Len(layer(0)) = 2
      BY <2>1
    <3> HIDE DEF layer
    <3>2. CASE Layers = 0
      <4>1. Each(Layers, layer) = <<>>
        BY <3>2 DEF Each
      <4>2. ls = <<>>
        BY <3>2
      <4> QED BY <4>1, <4>2
    <3>3. CASE Layers # 0
      <4>1. Each(Layers, layer) = [j \in 1 .. Layers * 2 |-> layer((j - 1) \div 2)[((j - 1) % 2) + 1]]
        BY <3>1, <3>3 DEF Each
      <4>2. ASSUME NEW j \in 1 .. Layers * 2
            PROVE  layer((j - 1) \div 2)[((j - 1) % 2) + 1]
                     = IF j % 2 = 1 THEN C("param", "param", (j - 1) \div 2) ELSE C("make", "layer", (j - 1) \div 2)
        <5> DEFINE l == (j - 1) \div 2
        <5>1. l \in Int /\ ((j % 2 = 1 /\ ((j - 1) % 2) + 1 = 1) \/ (j % 2 = 0 /\ ((j - 1) % 2) + 1 = 2))
          BY <1>1
        <5> HIDE DEF l
        <5>2. layer(l)[((j - 1) % 2) + 1] = IF j % 2 = 1 THEN C("param", "param", l) ELSE C("make", "layer", l)
          BY <2>1, <5>1
        <5> QED BY <5>2 DEF l
      <4> QED BY <4>1, <4>2
    <3> QED BY <3>2, <3>3
  <2>3. VpssStart = g \o Each(Layers, layer) \o st
    BY DEF VpssStart
  <2> QED BY <2>2, <2>3 DEF VpssInit, BindVpss, Then
<1>3. Part(p, 1, w, w)
  BY <1>1, AskGood DEF Part
<1>4. Part(g, 1, w, w + 1) /\ Part(st, 1, w + 1 + Layers, w + 2 + Layers) /\ Part(vb, 1, w + 2 + Layers, w + 3 + Layers)
  <2>1. /\ W(<<"grp", 0>>) = w /\ W(<<"started", 0>>) = w + 1 + Layers /\ W(<<"viBind", 0>>) = w + 2 + Layers
    BY <1>1, CaptureAssumption DEF W, Configured
  <2>2. /\ <<"grp", 0>> \in Own /\ <<"started", 0>> \in Own /\ <<"viBind", 0>> \in Own
        /\ {"grp", "started", "viBind"} \subseteq Names
    BY ResourceKinds DEF Names
  <2> DEFINE w1 == w + 1
             w2 == w + 1 + Layers
             w3 == w + 2 + Layers
             w4 == w + 3 + Layers
  <2>3. /\ w \in Int /\ w1 \in Int /\ w2 \in Int /\ w3 \in Int /\ w4 \in Int
        /\ w \in w .. w1 - 1 /\ w2 \in w2 .. w3 - 1 /\ w3 \in w3 .. w4 - 1
        /\ "grp" \in Names /\ "started" \in Names /\ "viBind" \in Names /\ 0 \in Int
    BY <1>1, <2>2
  <2> HIDE DEF w, w1, w2, w3, w4
  <2>4. Good(g, w, w1) /\ g \in Seq(CallSet) /\ Len(g) = 1
    BY <2>1, <2>2, <2>3, MakeGood, Zenon
  <2>5. Good(st, w2, w3) /\ st \in Seq(CallSet) /\ Len(st) = 1
    <3>1. W(<<"started", 0>>) \in w2 .. w3 - 1
      BY <2>1, <2>3 DEF w2
    <3> QED BY <2>2, <2>3, <3>1, MakeGood, Zenon
  <2>6. Good(vb, w3, w4) /\ vb \in Seq(CallSet) /\ Len(vb) = 1
    <3>1. W(<<"viBind", 0>>) \in w3 .. w4 - 1
      BY <2>1, <2>3 DEF w3
    <3> QED BY <2>2, <2>3, <3>1, MakeGood, Zenon
  <2> QED BY <2>4, <2>5, <2>6 DEF Part, w1, w2, w3, w4
<1>5. Part(ls, n, w + 1, w + 1 + Layers)
  <2>1. Layers * 2 = n
    BY <1>1
  <2>2. ASSUME NEW j \in 1 .. n
        PROVE  /\ ls[j] \in CallSet
               /\ \/ j % 2 = 1 /\ ls[j] = C("param", "param", (j - 1) \div 2)
                  \/ j % 2 = 0 /\ ls[j] = C("make", "layer", (j - 1) \div 2)
    <3> DEFINE l == (j - 1) \div 2
    <3>1. l \in Int /\ j % 2 \in 0 .. 1
      BY <1>1
    <3>2. ls[j] = IF j % 2 = 1 THEN C("param", "param", l) ELSE C("make", "layer", l)
      BY <2>1
    <3> HIDE DEF l, ls, n
    <3>3. C("param", "param", l) \in CallSet /\ C("make", "layer", l) \in CallSet
      BY <3>1 DEF C, CallSet, Ops, Names
    <3>4. ls[j] \in CallSet
      BY <3>2, <3>3
    <3> QED BY <3>1, <3>2, <3>4 DEF l
  <2>3. ls \in Seq(CallSet) /\ Len(ls) = n
    <3>1. DOMAIN ls = 1 .. n /\ ls = [j \in DOMAIN ls |-> ls[j]]
      BY <2>1
    <3> HIDE DEF ls, n
    <3> QED BY <1>1, <2>2, <3>1, ListIs, Zenon
  <2>4. 4 + 6 * vis = w + 1 /\ 4 + 6 * vis + Layers = w + 1 + Layers
    BY CaptureAssumption DEF Configured
  <2>5. n = 2 * Layers
    OBVIOUS
  <2> HIDE DEF ls, n, w
  <2>6. Part(ls, n, 4 + 6 * vis, 4 + 6 * vis + Layers)
    BY <1>1, <2>2, <2>3, <2>5, LayersGood
  <2> QED BY <2>4, <2>6
<1> HIDE DEF p, g, ls, st, vb, n
<1> DEFINE a == Then(g, ls)
           b == Then(a, st)
           d == Then(p, b)
           e == Then(d, vb)
<1> HIDE DEF w, a, b, d, e
<1>6. /\ w + 1 \in Int /\ w + 1 + Layers \in Int /\ w + 2 + Layers \in Int /\ w + 3 + Layers \in Int
      /\ w <= w + 1 /\ w + 1 <= w + 1 + Layers /\ w <= w + 1 + Layers /\ w + 1 + Layers <= w + 2 + Layers
      /\ w <= w + 2 + Layers /\ w + 2 + Layers <= w + 3 + Layers
  BY <1>1
<1>7. Part(a, 1 + n, w, w + 1 + Layers) /\ 1 + n \in Nat
  BY <1>1, <1>4, <1>5, <1>6, Joined DEF a
<1>8. Part(b, (1 + n) + 1, w, w + 2 + Layers) /\ (1 + n) + 1 \in Nat
  BY <1>1, <1>4, <1>6, <1>7, Joined DEF b
<1>9. Part(d, 1 + ((1 + n) + 1), w, w + 2 + Layers) /\ 1 + ((1 + n) + 1) \in Nat
  BY <1>1, <1>3, <1>6, <1>8, Joined DEF d
<1>10. Part(e, (1 + ((1 + n) + 1)) + 1, w, w + 3 + Layers)
  BY <1>1, <1>4, <1>6, <1>9, Joined DEF e
<1>11. (1 + ((1 + n) + 1)) + 1 = 4 + n
  BY <1>1
<1>12. 3 + 6 * vis + 3 + Layers = 6 + 6 * vis + Layers
  BY CaptureAssumption DEF Configured
<1> QED BY <1>2, <1>10, <1>11, <1>12 DEF a, b, d, e, w, n

\* The encoders are numbered as their objects, or from one on.
LEMMA Numbering ==
  ASSUME Configured
  PROVE  \E d \in {0, 1} : \A e \in Es : chans[e] = e + d
<1>1. CASE chans = [e \in Es |-> e]
  <2>1. \A e \in Es : chans[e] = e + 0
    BY <1>1 DEF Es
  <2> QED BY <2>1
<1>2. CASE chans = [e \in Es |-> e + 1]
  <2>1. \A e \in Es : chans[e] = e + 1
    BY <1>2
  <2> QED BY <2>1
<1> QED BY <1>1, <1>2 DEF Configured, Numberings

\* The block of four that a place belongs to.
LEMMA Fourths ==
  ASSUME NEW m \in Nat, NEW j \in 1 .. 4 * m
  PROVE  \E e \in 0 .. m - 1 : \E b \in 1 .. 4 :
           j = 4 * e + b /\ (j - 1) \div 4 = e /\ ((j - 1) % 4) + 1 = b
<1> DEFINE e == (j - 1) \div 4
           b == ((j - 1) % 4) + 1
<1>1. e \in 0 .. m - 1 /\ b \in 1 .. 4 /\ j = 4 * e + b
  OBVIOUS
<1> QED BY <1>1

\* One more call.
LEMMA ThenOne ==
  ASSUME NEW a, NEW b, a \in Seq(CallSet), b \in Seq(CallSet), NEW m \in Nat, Len(a) = m, Len(b) = 1
  PROVE  /\ Then(a, b) \in Seq(CallSet) /\ Len(Then(a, b)) = m + 1
         /\ \A i \in 1 .. m : Then(a, b)[i] = a[i]
         /\ Then(a, b)[m + 1] = b[1]
<1>1. a \o b \in Seq(CallSet) /\ Len(a \o b) = m + 1
  <2>1. a \o b \in Seq(CallSet)
    OBVIOUS
  <2>2. Len(a \o b) = Len(a) + Len(b)
    BY Concat
  <2> QED BY <2>1, <2>2
<1>2. ASSUME NEW i \in 1 .. m PROVE (a \o b)[i] = a[i]
  BY Concat
<1>3. (a \o b)[m + 1] = b[1]
  BY Concat
<1> QED BY <1>1, <1>2, <1>3 DEF Then

\* Calls of an encoder.
LEMMA VencInitIs ==
  ASSUME NEW e, NEW n \in Int, chans[e] = n
  PROVE  /\ Len(VencInit(e)) = 4
         /\ VencInit(e)[1] = C("param", "param", n) /\ VencInit(e)[2] = C("make", "enc", n)
         /\ VencInit(e)[3] = C("make", "recv", n) /\ VencInit(e)[4] = C("make", "bind", n)
<1> DEFINE a == Ask(n)
           b == Make("enc", n)
           c == Make("recv", n)
           d == Make("bind", n)
<1>1. /\ a \in Seq(CallSet) /\ Len(a) = 1 /\ a[1] = C("param", "param", n)
      /\ b \in Seq(CallSet) /\ Len(b) = 1 /\ b[1] = C("make", "enc", n)
      /\ c \in Seq(CallSet) /\ Len(c) = 1 /\ c[1] = C("make", "recv", n)
      /\ d \in Seq(CallSet) /\ Len(d) = 1 /\ d[1] = C("make", "bind", n)
  <2>1. "make" \in Ops /\ "param" \in Ops /\ {"param", "enc", "recv", "bind"} \subseteq Names
    BY DEF Ops, Names
  <2>2. a \in Seq(CallSet) /\ Len(a) = 1 /\ a[1] = C("param", "param", n)
    BY <2>1, OneCall DEF Ask, Mark
  <2>3. b \in Seq(CallSet) /\ Len(b) = 1 /\ b[1] = C("make", "enc", n)
    BY <2>1, OneCall DEF Make
  <2>4. c \in Seq(CallSet) /\ Len(c) = 1 /\ c[1] = C("make", "recv", n)
    BY <2>1, OneCall DEF Make
  <2>5. d \in Seq(CallSet) /\ Len(d) = 1 /\ d[1] = C("make", "bind", n)
    BY <2>1, OneCall DEF Make
  <2> HIDE DEF a, b, c, d
  <2> QED BY <2>2, <2>3, <2>4, <2>5
<1>2. VencInit(e) = Then(Then(Then(a, b), c), d)
  BY DEF VencInit, CreateVenc, BindVenc, Then
<1> HIDE DEF a, b, c, d
<1>3. /\ Then(a, b) \in Seq(CallSet) /\ Len(Then(a, b)) = 2
      /\ Then(a, b)[1] = a[1] /\ Then(a, b)[2] = b[1]
  BY <1>1, ThenTwo
<1> DEFINE ab == Then(a, b)
<1> HIDE DEF ab
<1>4. ab \in Seq(CallSet) /\ Len(ab) = 2 /\ ab[1] = a[1] /\ ab[2] = b[1]
  BY <1>3 DEF ab
<1> DEFINE abc == Then(ab, c)
<1>5. /\ abc \in Seq(CallSet) /\ Len(abc) = 2 + 1
      /\ \A i \in 1 .. 2 : abc[i] = ab[i]
      /\ abc[2 + 1] = c[1]
  <2> DEFINE k == 2
  <2>1. k \in Nat /\ ab \in Seq(CallSet) /\ Len(ab) = k /\ c \in Seq(CallSet) /\ Len(c) = 1
    BY <1>1, <1>4
  <2> HIDE DEF k
  <2>2. /\ Then(ab, c) \in Seq(CallSet) /\ Len(Then(ab, c)) = k + 1
        /\ \A i \in 1 .. k : Then(ab, c)[i] = ab[i]
        /\ Then(ab, c)[k + 1] = c[1]
    BY <2>1, ThenOne
  <2> QED BY <2>2 DEF k
<1> HIDE DEF abc
<1>6. abc \in Seq(CallSet) /\ Len(abc) = 3 /\ abc[1] = ab[1] /\ abc[2] = ab[2] /\ abc[3] = c[1]
  BY <1>5
<1> DEFINE abcd == Then(abc, d)
<1>7. /\ Len(abcd) = 3 + 1
      /\ \A i \in 1 .. 3 : abcd[i] = abc[i]
      /\ abcd[3 + 1] = d[1]
  <2> DEFINE k == 3
  <2>1. k \in Nat /\ abc \in Seq(CallSet) /\ Len(abc) = k /\ d \in Seq(CallSet) /\ Len(d) = 1
    BY <1>1, <1>6
  <2> HIDE DEF k
  <2>2. /\ Len(abcd) = k + 1
        /\ \A i \in 1 .. k : abcd[i] = abc[i]
        /\ abcd[k + 1] = d[1]
    BY <2>1, ThenOne
  <2> QED BY <2>2 DEF k
<1> HIDE DEF abcd
<1>8. Len(abcd) = 4 /\ abcd[1] = abc[1] /\ abcd[2] = abc[2] /\ abcd[3] = abc[3] /\ abcd[4] = d[1]
  BY <1>7
<1>9. VencInit(e) = abcd
  BY <1>2 DEF abcd, abc, ab
<1> QED BY <1>1, <1>4, <1>6, <1>8, <1>9

\* All encoders: every one is created, made to receive and bound.
LEMMA VencsGood ==
  ASSUME Configured, NEW s, s = Each(Encoders, VencInit), NEW m \in Nat, m = 4 * Encoders
  PROVE  /\ Part(s, m, 6 + 6 * vis + Layers, 9 + 6 * vis + Layers + 3 * Encoders)
         /\ \A e \in Es : 4 * e + 2 \in 1 .. m /\ s[4 * e + 2] = C("make", "enc", chans[e])
<1> DEFINE w == 6 + 6 * vis + Layers
           hi == 9 + 6 * vis + Layers + 3 * Encoders
<1>1. w \in Nat /\ Encoders \in Nat /\ hi = w + (3 + 3 * Encoders) /\ hi \in Nat
  BY CaptureAssumption DEF Configured
<1>2. PICK d \in {0, 1} : \A e \in Es : chans[e] = e + d
  BY Numbering
<1>3. \A e \in Es : chans[e] \in Int /\ e \in Int
  BY <1>2 DEF Es
<1> DEFINE val(e, b) == IF b = 1 THEN C("param", "param", chans[e])
                        ELSE IF b = 2 THEN C("make", "enc", chans[e])
                        ELSE IF b = 3 THEN C("make", "recv", chans[e]) ELSE C("make", "bind", chans[e])
<1>4. DOMAIN s = 1 .. m /\ s = [j \in DOMAIN s |-> s[j]] /\ \A e \in Es : \A b \in 1 .. 4 : s[4 * e + b] = val(e, b)
  <2>1. CASE Encoders = 0
    <3>1. s = <<>>
      BY <2>1 DEF Each
    <3>2. Es = {} /\ m = 0 /\ 1 .. 0 = {}
      BY <2>1 DEF Es
    <3>3. DOMAIN s = 1 .. m /\ s = [j \in DOMAIN s |-> s[j]]
      BY <3>1, <3>2
    <3> HIDE DEF val
    <3> QED BY <3>2, <3>3
  <2>2. CASE Encoders # 0
    <3>1. 0 \in Es
      BY <1>1, <2>2 DEF Es
    <3>2. Len(VencInit(0)) = 4
      BY <1>3, <3>1, VencInitIs
    <3>3. s = [j \in 1 .. Encoders * 4 |-> VencInit((j - 1) \div 4)[((j - 1) % 4) + 1]]
      BY <2>2, <3>2 DEF Each
    <3>4. Encoders * 4 = m
      BY <1>1
    <3>5. ASSUME NEW e \in Es, NEW b \in 1 .. 4 PROVE s[4 * e + b] = val(e, b)
      <4> DEFINE j == 4 * e + b
      <4>1. j \in 1 .. m /\ (j - 1) \div 4 = e /\ ((j - 1) % 4) + 1 = b
        BY <1>1 DEF Es
      <4> HIDE DEF j
      <4>2. s[j] = VencInit((j - 1) \div 4)[((j - 1) % 4) + 1]
        BY <3>3, <3>4, <4>1
      <4>3. s[j] = VencInit(e)[b]
        BY <4>1, <4>2
      <4>4. VencInit(e)[b] = val(e, b)
        BY <1>3, VencInitIs
      <4> QED BY <4>3, <4>4 DEF j
    <3>6. DOMAIN s = 1 .. m /\ s = [j \in DOMAIN s |-> s[j]]
      BY <3>3, <3>4
    <3> QED BY <3>5, <3>6
  <2> QED BY <2>1, <2>2
<1> HIDE DEF w, hi
<1>5. ASSUME NEW e \in Es, NEW b \in 1 .. 4
      PROVE  /\ val(e, b) \in CallSet /\ val(e, b).op \in {"make", "param"}
             /\ val(e, b).op = "make" => val(e, b).res \in Own
             /\ val(e, b).op = "param" => val(e, b).res[1] = "param"
             /\ Weighs(val(e, b)) => b # 1 /\ W(val(e, b).res) = w + 3 * (e + d) + (b - 2)
  <2>1. e \in 0 .. Encoders - 1 /\ chans[e] = e + d /\ chans[e] \in Int /\ chans[e] \in Numbers
    BY <1>2 DEF Es, Numbers
  <2>2. \A k \in {"enc", "recv", "bind"} : <<k, chans[e]>> \in Own
    BY <2>1, ResourceKinds
  <2>3. /\ W(<<"enc", chans[e]>>) = w + 3 * (e + d) /\ W(<<"recv", chans[e]>>) = w + 3 * (e + d) + 1
        /\ W(<<"bind", chans[e]>>) = w + 3 * (e + d) + 2
    BY <1>1, <2>1, CaptureAssumption DEF W, w, Configured
  <2>4. /\ \A k \in {"enc", "recv", "bind"} :
             /\ C("make", k, chans[e]) \in CallSet /\ C("make", k, chans[e]).op = "make"
             /\ C("make", k, chans[e]).res = <<k, chans[e]>>
        /\ C("param", "param", chans[e]) \in CallSet /\ C("param", "param", chans[e]).op = "param"
        /\ C("param", "param", chans[e]).res[1] = "param"
    BY <2>1 DEF C, CallSet, Ops, Names
  <2>5. b \in {1, 2, 3, 4}
    OBVIOUS
  <2>6. CASE b = 1
    <3>1. val(e, b) = C("param", "param", chans[e])
      BY <2>6
    <3> HIDE DEF val
    <3> QED BY <2>4, <3>1 DEF Weighs
  <2>7. CASE b = 2
    <3>1. val(e, b) = C("make", "enc", chans[e]) /\ b - 2 = 0
      BY <2>7
    <3> HIDE DEF val
    <3>2. w + 3 * (e + d) + (b - 2) = w + 3 * (e + d)
      BY <1>1, <2>1, <3>1
    <3> QED BY <2>2, <2>3, <2>4, <2>7, <3>1, <3>2
  <2>8. CASE b = 3
    <3>1. val(e, b) = C("make", "recv", chans[e]) /\ b - 2 = 1
      BY <2>8
    <3> HIDE DEF val
    <3> QED BY <2>2, <2>3, <2>4, <2>8, <3>1
  <2>9. CASE b = 4
    <3>1. val(e, b) = C("make", "bind", chans[e]) /\ b - 2 = 2
      BY <2>9
    <3> HIDE DEF val
    <3> QED BY <2>2, <2>3, <2>4, <2>9, <3>1
  <2> QED BY <2>5, <2>6, <2>7, <2>8, <2>9
<1>6. \A e \in Es : 4 * e + 2 \in 1 .. m /\ s[4 * e + 2] = C("make", "enc", chans[e])
  BY <1>1, <1>4 DEF Es
<1> HIDE DEF val
<1>7. ASSUME NEW j \in 1 .. m
      PROVE  \E e \in Es : \E b \in 1 .. 4 : j = 4 * e + b /\ s[j] = val(e, b)
  <2>1. PICK e \in 0 .. Encoders - 1, b \in 1 .. 4 : j = 4 * e + b
    BY <1>1, Fourths
  <2>2. e \in Es
    BY <2>1 DEF Es
  <2> QED BY <1>4, <2>1, <2>2
<1>8. \A j \in 1 .. m : s[j] \in CallSet
  BY <1>5, <1>7
<1>9. s \in Seq(CallSet) /\ Len(s) = m
  <2>1. /\ DOMAIN s = 1 .. m /\ s = [j \in DOMAIN s |-> s[j]]
    BY <1>4
  <2> QED BY <1>8, <2>1, ListIs
<1>10. Boots(s)
  BY <1>4, <1>5, <1>7, <1>9 DEF Boots, OfBoot
<1>11. \A i \in DOMAIN s : Weighs(s[i]) => W(s[i].res) \in w .. hi - 1
  <2>1. ASSUME NEW i \in DOMAIN s, Weighs(s[i]) PROVE W(s[i].res) \in w .. hi - 1
    <3>1. PICK e \in Es, b \in 1 .. 4 : i = 4 * e + b /\ s[i] = val(e, b)
      BY <1>4, <1>7, <2>1
    <3>2. b # 1 /\ W(s[i].res) = w + 3 * (e + d) + (b - 2)
      BY <1>5, <2>1, <3>1
    <3>3. e \in 0 .. Encoders - 1
      BY DEF Es
    <3> QED BY <1>1, <3>2, <3>3
  <2> QED BY <2>1
<1>12. \A i, k \in DOMAIN s : i < k /\ Weighs(s[i]) /\ Weighs(s[k]) => W(s[i].res) < W(s[k].res)
  <2>1. ASSUME NEW i \in DOMAIN s, NEW k \in DOMAIN s, i < k, Weighs(s[i]), Weighs(s[k])
        PROVE  W(s[i].res) < W(s[k].res)
    <3>1. PICK e \in Es, b \in 1 .. 4 : i = 4 * e + b /\ s[i] = val(e, b)
      BY <1>4, <1>7, <2>1
    <3>2. PICK f \in Es, c \in 1 .. 4 : k = 4 * f + c /\ s[k] = val(f, c)
      BY <1>4, <1>7, <2>1
    <3>3. b # 1 /\ W(s[i].res) = w + 3 * (e + d) + (b - 2)
      BY <1>5, <2>1, <3>1
    <3>4. c # 1 /\ W(s[k].res) = w + 3 * (f + d) + (c - 2)
      BY <1>5, <2>1, <3>2
    <3>5. e \in Int /\ f \in Int /\ 4 * e + b < 4 * f + c
      BY <1>3, <2>1, <3>1, <3>2
    <3>6. 3 * (e + d) + (b - 2) < 3 * (f + d) + (c - 2)
      BY <3>3, <3>4, <3>5
    <3> QED BY <1>1, <3>3, <3>4, <3>5, <3>6
  <2> QED BY <2>1
<1>13. Rising(s, w, hi)
  BY <1>11, <1>12, RisingIs, Zenon
<1> QED BY <1>6, <1>9, <1>10, <1>13 DEF Part, Good, w, hi

\* How many calls initialise the system, one VI object, and all VI objects twice.
SysCalls == 3 * SysNum
ViCalls == 6 + 6 * vis

\* A clear, and then the pools and the system.
LEMMA SysInitIs ==
  ASSUME NEW v
  PROVE  /\ Len(SysInit(v)) = 3
         /\ SysInit(v)[1] = C("clear", "clear", 0) /\ SysInit(v)[2] = C("make", "vb", 0)
         /\ SysInit(v)[3] = C("make", "sys", 0)
<1> DEFINE a == Mark("clear", 0)
           b == Make("vb", 0)
           c == Make("sys", 0)
<1>1. /\ a \in Seq(CallSet) /\ Len(a) = 1 /\ a[1] = C("clear", "clear", 0)
      /\ b \in Seq(CallSet) /\ Len(b) = 1 /\ b[1] = C("make", "vb", 0)
      /\ c \in Seq(CallSet) /\ Len(c) = 1 /\ c[1] = C("make", "sys", 0)
  <2>1. "make" \in Ops /\ "clear" \in Ops /\ {"clear", "vb", "sys"} \subseteq Names /\ 0 \in Int
    BY DEF Ops, Names
  <2>2. a \in Seq(CallSet) /\ Len(a) = 1 /\ a[1] = C("clear", "clear", 0)
    BY <2>1, OneCall DEF Mark
  <2>3. b \in Seq(CallSet) /\ Len(b) = 1 /\ b[1] = C("make", "vb", 0)
    BY <2>1, OneCall DEF Make
  <2>4. c \in Seq(CallSet) /\ Len(c) = 1 /\ c[1] = C("make", "sys", 0)
    BY <2>1, OneCall DEF Make
  <2> HIDE DEF a, b, c
  <2> QED BY <2>2, <2>3, <2>4
<1>2. SysInit(v) = Then(Then(a, b), c)
  BY DEF SysInit, CommSysInit, CommSysExit, Then
<1> HIDE DEF a, b, c
<1> DEFINE ab == Then(a, b)
<1>3. ab \in Seq(CallSet) /\ Len(ab) = 2 /\ ab[1] = a[1] /\ ab[2] = b[1]
  BY <1>1, ThenTwo
<1> HIDE DEF ab
<1> DEFINE abc == Then(ab, c)
<1>4. /\ abc \in Seq(CallSet) /\ Len(abc) = 2 + 1
      /\ \A i \in 1 .. 2 : abc[i] = ab[i]
      /\ abc[2 + 1] = c[1]
  <2> DEFINE k == 2
  <2>1. k \in Nat /\ ab \in Seq(CallSet) /\ Len(ab) = k /\ c \in Seq(CallSet) /\ Len(c) = 1
    BY <1>1, <1>3
  <2> HIDE DEF k
  <2>2. /\ Then(ab, c) \in Seq(CallSet) /\ Len(Then(ab, c)) = k + 1
        /\ \A i \in 1 .. k : Then(ab, c)[i] = ab[i]
        /\ Then(ab, c)[k + 1] = c[1]
    BY <2>1, ThenOne
  <2> QED BY <2>2 DEF k
<1> HIDE DEF abc
<1>5. Len(abc) = 3 /\ abc[1] = ab[1] /\ abc[2] = ab[2] /\ abc[3] = c[1]
  BY <1>4
<1>6. SysInit(v) = abc
  BY <1>2 DEF abc, ab
<1> QED BY <1>1, <1>3, <1>5, <1>6

\* Every system object releases what is there, and makes the pools and the system.
LEMMA SysConstructorIs ==
  ASSUME NEW s, s = SysConstructor, NEW m \in Nat, m = SysCalls
  PROVE  /\ s \in Seq(CallSet) /\ Len(s) = m /\ m >= 3
         /\ \A i \in 1 .. m : s[i] \in {C("clear", "clear", 0), C("make", "vb", 0), C("make", "sys", 0)}
         /\ s[m - 2] = C("clear", "clear", 0)
         /\ s[m - 1] = C("make", "vb", 0) /\ s[m] = C("make", "sys", 0)
         /\ \A i \in 1 .. m : s[i] = C("make", "vb", 0) => i > 1 /\ s[i - 1] = C("clear", "clear", 0)
         /\ \A i \in 1 .. m : s[i] = C("make", "sys", 0) =>
              i > 2 /\ s[i - 1] = C("make", "vb", 0) /\ s[i - 2] = C("clear", "clear", 0)
<1>1. SysNum \in Nat \ {0} /\ m = 3 * SysNum /\ m >= 3 /\ SysNum * 3 = m
  BY CaptureAssumption DEF SysCalls
<1>2. s = [j \in 1 .. SysNum * 3 |-> SysInit((j - 1) \div 3)[((j - 1) % 3) + 1]]
  <2>1. Len(SysInit(0)) = 3
    BY SysInitIs
  <2> QED BY <1>1, <2>1 DEF SysConstructor, Each
<1>3. ASSUME NEW j \in 1 .. m
      PROVE  s[j] = IF j % 3 = 1 THEN C("clear", "clear", 0)
                    ELSE IF j % 3 = 2 THEN C("make", "vb", 0) ELSE C("make", "sys", 0)
  <2> DEFINE q == (j - 1) \div 3
             b == ((j - 1) % 3) + 1
  <2>1. s[j] = SysInit(q)[b]
    BY <1>1, <1>2
  <2>2. b \in {1, 2, 3} /\ (b = 1 <=> j % 3 = 1) /\ (b = 2 <=> j % 3 = 2)
    OBVIOUS
  <2> HIDE DEF q, b
  <2> QED BY <2>1, <2>2, SysInitIs
<1>4. DOMAIN s = 1 .. m /\ s = [j \in DOMAIN s |-> s[j]]
  BY <1>1, <1>2
<1>5. \A i \in 1 .. m : s[i] \in {C("clear", "clear", 0), C("make", "vb", 0), C("make", "sys", 0)}
  BY <1>3
<1>6. \A i \in 1 .. m : s[i] \in CallSet
  <2>1. {C("clear", "clear", 0), C("make", "vb", 0), C("make", "sys", 0)} \subseteq CallSet
    BY DEF C, CallSet, Ops, Names
  <2> QED BY <1>5, <2>1
<1>7. s \in Seq(CallSet) /\ Len(s) = m
  BY <1>4, <1>6, ListIs
<1>8. /\ m - 2 \in 1 .. m /\ (m - 2) % 3 = 1
      /\ m - 1 \in 1 .. m /\ (m - 1) % 3 = 2
      /\ m \in 1 .. m /\ m % 3 = 0
  BY <1>1
<1>9. s[m - 2] = C("clear", "clear", 0) /\ s[m - 1] = C("make", "vb", 0) /\ s[m] = C("make", "sys", 0)
  BY <1>3, <1>8
<1>10. ASSUME NEW i \in 1 .. m, s[i] = C("make", "vb", 0) PROVE i > 1 /\ s[i - 1] = C("clear", "clear", 0)
  <2>1. i % 3 = 2
    BY <1>3, <1>10 DEF C
  <2>2. i - 1 \in 1 .. m /\ (i - 1) % 3 = 1
    BY <2>1
  <2> QED BY <1>3, <2>2
<1>11. ASSUME NEW i \in 1 .. m, s[i] = C("make", "sys", 0)
       PROVE  i > 2 /\ s[i - 1] = C("make", "vb", 0) /\ s[i - 2] = C("clear", "clear", 0)
  <2>1. i % 3 # 1 /\ i % 3 # 2
    BY <1>3, <1>11 DEF C
  <2>2. i % 3 = 0
    BY <2>1
  <2>3. i - 1 \in 1 .. m /\ (i - 1) % 3 = 2 /\ i - 2 \in 1 .. m /\ (i - 2) % 3 = 1
    BY <2>2
  <2> QED BY <1>3, <2>3
<1> QED BY <1>1, <1>5, <1>7, <1>9, <1>10, <1>11

\* Boot after the system, and before the pump.
BootChain == Then(ViConstructor, Then(VpssInit, Each(Encoders, VencInit)))

\* What boot makes after the system, with one VI object in order; a second one
\* begins as the first did.
LEMMA BootChainIs ==
  ASSUME Configured, NEW q, q = BootChain
  PROVE  /\ q \in Seq(CallSet) /\ Boots(q) /\ Len(q) \in Nat
         /\ vis = 1 => Rising(q, 3, 9 + 6 * vis + Layers + 3 * Encoders)
         /\ vis = 1 => \E i \in 1 .. Len(q) : q[i] = C("make", "ispRun", 0)
         /\ \A e \in Es : \E i \in 1 .. Len(q) : q[i] = C("make", "enc", chans[e])
         /\ vis > 1 => /\ Len(q) >= 2 * ViCalls
                       /\ \A i \in 1 .. ViCalls : q[i] = ViInit(0)[i] /\ q[ViCalls + i] = ViInit(1)[i]
<1> DEFINE a == ViConstructor
           b == VpssInit
           c == Each(Encoders, VencInit)
           na == Len(a)
           nb == 4 + 2 * Layers
           nc == 4 * Encoders
           n == 6 + 6 * vis
           w1 == 3 + 6 * vis
           w2 == 6 + 6 * vis + Layers
           w3 == 9 + 6 * vis + Layers + 3 * Encoders
<1>1. /\ vis \in Nat \ {0} /\ w1 \in Nat /\ w2 \in Nat /\ w3 \in Nat /\ nb \in Nat /\ nc \in Nat /\ n \in Nat /\ n >= 1
      /\ 3 <= w1 /\ w1 <= w2 /\ w2 <= w3 /\ w1 <= w3 /\ 3 \in Int /\ w1 \in Int /\ w2 \in Int /\ w3 \in Int
  BY CaptureAssumption DEF Configured
<1>2. /\ Boots(a) /\ a \in Seq(CallSet) /\ na \in Nat
      /\ vis = 1 => na = n
      /\ vis > 1 => na >= 2 * n
      /\ \A j \in 1 .. n : a[j] = ViInit(0)[j]
      /\ vis > 1 => \A j \in 1 .. n : a[n + j] = ViInit(1)[j]
  BY ViConstructorIs
<1>3. Part(b, nb, w1, w2)
  BY VpssInitGood
<1>4. Part(c, nc, w2, w3) /\ \A e \in Es : \E i \in 1 .. nc : c[i] = C("make", "enc", chans[e])
  <2>1. nc = 4 * Encoders
    OBVIOUS
  <2>2. /\ Part(c, nc, 6 + 6 * vis + Layers, 9 + 6 * vis + Layers + 3 * Encoders)
        /\ \A e \in Es : 4 * e + 2 \in 1 .. nc /\ c[4 * e + 2] = C("make", "enc", chans[e])
    <3> HIDE DEF nc
    <3> QED BY <1>1, <2>1, VencsGood
  <2> QED BY <2>2
<1>5. vis = 1 => Rising(a, 3, w1) /\ \E i \in 1 .. na : a[i] = C("make", "ispRun", 0)
  <2>1. CASE vis = 1
    <3>1. /\ Rising(ViInit(0), 3, w1) /\ ViInit(0) \in Seq(CallSet) /\ Len(ViInit(0)) = n
          /\ \E i \in 1 .. n : ViInit(0)[i] = C("make", "ispRun", 0)
      <4>1. 0 \in Int
        OBVIOUS
      <4> QED BY <4>1, ViInitGood DEF Good
    <3> DEFINE v == ViInit(0)
    <3>2. na = n /\ DOMAIN a = 1 .. n /\ DOMAIN v = 1 .. n /\ \A j \in 1 .. n : a[j] = v[j]
      BY <1>2, <2>1, <3>1
    <3>3. \E i \in 1 .. na : a[i] = C("make", "ispRun", 0)
      BY <3>1, <3>2
    <3>4. Rising(v, 3, w1)
      BY <3>1
    <3> HIDE DEF v, a, n, na, w1
    <3>5. Rising(a, 3, w1)
      BY <3>2, <3>4 DEF Rising
    <3> QED BY <3>3, <3>5
  <2> QED BY <2>1
<1>6. q = Then(a, Then(b, c))
  BY DEF BootChain
<1> HIDE DEF a
<1> HIDE DEF b
<1> HIDE DEF c
<1> HIDE DEF na
<1> HIDE DEF nb
<1> HIDE DEF nc
<1> HIDE DEF w1
<1> HIDE DEF w2
<1> HIDE DEF w3
<1> DEFINE bc == Then(b, c)
<1>7. /\ Part(bc, nb + nc, w1, w3)
      /\ \A i \in nb + 1 .. nb + nc : bc[i] = c[i - nb]
  BY <1>1, <1>3, <1>4, Joined
<1> HIDE DEF bc
<1>8. nb + nc \in Nat /\ bc \in Seq(CallSet) /\ Len(bc) = nb + nc /\ Boots(bc) /\ Rising(bc, w1, w3)
  BY <1>1, <1>7 DEF Part, Good
<1> DEFINE abc == Then(a, bc)
<1>9. Len(a) = na
  BY DEF na
<1>10. /\ abc \in Seq(CallSet) /\ Len(abc) = na + (nb + nc)
       /\ \A i \in 1 .. na : abc[i] = a[i]
       /\ \A i \in na + 1 .. na + (nb + nc) : abc[i] = bc[i - na]
  <2> DEFINE nbc == nb + nc
  <2>1. na \in Nat /\ a \in Seq(CallSet) /\ Len(a) = na
    BY <1>2, <1>9
  <2>2. nbc \in Nat /\ Len(bc) = nbc /\ bc \in Seq(CallSet)
    BY <1>8
  <2> HIDE DEF nbc, bc
  <2>3. IsThen(abc, a, bc, na, nbc)
    BY <2>1, <2>2, ThenIs
  <2> QED BY <2>3 DEF IsThen, nbc
<1>11. Boots(abc)
  BY <1>2, <1>8, BootsConcat DEF Then
<1>12. vis = 1 => Rising(abc, 3, w3)
  <2>1. ASSUME vis = 1 PROVE Rising(abc, 3, w3)
    <3>1. Rising(a, 3, w1)
      BY <1>5, <2>1
    <3> QED BY <1>1, <1>2, <1>8, <3>1, RisingConcat DEF Then
  <2> QED BY <2>1
<1> HIDE DEF abc
<1>13. q = abc
  BY <1>6 DEF abc, bc
<1>14. vis = 1 => \E i \in 1 .. Len(q) : q[i] = C("make", "ispRun", 0)
  <2>1. ASSUME vis = 1 PROVE \E i \in 1 .. Len(q) : q[i] = C("make", "ispRun", 0)
    <3>1. PICK i \in 1 .. na : a[i] = C("make", "ispRun", 0)
      BY <1>5, <2>1
    <3>2. i \in 1 .. na + (nb + nc)
      BY <1>2, <1>8
    <3>3. abc[i] = C("make", "ispRun", 0)
      BY <1>10, <3>1
    <3>4. Len(q) = na + (nb + nc) /\ q[i] = abc[i]
      BY <1>10, <1>13
    <3> QED BY <3>2, <3>3, <3>4
  <2> QED BY <2>1
<1>15. ASSUME NEW e \in Es PROVE \E i \in 1 .. Len(q) : q[i] = C("make", "enc", chans[e])
  <2>1. PICK i \in 1 .. nc : c[i] = C("make", "enc", chans[e])
    BY <1>4
  <2>2. nb + i \in nb + 1 .. nb + nc /\ (nb + i) - nb = i
    BY <1>1
  <2>3. bc[nb + i] = c[i]
    BY <1>7, <2>2
  <2>4. na + (nb + i) \in na + 1 .. na + (nb + nc) /\ (na + (nb + i)) - na = nb + i
        /\ na + (nb + i) \in 1 .. na + (nb + nc)
    BY <1>1, <1>2
  <2>5. abc[na + (nb + i)] = bc[nb + i]
    BY <1>10, <2>4
  <2> QED BY <1>10, <1>13, <2>1, <2>3, <2>4, <2>5
<1>16. vis > 1 => /\ Len(q) >= 2 * n
                  /\ \A i \in 1 .. n : q[i] = ViInit(0)[i] /\ q[n + i] = ViInit(1)[i]
  <2>1. ASSUME vis > 1, NEW i \in 1 .. n PROVE q[i] = ViInit(0)[i] /\ q[n + i] = ViInit(1)[i]
    <3>1. i \in 1 .. na /\ n + i \in 1 .. na
      BY <1>1, <1>2, <2>1
    <3> QED BY <1>2, <1>10, <1>13, <2>1, <3>1
  <2>2. vis > 1 => Len(q) >= 2 * n
    BY <1>1, <1>2, <1>8, <1>10, <1>13
  <2> QED BY <2>1, <2>2
<1>17. vis = 1 => Rising(q, 3, 9 + 6 * vis + Layers + 3 * Encoders)
  BY <1>12, <1>13 DEF w3
<1>18. q \in Seq(CallSet) /\ Boots(q) /\ Len(q) \in Nat
  BY <1>1, <1>2, <1>8, <1>10, <1>11, <1>13
<1> QED BY <1>14, <1>15, <1>16, <1>17, <1>18 DEF ViCalls, n

\* With several VI objects, the call that makes the device of the first VI once more:
\* boot never gets past it.
Second == SysCalls + ViCalls + 7
Reach == IF vis = 1 THEN Len(Constructors) ELSE Second - 1

\* Three lists, one after another.
LEMMA ThenThen ==
  ASSUME NEW x \in Seq(CallSet), NEW y \in Seq(CallSet), NEW z \in Seq(CallSet)
  PROVE  Then(Then(x, y), z) = Then(x, Then(y, z)) /\ Then(x, y) \in Seq(CallSet)
<1>1. (x \o y) \o z = x \o (y \o z)
  OBVIOUS
<1>2. x \o y \in Seq(CallSet)
  BY Concat
<1> QED BY <1>1, <1>2 DEF Then

\* Boot is the system, the chain and the pump.
LEMMA ConstructorsAre ==
  ASSUME Configured
  PROVE  \E q : /\ q = BootChain /\ q \in Seq(CallSet) /\ Len(q) \in Nat
                /\ Constructors \in Seq(CallSet) /\ SysCalls \in Nat
                /\ Len(Constructors) = SysCalls + (Len(q) + 1)
                /\ \A i \in 1 .. SysCalls : Constructors[i] = SysConstructor[i]
                /\ \A i \in 1 .. Len(q) : Constructors[SysCalls + i] = q[i]
                /\ Constructors[Len(Constructors)] = C("pump", "pump", 0)
<1> DEFINE s == SysConstructor
           a == ViConstructor
           b == VpssInit
           c == Each(Encoders, VencInit)
           p == Mark("pump", 0)
           m == SysCalls
           q == Then(a, Then(b, c))
           n == Len(q)
<1>1. m \in Nat /\ s \in Seq(CallSet) /\ Len(s) = m
  <2>1. m \in Nat
    BY CaptureAssumption DEF SysCalls
  <2> HIDE DEF m
  <2>2. m = SysCalls
    BY DEF m
  <2> QED BY <2>1, <2>2, SysConstructorIs
<1>2. a \in Seq(CallSet)
  BY ViConstructorIs
<1>3. b \in Seq(CallSet)
  BY VpssInitGood DEF Part
<1>4. c \in Seq(CallSet)
  <2> DEFINE k == 4 * Encoders
  <2>1. k \in Nat /\ k = 4 * Encoders
    BY CaptureAssumption
  <2> HIDE DEF k
  <2> QED BY <2>1, VencsGood DEF Part
<1>5. p \in Seq(CallSet) /\ Len(p) = 1 /\ p[1] = C("pump", "pump", 0)
  <2>1. "pump" \in Ops /\ "pump" \in Names /\ 0 \in Int
    BY DEF Ops, Names
  <2> QED BY <2>1, OneCall DEF Mark
<1>6. q = BootChain
  BY DEF BootChain
<1>7. q \in Seq(CallSet) /\ n \in Nat
  BY <1>6, BootChainIs
<1>8. Constructors = Then(s, Then(q, p))
  <2>1. Constructors = Then(Then(Then(s, a), b), Then(c, p))
    BY DEF Constructors, VencConstructor, Then
  <2> HIDE DEF s
  <2> HIDE DEF a
  <2> HIDE DEF b
  <2> HIDE DEF c
  <2> HIDE DEF p
  <2> HIDE DEF m
  <2>2. Then(Then(s, a), b) = Then(s, Then(a, b)) /\ Then(a, b) \in Seq(CallSet) /\ Then(c, p) \in Seq(CallSet)
    BY <1>1, <1>2, <1>3, <1>4, <1>5, ThenThen
  <2>3. Then(Then(s, Then(a, b)), Then(c, p)) = Then(s, Then(Then(a, b), Then(c, p)))
    BY <1>1, ThenThen, <2>2
  <2>4. Then(Then(a, b), Then(c, p)) = Then(Then(Then(a, b), c), p)
    BY <1>4, <1>5, ThenThen, <2>2
  <2>5. Then(Then(a, b), c) = Then(a, Then(b, c))
    BY <1>2, <1>3, <1>4, ThenThen
  <2> QED BY <2>1, <2>2, <2>3, <2>4, <2>5
<1> HIDE DEF s
<1> HIDE DEF p
<1> HIDE DEF q
<1>9. /\ Then(q, p) \in Seq(CallSet) /\ Len(Then(q, p)) = n + 1
      /\ \A i \in 1 .. n : Then(q, p)[i] = q[i]
      /\ Then(q, p)[n + 1] = p[1]
  BY <1>5, <1>7, ThenOne
<1> DEFINE qp == Then(q, p)
<1>10. n + 1 \in Nat /\ qp \in Seq(CallSet) /\ Len(qp) = n + 1
  BY <1>7, <1>9
<1> DEFINE r == Then(s, qp)
<1>11. /\ r \in Seq(CallSet) /\ Len(r) = m + (n + 1)
       /\ \A i \in 1 .. m : r[i] = s[i]
       /\ \A i \in m + 1 .. m + (n + 1) : r[i] = qp[i - m]
  <2> DEFINE k == n + 1
  <2>1. k \in Nat /\ Len(qp) = k
    BY <1>10
  <2> HIDE DEF qp, n, m, k
  <2>2. IsThen(r, s, qp, m, k)
    BY <1>1, <1>10, <2>1, ThenIs
  <2> QED BY <2>2 DEF IsThen, k
<1> HIDE DEF r
<1>12. \A i \in 1 .. n : r[m + i] = q[i]
  <2>1. ASSUME NEW i \in 1 .. n PROVE r[m + i] = q[i]
    <3>1. m + i \in m + 1 .. m + (n + 1) /\ (m + i) - m = i
      BY <1>1, <1>7
    <3>2. r[m + i] = qp[i]
      BY <1>11, <3>1
    <3> QED BY <1>9, <3>2
  <2> QED BY <2>1
<1>13. r[Len(r)] = C("pump", "pump", 0)
  <2>1. Len(r) \in m + 1 .. m + (n + 1) /\ Len(r) - m = n + 1
    BY <1>1, <1>7, <1>11
  <2>2. r[Len(r)] = qp[n + 1]
    BY <1>11, <2>1
  <2> QED BY <1>5, <1>9, <2>2
<1>14. Constructors = r
  BY <1>8 DEF r
<1> QED BY <1>1, <1>6, <1>7, <1>11, <1>12, <1>13, <1>14 DEF s

\* Boot: the system, one resource after the other in the order of their weights, the pump.
BootShape(c, m, n) ==
  /\ c \in Seq(CallSet) /\ m < n /\ m >= 3 /\ Reach \in m + 1 .. n
  /\ \A i \in 1 .. m : c[i] \in {C("clear", "clear", 0), C("make", "vb", 0), C("make", "sys", 0)}
  /\ c[m - 2] = C("clear", "clear", 0) /\ c[m - 1] = C("make", "vb", 0) /\ c[m] = C("make", "sys", 0)
  /\ \A i \in 1 .. m : c[i] = C("make", "vb", 0) => i > 1 /\ c[i - 1] = C("clear", "clear", 0)
  /\ \A i \in 1 .. m : c[i] = C("make", "sys", 0) =>
       i > 2 /\ c[i - 1] = C("make", "vb", 0) /\ c[i - 2] = C("clear", "clear", 0)
  /\ \A i \in m + 1 .. n - 1 : OfBoot(c[i])
  /\ c[n] = C("pump", "pump", 0)
  /\ \A i \in m + 1 .. Reach : Weighs(c[i]) => W(c[i].res) \in Nat /\ W(c[i].res) >= 3
  /\ \A i, k \in m + 1 .. Reach : i < k /\ Weighs(c[i]) /\ Weighs(c[k]) => W(c[i].res) < W(c[k].res)
  /\ vis = 1 => \E i \in m + 1 .. n - 1 : c[i] = C("make", "ispRun", 0)
  /\ \A e \in Es : \E i \in m + 1 .. n - 1 : c[i] = C("make", "enc", chans[e])
  /\ vis > 1 => /\ Second \in m + 1 .. n - 1 /\ m + 7 < Second
                /\ c[m + 7] = C("make", "dev", 0) /\ c[Second] = C("make", "dev", 0)

\* The constructors have this shape.
LEMMA BootIs ==
  ASSUME Configured, NEW c, c = Constructors, NEW m \in Nat, m = SysCalls, NEW n \in Nat, n = Len(c)
  PROVE  BootShape(c, m, n)
<1>1. vis \in Nat \ {0} /\ ViCalls = 6 + 6 * vis /\ ViCalls \in Nat /\ ViCalls >= 12
  BY CaptureAssumption DEF Configured, ViCalls
<1>2. PICK q : /\ q = BootChain /\ q \in Seq(CallSet) /\ Len(q) \in Nat
               /\ c \in Seq(CallSet)
               /\ n = m + (Len(q) + 1)
               /\ \A i \in 1 .. m : c[i] = SysConstructor[i]
               /\ \A i \in 1 .. Len(q) : c[m + i] = q[i]
               /\ c[n] = C("pump", "pump", 0)
  BY ConstructorsAre
<1> DEFINE l == Len(q)
<1>3. l \in Nat /\ n = m + (l + 1) /\ \A i \in m + 1 .. n - 1 : i - m \in 1 .. l /\ c[i] = q[i - m]
  BY <1>2
<1>4. /\ Boots(q) /\ DOMAIN q = 1 .. l
      /\ vis = 1 => Rising(q, 3, 9 + 6 * vis + Layers + 3 * Encoders)
      /\ vis = 1 => \E i \in 1 .. l : q[i] = C("make", "ispRun", 0)
      /\ \A e \in Es : \E i \in 1 .. l : q[i] = C("make", "enc", chans[e])
      /\ vis > 1 => /\ l >= 2 * ViCalls
                    /\ \A i \in 1 .. ViCalls : q[i] = ViInit(0)[i] /\ q[ViCalls + i] = ViInit(1)[i]
  BY <1>2, BootChainIs
<1>5. /\ m >= 3
      /\ \A i \in 1 .. m : SysConstructor[i] \in {C("clear", "clear", 0), C("make", "vb", 0), C("make", "sys", 0)}
      /\ SysConstructor[m - 2] = C("clear", "clear", 0)
      /\ SysConstructor[m - 1] = C("make", "vb", 0) /\ SysConstructor[m] = C("make", "sys", 0)
  BY SysConstructorIs
<1> HIDE DEF l
<1>6. /\ \A i \in 1 .. m : c[i] \in {C("clear", "clear", 0), C("make", "vb", 0), C("make", "sys", 0)}
      /\ c[m - 2] = C("clear", "clear", 0) /\ c[m - 1] = C("make", "vb", 0) /\ c[m] = C("make", "sys", 0)
  <2>1. m - 2 \in 1 .. m /\ m - 1 \in 1 .. m /\ m \in 1 .. m
    BY <1>5
  <2> QED BY <1>2, <1>5, <2>1
<1>7. /\ \A i \in 1 .. m : c[i] = C("make", "vb", 0) => i > 1 /\ c[i - 1] = C("clear", "clear", 0)
      /\ \A i \in 1 .. m : c[i] = C("make", "sys", 0) =>
           i > 2 /\ c[i - 1] = C("make", "vb", 0) /\ c[i - 2] = C("clear", "clear", 0)
  <2>1. /\ \A i \in 1 .. m : SysConstructor[i] = C("make", "vb", 0) =>
             i > 1 /\ SysConstructor[i - 1] = C("clear", "clear", 0)
        /\ \A i \in 1 .. m : SysConstructor[i] = C("make", "sys", 0) =>
             i > 2 /\ SysConstructor[i - 1] = C("make", "vb", 0) /\ SysConstructor[i - 2] = C("clear", "clear", 0)
    BY SysConstructorIs
  <2>2. \A i \in 1 .. m : /\ i > 1 => i - 1 \in 1 .. m
                         /\ i > 2 => i - 1 \in 1 .. m /\ i - 2 \in 1 .. m
    OBVIOUS
  <2>3. \A i \in 1 .. m : c[i] = SysConstructor[i]
    BY <1>2
  <2>4. ASSUME NEW i \in 1 .. m, c[i] = C("make", "vb", 0) PROVE i > 1 /\ c[i - 1] = C("clear", "clear", 0)
    BY <2>1, <2>2, <2>3, <2>4
  <2>5. ASSUME NEW i \in 1 .. m, c[i] = C("make", "sys", 0)
        PROVE  i > 2 /\ c[i - 1] = C("make", "vb", 0) /\ c[i - 2] = C("clear", "clear", 0)
    BY <2>1, <2>2, <2>3, <2>5
  <2> QED BY <2>4, <2>5
<1>8. \A i \in m + 1 .. n - 1 : OfBoot(c[i])
  BY <1>3, <1>4 DEF Boots
<1>9. \A i \in 1 .. l : c[m + i] = q[i] /\ m + i \in m + 1 .. n - 1
  BY <1>2, <1>3 DEF l
<1>10. vis = 1 => \E i \in m + 1 .. n - 1 : c[i] = C("make", "ispRun", 0)
  BY <1>4, <1>9
<1>11. \A e \in Es : \E i \in m + 1 .. n - 1 : c[i] = C("make", "enc", chans[e])
  <2>1. ASSUME NEW e \in Es PROVE \E i \in m + 1 .. n - 1 : c[i] = C("make", "enc", chans[e])
    <3>1. PICK i \in 1 .. l : q[i] = C("make", "enc", chans[e])
      BY <1>4
    <3> QED BY <1>9, <3>1
  <2> QED BY <2>1
<1>12. 0 \in Int /\ 1 \in Int
  OBVIOUS
<1>13. vis > 1 => /\ Second \in m + 1 .. n - 1 /\ m + 7 < Second /\ Second = m + (ViCalls + 7)
                  /\ c[m + 7] = C("make", "dev", 0) /\ c[Second] = C("make", "dev", 0)
  <2> SUFFICES ASSUME vis > 1
               PROVE  /\ Second \in m + 1 .. n - 1 /\ m + 7 < Second /\ Second = m + (ViCalls + 7)
                      /\ c[m + 7] = C("make", "dev", 0) /\ c[Second] = C("make", "dev", 0)
    OBVIOUS
  <2>1. Second = m + (ViCalls + 7) /\ 7 \in 1 .. ViCalls /\ 7 \in 1 .. l /\ ViCalls + 7 \in 1 .. l /\ l >= 2 * ViCalls
    BY <1>1, <1>3, <1>4 DEF Second
  <2>2. c[m + 7] = ViInit(0)[7] /\ c[Second] = ViInit(1)[7]
    <3>1. c[m + 7] = q[7] /\ c[m + (ViCalls + 7)] = q[ViCalls + 7]
      BY <1>9, <2>1
    <3> QED BY <1>4, <2>1, <3>1
  <2>3. ViInit(0)[7] = C("make", "dev", 0) /\ ViInit(1)[7] = C("make", "dev", 0)
    BY <1>12, ViInitGood
  <2> QED BY <1>1, <1>3, <2>1, <2>2, <2>3
<1>14. Reach \in m + 1 .. n
  BY <1>1, <1>3, <1>13 DEF Reach
<1> DEFINE ok == /\ \A i \in m + 1 .. Reach : Weighs(c[i]) => W(c[i].res) \in Nat /\ W(c[i].res) >= 3
                 /\ \A i, k \in m + 1 .. Reach : i < k /\ Weighs(c[i]) /\ Weighs(c[k]) => W(c[i].res) < W(c[k].res)
<1>15. ASSUME vis = 1 PROVE ok
  <2>1. ~Weighs(c[n])
    BY <1>2 DEF Weighs, C
  <2>2. Rising(q, 3, 9 + 6 * vis + Layers + 3 * Encoders) /\ Reach = n
    BY <1>4, <1>15 DEF Reach
  <2>3. \A i \in m + 1 .. n : Weighs(c[i]) => i \in m + 1 .. n - 1 /\ i - m \in 1 .. l /\ c[i] = q[i - m]
    BY <1>3, <2>1
  <2>4. \A i \in 1 .. l : Weighs(q[i]) => W(q[i].res) \in Nat /\ W(q[i].res) >= 3
    <3>1. 9 + 6 * vis + Layers + 3 * Encoders \in Nat
      BY <1>1, CaptureAssumption
    <3> QED BY <1>4, <2>2, <3>1 DEF Rising
  <2>5. \A i, k \in 1 .. l : i < k /\ Weighs(q[i]) /\ Weighs(q[k]) => W(q[i].res) < W(q[k].res)
    BY <1>4, <2>2 DEF Rising
  <2>6. \A i \in m + 1 .. n : Weighs(c[i]) => W(c[i].res) \in Nat /\ W(c[i].res) >= 3
    BY <2>3, <2>4
  <2>7. ASSUME NEW i \in m + 1 .. n, NEW k \in m + 1 .. n, i < k, Weighs(c[i]), Weighs(c[k])
        PROVE  W(c[i].res) < W(c[k].res)
    <3>1. i - m \in 1 .. l /\ k - m \in 1 .. l /\ c[i] = q[i - m] /\ c[k] = q[k - m] /\ i - m < k - m
      BY <2>3, <2>7
    <3> QED BY <2>5, <2>7, <3>1
  <2> QED BY <2>2, <2>6, <2>7
<1>16. ASSUME vis > 1 PROVE ok
  <2> DEFINE u == ViInit(0)
             v == ViInit(1)
             w == ViCalls
             hi == 3 + 6 * vis
  <2>1. /\ Rising(u, 3, hi) /\ DOMAIN u = 1 .. w /\ hi \in Nat
        /\ \A i \in 1 .. 6 : ~Weighs(v[i])
    BY <1>1, <1>12, ViInitGood DEF Good
  <2>2. Reach = m + (w + 6) /\ l >= 2 * w /\ w >= 12 /\ w \in Nat
    BY <1>1, <1>4, <1>13, <1>16 DEF Reach
  <2>3. \A i \in 1 .. w : q[i] = u[i] /\ q[w + i] = v[i]
    BY <1>4, <1>16
  <2> HIDE DEF u, v, w, hi
  <2>4. \A i \in m + 1 .. m + (w + 6) : Weighs(c[i]) => i - m \in 1 .. w /\ c[i] = u[i - m]
    <3>1. ASSUME NEW i \in m + 1 .. m + (w + 6), Weighs(c[i]) PROVE i - m \in 1 .. w /\ c[i] = u[i - m]
      <4>1. i - m \in 1 .. w + 6 /\ i \in m + 1 .. n - 1
        BY <1>3, <2>2
      <4>2. c[i] = q[i - m]
        BY <1>3, <4>1
      <4>3. CASE i - m \in 1 .. w
        BY <2>3, <4>2, <4>3
      <4>4. CASE i - m \in w + 1 .. w + 6
        <5>1. (i - m) - w \in 1 .. 6 /\ (i - m) - w \in 1 .. w /\ w + ((i - m) - w) = i - m
          BY <2>2, <4>4
        <5>2. q[i - m] = v[(i - m) - w]
          BY <2>3, <5>1
        <5> QED BY <2>1, <3>1, <4>2, <5>1, <5>2
      <4> QED BY <2>2, <4>1, <4>3, <4>4
    <3> QED BY <3>1
  <2>5. \A i \in m + 1 .. m + (w + 6) : Weighs(c[i]) => W(c[i].res) \in Nat /\ W(c[i].res) >= 3
    <3>1. \A i \in 1 .. w : Weighs(u[i]) => W(u[i].res) \in 3 .. hi - 1
      BY <2>1 DEF Rising
    <3> QED BY <2>1, <2>4, <3>1
  <2>6. ASSUME NEW i \in m + 1 .. m + (w + 6), NEW k \in m + 1 .. m + (w + 6), i < k, Weighs(c[i]), Weighs(c[k])
        PROVE  W(c[i].res) < W(c[k].res)
    <3>1. i - m \in 1 .. w /\ k - m \in 1 .. w /\ c[i] = u[i - m] /\ c[k] = u[k - m] /\ i - m < k - m
      BY <2>4, <2>6
    <3> QED BY <2>1, <2>6, <3>1 DEF Rising
  <2> QED BY <2>2, <2>5, <2>6
<1>17. ok
  BY <1>1, <1>15, <1>16
<1> HIDE DEF ok
<1> QED BY <1>2, <1>3, <1>5, <1>6, <1>7, <1>8, <1>10, <1>11, <1>13, <1>14, <1>17 DEF ok, BootShape
-----------------------------------------------------------------------------
(***************************************************************************)
(* Exit and undoing                                                        *)
(***************************************************************************)
\* Calls that stop something: a stop function leaves out only its own, and
\* what stands on a resource is removed before it is.
Removes(c, r) ==
  \/ c.op = "drop" /\ c.res = r
  \/ c.op = "stop" /\ r \in {<<"isp", c.res[2]>>, <<"ispRun", c.res[2]>>}
Skips(s) ==
  \A i \in DOMAIN s : s[i].op = "drop" =>
    /\ s[i].skip \in Nat /\ i + s[i].skip <= Len(s)
    /\ \A k \in i .. i + s[i].skip : s[k].op = "drop"
Orderly(s, standing) ==
  \A i \in DOMAIN s : s[i].op = "drop" =>
    \A r \in standing : s[i].res \in Needs(r) => \E j \in 1 .. i - 1 : Removes(s[j], r)
Stops(s, ops, standing) ==
  /\ s \in Seq(CallSet)
  /\ \A i \in DOMAIN s : s[i].op \in ops /\ (s[i].op = "drop" => s[i].res \in Resources \ InProcess)
  /\ Skips(s) /\ Orderly(s, standing)

\* One list that stops things after another, which takes away the rest.
LEMMA StopsThen ==
  ASSUME NEW a, NEW b, NEW ops, NEW x, NEW y, Stops(a, ops, x), Stops(b, ops, y),
         \A r \in x \ y : \E j \in DOMAIN a : Removes(a[j], r)
  PROVE  Stops(Then(a, b), ops, x)
<1> DEFINE s == Then(a, b)
           m == Len(a)
           n == Len(b)
<1>1. /\ a \in Seq(CallSet) /\ b \in Seq(CallSet) /\ m \in Nat /\ n \in Nat /\ DOMAIN a = 1 .. m /\ DOMAIN b = 1 .. n
      /\ s \in Seq(CallSet) /\ Len(s) = m + n /\ DOMAIN s = 1 .. m + n
      /\ \A i \in 1 .. m : s[i] = a[i]
      /\ \A i \in m + 1 .. m + n : s[i] = b[i - m] /\ i - m \in 1 .. n
  <2>1. a \in Seq(CallSet) /\ b \in Seq(CallSet)
    BY DEF Stops
  <2>2. m \in Nat /\ n \in Nat
    BY <2>1
  <2>3. Len(a) = m /\ Len(b) = n
    OBVIOUS
  <2> HIDE DEF m, n
  <2>4. \A i \in m + 1 .. m + n : i - m \in 1 .. n
    BY <2>2
  <2>5. IsThen(s, a, b, m, n)
    BY <2>1, <2>2, <2>3, ThenIs
  <2> QED BY <2>1, <2>2, <2>4, <2>5 DEF IsThen
<1>2. /\ \A i \in 1 .. m : a[i].op \in ops /\ (a[i].op = "drop" => a[i].res \in Resources \ InProcess)
      /\ \A i \in 1 .. n : b[i].op \in ops /\ (b[i].op = "drop" => b[i].res \in Resources \ InProcess)
      /\ \A i \in 1 .. m : a[i].op = "drop" =>
           /\ a[i].skip \in Nat /\ i + a[i].skip <= m
           /\ \A k \in i .. i + a[i].skip : a[k].op = "drop"
      /\ \A i \in 1 .. n : b[i].op = "drop" =>
           /\ b[i].skip \in Nat /\ i + b[i].skip <= n
           /\ \A k \in i .. i + b[i].skip : b[k].op = "drop"
      /\ \A i \in 1 .. m : a[i].op = "drop" =>
           \A r \in x : a[i].res \in Needs(r) => \E j \in 1 .. i - 1 : Removes(a[j], r)
      /\ \A i \in 1 .. n : b[i].op = "drop" =>
           \A r \in y : b[i].res \in Needs(r) => \E j \in 1 .. i - 1 : Removes(b[j], r)
  BY <1>1 DEF Stops, Skips, Orderly
<1> HIDE DEF s, m, n
<1>3. \A i \in DOMAIN s : s[i].op \in ops /\ (s[i].op = "drop" => s[i].res \in Resources \ InProcess)
  <2>1. ASSUME NEW i \in DOMAIN s PROVE s[i].op \in ops /\ (s[i].op = "drop" => s[i].res \in Resources \ InProcess)
    <3>1. i \in 1 .. m \/ i \in m + 1 .. m + n
      BY <1>1
    <3> QED BY <1>1, <1>2, <3>1
  <2> QED BY <2>1
<1>4. ASSUME NEW i \in DOMAIN s, s[i].op = "drop"
      PROVE  /\ s[i].skip \in Nat /\ i + s[i].skip <= m + n
             /\ \A k \in i .. i + s[i].skip : s[k].op = "drop"
  <2>1. CASE i \in 1 .. m
    <3>1. s[i] = a[i] /\ a[i].skip \in Nat /\ i + a[i].skip <= m /\ \A k \in i .. i + a[i].skip : a[k].op = "drop"
      BY <1>1, <1>2, <1>4, <2>1
    <3>2. \A k \in i .. i + a[i].skip : k \in 1 .. m
      BY <1>1, <2>1, <3>1
    <3> QED BY <1>1, <3>1, <3>2
  <2>2. CASE i \in m + 1 .. m + n
    <3> DEFINE h == i - m
               t == b[h].skip
    <3>1. h \in 1 .. n /\ s[i] = b[h] /\ b[h].op = "drop"
      BY <1>1, <1>4, <2>2
    <3>2. t \in Nat /\ h + t <= n /\ \A k \in h .. h + t : b[k].op = "drop"
      BY <1>2, <3>1
    <3>3. s[i].skip = t
      BY <3>1
    <3> HIDE DEF t
    <3>4. \A k \in i .. i + t : k \in m + 1 .. m + n /\ k - m \in h .. h + t
      BY <1>1, <2>2, <3>1, <3>2
    <3>5. \A k \in i .. i + t : s[k].op = "drop"
      BY <1>1, <3>2, <3>4
    <3>6. i + t <= m + n
      BY <1>1, <2>2, <3>2
    <3> QED BY <3>2, <3>3, <3>5, <3>6
  <2> QED BY <1>1, <2>1, <2>2
<1>5. ASSUME NEW i \in DOMAIN s, s[i].op = "drop", NEW r \in x, s[i].res \in Needs(r)
      PROVE  \E j \in 1 .. i - 1 : Removes(s[j], r)
  <2>1. CASE i \in 1 .. m
    <3>1. PICK j \in 1 .. i - 1 : Removes(a[j], r)
      BY <1>1, <1>2, <1>5, <2>1
    <3>2. j \in 1 .. m
      BY <1>1, <2>1
    <3> QED BY <1>1, <3>1, <3>2
  <2>2. CASE i \in m + 1 .. m + n
    <3>1. i - m \in 1 .. n /\ s[i] = b[i - m]
      BY <1>1, <2>2
    <3>2. CASE r \in y
      <4>1. PICK j \in 1 .. (i - m) - 1 : Removes(b[j], r)
        BY <1>2, <1>5, <3>1, <3>2
      <4>2. m + j \in 1 .. i - 1 /\ m + j \in m + 1 .. m + n /\ (m + j) - m = j
        BY <1>1, <2>2
      <4>3. s[m + j] = b[j]
        BY <1>1, <4>2
      <4> QED BY <4>1, <4>2, <4>3
    <3>3. CASE r \notin y
      <4>1. PICK j \in 1 .. m : Removes(a[j], r)
        BY <1>1, <3>3
      <4>2. j \in 1 .. i - 1
        BY <1>1, <2>2
      <4> QED BY <1>1, <4>1, <4>2
    <3> QED BY <3>2, <3>3
  <2> QED BY <1>1, <2>1, <2>2
<1>6. Skips(s)
  BY <1>1, <1>4 DEF Skips
<1>7. Orderly(s, x)
  BY <1>5 DEF Orderly
<1> QED BY <1>1, <1>3, <1>6, <1>7 DEF Stops, s

\* Less may stand, and more calls be allowed.
LEMMA StopsFewer ==
  ASSUME NEW s, NEW ops, NEW x, NEW more, NEW y, Stops(s, ops, x), ops \subseteq more, y \subseteq x
  PROVE  Stops(s, more, y)
BY DEF Stops, Orderly

\* Functions that stop one, two or no things.
LEMMA StopsNothing == \A ops, x : Stops(<<>>, ops, x)
BY DEF Stops, Skips, Orderly

\* One call that stops what nothing stands on.
LEMMA StopsOne ==
  ASSUME NEW kind \in Names, NEW i \in Int, <<kind, i>> \in Resources \ InProcess, NEW x, NEW ops, "drop" \in ops,
         \A r \in x : <<kind, i>> \notin Needs(r)
  PROVE  /\ Stops(Drop(kind, i), ops, x)
         /\ DOMAIN Drop(kind, i) = 1 .. 1 /\ Removes(Drop(kind, i)[1], <<kind, i>>)
<1> DEFINE s == Drop(kind, i)
<1>1. s \in Seq(CallSet) /\ Len(s) = 1 /\ DOMAIN s = 1 .. 1 /\ s[1] = C("drop", kind, i)
  BY OneCall DEF Drop, Ops
<1>2. C("drop", kind, i).op = "drop" /\ C("drop", kind, i).res = <<kind, i>> /\ C("drop", kind, i).skip = 0
  BY DEF C
<1> HIDE DEF s
<1>3. \A k \in DOMAIN s : k = 1 /\ s[k].op = "drop" /\ s[k].res = <<kind, i>> /\ s[k].skip = 0
  BY <1>1, <1>2
<1>4. Skips(s)
  BY <1>1, <1>3 DEF Skips
<1>5. Orderly(s, x)
  BY <1>3 DEF Orderly
<1> QED BY <1>1, <1>3, <1>4, <1>5 DEF Stops, Removes, s

\* What a configuration has is among all there is.
LEMMA OwnIn ==
  ASSUME Configured
  PROVE  /\ Own \subseteq Resources /\ Numbers \subseteq Es \cup {Encoders} /\ Vs \subseteq 0 .. MaxVis - 1
<1>1. PICK d \in {0, 1} : \A e \in Es : chans[e] = e + d
  BY Numbering
<1>2. Numbers \subseteq Es \cup {Encoders}
  BY <1>1, CaptureAssumption DEF Numbers, Es
<1>3. Vs \subseteq 0 .. MaxVis - 1
  BY CaptureAssumption DEF Vs, Configured
<1>4. ASSUME NEW r \in Own PROVE r \in Resources
  <2>1. CASE r \in {"enc", "recv", "bind"} \X Numbers
    BY <1>2, <2>1 DEF Resources
  <2>2. CASE r \in {"dev", "pipe", "run", "chn", "isp", "ispRun"} \X Vs
    BY <1>3, <2>2 DEF Resources
  <2> QED BY <2>1, <2>2 DEF Own, Resources
<1> QED BY <1>2, <1>3, <1>4

\* What is needed, kind by kind.
LEMMA NeedsAre ==
  ASSUME NEW r \in Resources
  PROVE  /\ r = <<r[1], r[2]>>
         /\ r[1] \in {"vb", "sys", "mipi", "sensor", "grp", "started", "viBind", "dev", "pipe", "run", "chn",
                      "isp", "ispRun", "layer", "enc", "recv", "bind"}
         /\ r[1] \in {"vb", "sys", "mipi", "sensor", "grp", "started", "viBind"} => r[2] = 0
         /\ r[1] \in {"dev", "grp", "enc"} => Needs(r) = {<<"sys", 0>>}
         /\ r[1] = "sys" => Needs(r) = {<<"vb", 0>>}
         /\ r[1] = "pipe" => Needs(r) = {"dev"} \X {r[2]}
         /\ r[1] = "run" => Needs(r) = {"pipe"} \X {r[2]}
         /\ r[1] = "chn" => Needs(r) = {"run"} \X {r[2]}
         /\ r[1] = "isp" => Needs(r) = ({"run"} \X {r[2]}) \cup {<<"sensor", 0>>}
         /\ r[1] = "ispRun" => Needs(r) = {"isp"} \X {r[2]}
         /\ r[1] \in {"layer", "started"} => Needs(r) = {<<"grp", 0>>}
         /\ r[1] = "viBind" => Needs(r) = {<<"grp", 0>>, <<"chn", 0>>}
         /\ r[1] = "recv" => Needs(r) = {"enc"} \X {r[2]}
         /\ r[1] = "bind" => Needs(r) = ({"enc"} \X {r[2]}) \cup {<<"layer", 0>>}
         /\ r[1] \in {"vb", "mipi", "sensor"} => Needs(r) = {}
<1>1. r = <<r[1], r[2]>>
  BY DEF Resources
<1>2. r[1] \in {"vb", "sys", "mipi", "sensor", "grp", "started", "viBind"} => r[2] = 0
  BY DEF Resources
<1>3. r[1] \in {"vb", "sys", "mipi", "sensor", "grp", "started", "viBind", "dev", "pipe", "run", "chn",
                "isp", "ispRun", "layer", "enc", "recv", "bind"}
  BY DEF Resources
<1>4. /\ r[1] \in {"dev", "grp", "enc"} => Needs(r) = {<<"sys", 0>>}
      /\ r[1] = "sys" => Needs(r) = {<<"vb", 0>>}
      /\ r[1] = "pipe" => Needs(r) = {"dev"} \X {r[2]}
      /\ r[1] = "run" => Needs(r) = {"pipe"} \X {r[2]}
      /\ r[1] = "chn" => Needs(r) = {"run"} \X {r[2]}
      /\ r[1] = "isp" => Needs(r) = ({"run"} \X {r[2]}) \cup {<<"sensor", 0>>}
      /\ r[1] = "ispRun" => Needs(r) = {"isp"} \X {r[2]}
      /\ r[1] \in {"layer", "started"} => Needs(r) = {<<"grp", 0>>}
      /\ r[1] = "viBind" => Needs(r) = {<<"grp", 0>>, <<"chn", 0>>}
      /\ r[1] = "recv" => Needs(r) = {"enc"} \X {r[2]}
      /\ r[1] = "bind" => Needs(r) = ({"enc"} \X {r[2]}) \cup {<<"layer", 0>>}
      /\ r[1] \in {"vb", "mipi", "sensor"} => Needs(r) = {}
  BY DEF Needs
<1> QED BY <1>1, <1>2, <1>3, <1>4

\* What stands on a resource.
LEMMA Stands ==
  ASSUME NEW r \in Resources, NEW i \in Int
  PROVE  /\ <<"vb", i>> \in Needs(r) => r = <<"sys", 0>>
         /\ <<"chn", i>> \in Needs(r) => r = <<"viBind", 0>>
         /\ <<"run", i>> \in Needs(r) => r \in {<<"chn", i>>, <<"isp", i>>}
         /\ <<"pipe", i>> \in Needs(r) => r = <<"run", i>>
         /\ <<"dev", i>> \in Needs(r) => r = <<"pipe", i>>
         /\ <<"sensor", i>> \in Needs(r) => r[1] = "isp"
         /\ <<"grp", i>> \in Needs(r) => r[1] \in {"layer", "started", "viBind"}
         /\ <<"layer", i>> \in Needs(r) => r[1] = "bind"
         /\ <<"enc", i>> \in Needs(r) => r \in {<<"recv", i>>, <<"bind", i>>}
         /\ \A k \in {"mipi", "started", "viBind", "recv", "bind"} : <<k, i>> \notin Needs(r)
BY NeedsAre

\* A list takes away a resource.
Takes(s, r) == \E j \in DOMAIN s : Removes(s[j], r)

\* Two lists take away what either takes away.
LEMMA TakesThen ==
  ASSUME NEW a, NEW b, a \in Seq(CallSet), b \in Seq(CallSet), NEW r, Takes(a, r) \/ Takes(b, r)
  PROVE  Takes(Then(a, b), r)
<1> DEFINE s == Then(a, b)
           m == Len(a)
           n == Len(b)
<1>1. m \in Nat /\ n \in Nat /\ Len(a) = m /\ Len(b) = n /\ a \in Seq(CallSet) /\ b \in Seq(CallSet)
  OBVIOUS
<1> HIDE DEF m, n
<1>2. /\ DOMAIN a = 1 .. m /\ DOMAIN b = 1 .. n /\ DOMAIN s = 1 .. m + n
      /\ \A i \in 1 .. m : s[i] = a[i]
      /\ \A i \in m + 1 .. m + n : s[i] = b[i - m]
  <2>1. IsThen(s, a, b, m, n)
    BY <1>1, ThenIs
  <2> QED BY <2>1 DEF IsThen
<1>3. CASE Takes(a, r)
  <2>1. PICK j \in 1 .. m : Removes(a[j], r)
    BY <1>2, <1>3 DEF Takes
  <2>2. j \in 1 .. m + n /\ s[j] = a[j]
    BY <1>1, <1>2
  <2> HIDE DEF s
  <2>3. Takes(s, r)
    BY <1>2, <2>1, <2>2 DEF Takes
  <2> QED BY <2>3 DEF s
<1>4. CASE Takes(b, r)
  <2>1. PICK j \in 1 .. n : Removes(b[j], r)
    BY <1>2, <1>4 DEF Takes
  <2>2. m + j \in m + 1 .. m + n /\ (m + j) - m = j /\ m + j \in 1 .. m + n
    BY <1>1
  <2>3. s[m + j] = b[j]
    BY <1>2, <2>2
  <2> HIDE DEF s
  <2>4. Takes(s, r)
    BY <1>2, <2>1, <2>2, <2>3 DEF Takes
  <2> QED BY <2>4 DEF s
<1> QED BY <1>3, <1>4

\* A list of n calls, and two of them one after the other.
IsList(s, n) == s \in Seq(CallSet) /\ Len(s) = n /\ DOMAIN s = 1 .. n

\* Two lists, one after the other, place by place.
LEMMA ListThen ==
  ASSUME NEW a, NEW b, NEW m \in Nat, NEW n \in Nat, IsList(a, m), IsList(b, n)
  PROVE  /\ IsList(Then(a, b), m + n)
         /\ \A i \in 1 .. m : Then(a, b)[i] = a[i]
         /\ \A i \in 1 .. n : Then(a, b)[m + i] = b[i]
<1> DEFINE s == Then(a, b)
<1>1. a \in Seq(CallSet) /\ b \in Seq(CallSet) /\ Len(a) = m /\ Len(b) = n
  BY DEF IsList
<1>2. /\ s \in Seq(CallSet) /\ Len(s) = m + n /\ DOMAIN s = 1 .. m + n
      /\ \A i \in 1 .. m : s[i] = a[i]
      /\ \A i \in m + 1 .. m + n : s[i] = b[i - m]
  <2>1. IsThen(s, a, b, m, n)
    BY <1>1, ThenIs
  <2> QED BY <2>1 DEF IsThen
<1> HIDE DEF s
<1>3. \A i \in 1 .. n : s[m + i] = b[i]
  <2>1. ASSUME NEW i \in 1 .. n PROVE s[m + i] = b[i]
    <3>1. m + i \in m + 1 .. m + n /\ (m + i) - m = i
      OBVIOUS
    <3> QED BY <1>2, <3>1
  <2> QED BY <2>1
<1>4. IsList(s, m + n)
  BY <1>2 DEF IsList
<1> QED BY <1>2, <1>3, <1>4 DEF s

\* A function on 1 .. n whose values are calls is a list of n calls.
LEMMA ListOf ==
  ASSUME NEW s, NEW n \in Nat, DOMAIN s = 1 .. n, s = [j \in DOMAIN s |-> s[j]], \A j \in 1 .. n : s[j] \in CallSet
  PROVE  IsList(s, n)
<1>1. s \in Seq(CallSet) /\ Len(s) = n
  BY ListIs
<1> QED BY <1>1 DEF IsList

\* A call that stops one thing, and with it leaves out so many.
D(kind, i, skip) == [op |-> "drop", res |-> <<kind, i>>, skip |-> skip]

\* A call that stops one thing.
LEMMA DropIs ==
  ASSUME NEW kind \in Names, NEW i \in Int
  PROVE  IsList(Drop(kind, i), 1) /\ Drop(kind, i)[1] = D(kind, i, 0)
<1>1. /\ Drop(kind, i) \in Seq(CallSet) /\ Len(Drop(kind, i)) = 1 /\ DOMAIN Drop(kind, i) = 1 .. 1
      /\ Drop(kind, i)[1] = C("drop", kind, i)
  BY OneCall DEF Drop, Ops
<1> QED BY <1>1 DEF C, D, IsList

\* A stop function of two calls: when the first is refused, the second is left out.
LEMMA DropsTwo ==
  ASSUME NEW p \in Names \X Int, NEW q \in Names \X Int, NEW s, s = Drops(<<p, q>>)
  PROVE  /\ IsList(s, 2)
         /\ s[1] = [op |-> "drop", res |-> p, skip |-> 1] /\ s[2] = [op |-> "drop", res |-> q, skip |-> 0]
<1>1. s = [k \in 1 .. 2 |-> [op |-> "drop", res |-> <<p, q>>[k], skip |-> 2 - k]]
  BY DEF Drops
<1>2. s[1] = [op |-> "drop", res |-> p, skip |-> 1] /\ s[2] = [op |-> "drop", res |-> q, skip |-> 0]
  BY <1>1
<1>3. DOMAIN s = 1 .. 2 /\ s = [j \in DOMAIN s |-> s[j]]
  BY <1>1
<1>4. [op |-> "drop", res |-> p, skip |-> 1] \in CallSet /\ [op |-> "drop", res |-> q, skip |-> 0] \in CallSet
  BY DEF CallSet, Ops
<1>5. \A j \in 1 .. 2 : s[j] \in CallSet
  BY <1>2, <1>4
<1> DEFINE n == 2
<1>6. n \in Nat /\ DOMAIN s = 1 .. n /\ \A j \in 1 .. n : s[j] \in CallSet
  BY <1>3, <1>5
<1> HIDE DEF n
<1>7. IsList(s, n)
  BY <1>3, <1>6, ListOf, Zenon
<1> QED BY <1>2, <1>7 DEF n

\* The four calls that stop one VI.
LEMMA DestroySingleViIs ==
  ASSUME NEW v \in Int
  PROVE  /\ IsList(DestroySingleVi(v), 4)
         /\ DestroySingleVi(v)[1] = D("chn", v, 0) /\ DestroySingleVi(v)[2] = D("run", v, 1)
         /\ DestroySingleVi(v)[3] = D("pipe", v, 0) /\ DestroySingleVi(v)[4] = D("dev", v, 0)
<1> DEFINE a == StopViChn(v)
           b == StopViPipe(v)
           c == StopDev(v)
<1>1. /\ IsList(a, 1) /\ a[1] = D("chn", v, 0)
      /\ IsList(b, 2) /\ b[1] = D("run", v, 1) /\ b[2] = D("pipe", v, 0)
      /\ IsList(c, 1) /\ c[1] = D("dev", v, 0)
  <2>1. {"chn", "run", "pipe", "dev"} \subseteq Names /\ <<"run", v>> \in Names \X Int /\ <<"pipe", v>> \in Names \X Int
    BY DEF Names
  <2>2. IsList(a, 1) /\ a[1] = D("chn", v, 0)
    BY <2>1, DropIs DEF StopViChn
  <2>3. IsList(c, 1) /\ c[1] = D("dev", v, 0)
    BY <2>1, DropIs DEF StopDev
  <2>4. b = Drops(<<<<"run", v>>, <<"pipe", v>>>>)
    BY DEF StopViPipe
  <2> HIDE DEF b
  <2>5. IsList(b, 2) /\ b[1] = D("run", v, 1) /\ b[2] = D("pipe", v, 0)
    BY <2>1, <2>4, DropsTwo DEF D
  <2> HIDE DEF a, c
  <2> QED BY <2>2, <2>3, <2>5
<1>2. DestroySingleVi(v) = Then(Then(a, b), c)
  BY DEF DestroySingleVi, Then
<1> HIDE DEF a, b, c
<1> DEFINE ab == Then(a, b)
<1>3. /\ IsList(ab, 1 + 2)
      /\ \A i \in 1 .. 1 : ab[i] = a[i]
      /\ \A i \in 1 .. 2 : ab[1 + i] = b[i]
  BY <1>1, ListThen
<1> HIDE DEF ab
<1>4. IsList(ab, 3) /\ ab[1] = a[1] /\ ab[2] = b[1] /\ ab[3] = b[2]
  BY <1>3
<1> DEFINE abc == Then(ab, c)
<1>5. /\ IsList(abc, 3 + 1)
      /\ \A i \in 1 .. 3 : abc[i] = ab[i]
      /\ \A i \in 1 .. 1 : abc[3 + i] = c[i]
  BY <1>1, <1>4, ListThen
<1> HIDE DEF abc
<1>6. IsList(abc, 4) /\ abc[1] = ab[1] /\ abc[2] = ab[2] /\ abc[3] = ab[3] /\ abc[4] = c[1]
  BY <1>5
<1>7. DestroySingleVi(v) = abc
  BY <1>2 DEF abc, ab
<1> QED BY <1>1, <1>4, <1>6, <1>7

\* No ISP and no binding is on the VIs below n.
Unused(n, x) == x \subseteq Resources /\ <<"viBind", 0>> \notin x /\ \A v \in 0 .. n - 1 : <<"isp", v>> \notin x

\* The first n VIs are stopped in order, when no ISP is on them.
LEMMA DestroyVisStop ==
  ASSUME Configured, NEW n \in Nat, n <= vis, NEW s, s = Each(n, DestroySingleVi), NEW ops, "drop" \in ops,
         NEW x, Unused(n, x)
  PROVE  /\ Stops(s, ops, x)
         /\ \A v \in 0 .. n - 1 : \A k \in {"chn", "run", "pipe", "dev"} : Takes(s, <<k, v>>)
<1>1. n \in Nat /\ n <= vis /\ vis <= MaxVis /\ MaxVis \in Nat /\ vis \in Nat /\ 4 * n \in Nat /\ n * 4 = 4 * n
  BY CaptureAssumption DEF Configured
<1> DEFINE m == 4 * n
           val(u, b) == IF b = 1 THEN D("chn", u, 0)
                        ELSE IF b = 2 THEN D("run", u, 1)
                        ELSE IF b = 3 THEN D("pipe", u, 0) ELSE D("dev", u, 0)
<1>2. /\ DOMAIN s = 1 .. m /\ s = [j \in DOMAIN s |-> s[j]]
      /\ \A u \in 0 .. n - 1 : \A b \in 1 .. 4 : s[4 * u + b] = val(u, b)
  <2>1. CASE n = 0
    <3>1. s = <<>>
      BY <2>1 DEF Each
    <3>2. m = 0 /\ 1 .. 0 = {} /\ 0 .. n - 1 = {}
      BY <2>1
    <3>3. DOMAIN s = 1 .. m /\ s = [j \in DOMAIN s |-> s[j]]
      BY <3>1, <3>2
    <3> HIDE DEF val
    <3> QED BY <3>2, <3>3
  <2>2. CASE n # 0
    <3>1. Len(DestroySingleVi(0)) = 4
      <4>1. 0 \in Int
        OBVIOUS
      <4> QED BY <4>1, DestroySingleViIs DEF IsList
    <3>2. s = [j \in 1 .. n * 4 |-> DestroySingleVi((j - 1) \div 4)[((j - 1) % 4) + 1]]
      BY <2>2, <3>1 DEF Each
    <3>3. ASSUME NEW u \in 0 .. n - 1, NEW b \in 1 .. 4 PROVE s[4 * u + b] = val(u, b)
      <4> DEFINE j == 4 * u + b
      <4>1. j \in 1 .. m /\ (j - 1) \div 4 = u /\ ((j - 1) % 4) + 1 = b
        BY <1>1
      <4> HIDE DEF j
      <4>2. s[j] = DestroySingleVi((j - 1) \div 4)[((j - 1) % 4) + 1]
        BY <1>1, <3>2, <4>1
      <4>3. s[j] = DestroySingleVi(u)[b]
        BY <4>1, <4>2
      <4>4. DestroySingleVi(u)[b] = val(u, b)
        <5>1. u \in Int /\ b \in {1, 2, 3, 4}
          BY <1>1
        <5> QED BY <5>1, DestroySingleViIs
      <4> QED BY <4>3, <4>4 DEF j
    <3>4. DOMAIN s = 1 .. m /\ s = [j \in DOMAIN s |-> s[j]]
      BY <1>1, <3>2
    <3> QED BY <3>3, <3>4
  <2> QED BY <2>1, <2>2
<1>3. \A u \in 0 .. n - 1 : \A k \in {"chn", "run", "pipe", "dev"} : <<k, u>> \in Resources \ InProcess
  BY <1>1 DEF Resources, InProcess
<1>4. ASSUME NEW u \in 0 .. n - 1, NEW b \in 1 .. 4
      PROVE  \E k \in {"chn", "run", "pipe", "dev"} : \E d \in {0, 1} :
               val(u, b) = D(k, u, d) /\ (d = 1 => b # 4)
               /\ (b = 1 <=> k = "chn") /\ (b = 2 <=> k = "run") /\ (b = 3 <=> k = "pipe") /\ (b = 4 <=> k = "dev")
  <2>1. b \in {1, 2, 3, 4}
    OBVIOUS
  <2>2. CASE b = 1
    BY <2>2
  <2>3. CASE b = 2
    BY <2>3
  <2>4. CASE b = 3
    BY <2>4
  <2>5. CASE b = 4
    BY <2>5
  <2> QED BY <2>1, <2>2, <2>3, <2>4, <2>5
<1>5. \A u \in 0 .. n - 1 : \A k \in {"chn", "run", "pipe", "dev"} : \A d \in {0, 1} :
        /\ D(k, u, d) \in CallSet /\ D(k, u, d).op = "drop" /\ D(k, u, d).res = <<k, u>> /\ D(k, u, d).skip = d
        /\ Removes(D(k, u, d), <<k, u>>) /\ u \in Int
  BY <1>1 DEF D, CallSet, Ops, Names, Removes
<1> HIDE DEF val
<1>6. m \in Nat /\ m = 4 * n
  BY <1>1
<1> HIDE DEF m
<1>7. ASSUME NEW i \in 1 .. m
      PROVE  \E u \in 0 .. n - 1 : \E b \in 1 .. 4 : \E k \in {"chn", "run", "pipe", "dev"} : \E d \in {0, 1} :
               /\ i = 4 * u + b /\ s[i] = D(k, u, d) /\ (d = 1 => b # 4)
               /\ (b = 1 <=> k = "chn") /\ (b = 2 <=> k = "run") /\ (b = 3 <=> k = "pipe") /\ (b = 4 <=> k = "dev")
  <2>1. PICK u \in 0 .. n - 1, b \in 1 .. 4 : i = 4 * u + b
    <3>1. i \in 1 .. 4 * n
      BY <1>6
    <3> QED BY <1>1, <3>1, Fourths
  <2>2. s[i] = val(u, b)
    BY <1>2, <2>1
  <2> QED BY <1>4, <2>1, <2>2
<1>8. \A u \in 0 .. n - 1 : \A k \in {"chn", "run", "pipe", "dev"} :
        \E j \in 4 * u + 1 .. 4 * u + 4 :
           /\ j \in 1 .. m /\ Removes(s[j], <<k, u>>)
           /\ (k = "chn" => j = 4 * u + 1) /\ (k = "run" => j = 4 * u + 2)
           /\ (k = "pipe" => j = 4 * u + 3) /\ (k = "dev" => j = 4 * u + 4)
  <2>1. ASSUME NEW u \in 0 .. n - 1
        PROVE  /\ s[4 * u + 1] = D("chn", u, 0) /\ s[4 * u + 2] = D("run", u, 1)
               /\ s[4 * u + 3] = D("pipe", u, 0) /\ s[4 * u + 4] = D("dev", u, 0)
               /\ u \in Int /\ \A b \in 1 .. 4 : 4 * u + b \in 1 .. m
    BY <1>1, <1>2, <1>6 DEF val
  <2>2. ASSUME NEW u \in 0 .. n - 1, NEW k \in {"chn", "run", "pipe", "dev"}
        PROVE  \E j \in 4 * u + 1 .. 4 * u + 4 :
                 /\ j \in 1 .. m /\ Removes(s[j], <<k, u>>)
                 /\ (k = "chn" => j = 4 * u + 1) /\ (k = "run" => j = 4 * u + 2)
                 /\ (k = "pipe" => j = 4 * u + 3) /\ (k = "dev" => j = 4 * u + 4)
    <3>1. /\ Removes(s[4 * u + 1], <<"chn", u>>) /\ Removes(s[4 * u + 2], <<"run", u>>)
          /\ Removes(s[4 * u + 3], <<"pipe", u>>) /\ Removes(s[4 * u + 4], <<"dev", u>>)
      BY <1>5, <2>1
    <3>2. \A b \in 1 .. 4 : 4 * u + b \in 1 .. m /\ 4 * u + b \in 4 * u + 1 .. 4 * u + 4
      BY <1>6
    <3> QED BY <3>1, <3>2
  <2> QED BY <2>2
<1>9. \A j \in 1 .. m : s[j] \in CallSet
  <2>1. ASSUME NEW i \in 1 .. m PROVE s[i] \in CallSet
    <3>1. PICK u \in 0 .. n - 1, b \in 1 .. 4, k \in {"chn", "run", "pipe", "dev"}, d \in {0, 1} : s[i] = D(k, u, d)
      BY <1>7
    <3> QED BY <1>5, <3>1
  <2> QED BY <2>1
<1>10. s \in Seq(CallSet) /\ Len(s) = m
  <2>1. DOMAIN s = 1 .. m /\ s = [j \in DOMAIN s |-> s[j]]
    BY <1>2
  <2> QED BY <1>9, <1>6, <2>1, ListIs
<1>11. \A i \in DOMAIN s : s[i].op = "drop" /\ s[i].res \in Resources \ InProcess
  <2>1. ASSUME NEW i \in DOMAIN s PROVE s[i].op = "drop" /\ s[i].res \in Resources \ InProcess
    <3>1. PICK u \in 0 .. n - 1, b \in 1 .. 4, k \in {"chn", "run", "pipe", "dev"}, d \in {0, 1} : s[i] = D(k, u, d)
      BY <1>2, <1>7
    <3>2. s[i].op = "drop" /\ s[i].res = <<k, u>>
      BY <1>5, <3>1, ZenonT(40)
    <3>3. <<k, u>> \in Resources \ InProcess
      BY <1>3, Zenon
    <3> QED BY <3>2, <3>3, Zenon
  <2> QED BY <2>1
<1>12. Skips(s)
  <2>1. ASSUME NEW i \in DOMAIN s
        PROVE  /\ s[i].skip \in Nat /\ i + s[i].skip <= Len(s)
               /\ \A k \in i .. i + s[i].skip : s[k].op = "drop"
    <3>1. PICK u \in 0 .. n - 1, b \in 1 .. 4, k \in {"chn", "run", "pipe", "dev"}, d \in {0, 1} :
            i = 4 * u + b /\ s[i] = D(k, u, d) /\ (d = 1 => b # 4)
      BY <1>2, <1>7
    <3>2. s[i].skip = d
      BY <1>5, <3>1
    <3>3. i + d <= m /\ \A j \in i .. i + d : j \in 1 .. m
      BY <1>6, <3>1
    <3> DEFINE t == s[i].skip
    <3>4. t = d /\ t \in Nat
      BY <3>2
    <3> HIDE DEF t
    <3>5. i + t <= Len(s) /\ \A j \in i .. i + t : s[j].op = "drop"
      BY <1>2, <1>10, <1>11, <3>3, <3>4
    <3> QED BY <3>4, <3>5 DEF t
  <2> QED BY <2>1 DEF Skips
<1>13. Orderly(s, x)
  <2>1. ASSUME NEW i \in DOMAIN s, NEW r \in x, s[i].res \in Needs(r)
        PROVE  \E j \in 1 .. i - 1 : Removes(s[j], r)
    <3>1. PICK u \in 0 .. n - 1, b \in 1 .. 4, k \in {"chn", "run", "pipe", "dev"}, d \in {0, 1} :
            /\ i = 4 * u + b /\ s[i] = D(k, u, d)
            /\ (b = 1 <=> k = "chn") /\ (b = 2 <=> k = "run") /\ (b = 3 <=> k = "pipe") /\ (b = 4 <=> k = "dev")
      BY <1>2, <1>7
    <3>2. <<k, u>> \in Needs(r) /\ r \in Resources /\ u \in Int
      <4>1. s[i].res = <<k, u>> /\ u \in Int
        BY <1>5, <3>1, ZenonT(40)
      <4>2. r \in Resources
        BY <2>1 DEF Unused
      <4> QED BY <2>1, <4>1, <4>2, Zenon
    <3>3. k # "chn" /\ r # <<"isp", u>>
      <4>1. r # <<"isp", u>> /\ r # <<"viBind", 0>>
        BY <2>1, Zenon DEF Unused
      <4>2. <<"chn", u>> \in Needs(r) => r = <<"viBind", 0>>
        BY <3>2, Stands, Zenon
      <4> QED BY <3>2, <4>1, <4>2, Zenon
    <3>4. \E h \in {"chn", "run", "pipe"} :
            r = <<h, u>> /\ (h = "chn" => b = 2) /\ (h = "run" => b = 3) /\ (h = "pipe" => b = 4)
      BY <3>1, <3>2, <3>3, Stands
    <3>5. PICK h \in {"chn", "run", "pipe"} :
            r = <<h, u>> /\ (h = "chn" => b = 2) /\ (h = "run" => b = 3) /\ (h = "pipe" => b = 4)
      BY <3>4
    <3>6. PICK j \in 4 * u + 1 .. 4 * u + 4 :
             /\ j \in 1 .. m /\ Removes(s[j], <<h, u>>)
             /\ (h = "chn" => j = 4 * u + 1) /\ (h = "run" => j = 4 * u + 2)
             /\ (h = "pipe" => j = 4 * u + 3)
      BY <1>8
    <3>7. j \in 1 .. i - 1
      BY <1>6, <3>1, <3>5, <3>6
    <3> QED BY <3>5, <3>6, <3>7
  <2> QED BY <2>1 DEF Orderly
<1>14. \A v \in 0 .. n - 1 : \A k \in {"chn", "run", "pipe", "dev"} : Takes(s, <<k, v>>)
  BY <1>2, <1>8 DEF Takes
<1> QED BY <1>10, <1>11, <1>12, <1>13, <1>14 DEF Stops

\* Resources that a function stops in this order.
Ordered(rs, n, x) ==
  /\ rs \in Seq(Resources \ InProcess) /\ Len(rs) = n
  /\ \A k \in 1 .. n : \A r \in x : rs[k] \in Needs(r) => \E j \in 1 .. k - 1 : rs[j] = r

\* A stop function that takes them in this order.
LEMMA OrderedStops ==
  ASSUME NEW rs, NEW n \in Nat, NEW x, Ordered(rs, n, x), NEW ops, "drop" \in ops
  PROVE  Stops(Drops(rs), ops, x) /\ \A k \in 1 .. n : Takes(Drops(rs), rs[k])
<1> DEFINE S == Resources \ InProcess
           s == Drops(rs)
<1>1. S = Resources \ InProcess /\ rs \in Seq(S) /\ n = Len(rs)
  BY DEF Ordered
<1>2. \A k \in 1 .. n : \A r \in x : rs[k] \in Needs(r) => \E j \in 1 .. k - 1 : rs[j] = r
  BY DEF Ordered
<1> HIDE DEF S
<1>3. s = [k \in 1 .. n |-> [op |-> "drop", res |-> rs[k], skip |-> n - k]]
  BY <1>1 DEF Drops
<1>4. DOMAIN s = 1 .. n /\ s = [k \in DOMAIN s |-> s[k]]
  BY <1>3
<1>5. \A k \in 1 .. n : s[k] = [op |-> "drop", res |-> rs[k], skip |-> n - k] /\ rs[k] \in S /\ n - k \in Nat
  BY <1>3, <1>1
<1>6. S \subseteq Names \X Int
  BY CaptureAssumption DEF Resources, Names, Es, Ls, S
<1>7. \A k \in 1 .. n : s[k] \in CallSet /\ s[k].op = "drop" /\ s[k].res = rs[k] /\ s[k].skip = n - k
  <2>1. ASSUME NEW k \in 1 .. n
        PROVE  s[k] \in CallSet /\ s[k].op = "drop" /\ s[k].res = rs[k] /\ s[k].skip = n - k
    <3> DEFINE c == s[k]
               t == rs[k]
               d == n - k
    <3>1. c = [op |-> "drop", res |-> t, skip |-> d] /\ t \in Names \X Int /\ d \in Nat
      BY <1>5, <1>6
    <3> HIDE DEF c, t, d, s
    <3>2. c \in CallSet /\ c.op = "drop" /\ c.res = t /\ c.skip = d
      BY <3>1 DEF CallSet, Ops
    <3> QED BY <3>2 DEF c, t, d
  <2> QED BY <2>1
<1> HIDE DEF s
<1>8. s \in Seq(CallSet) /\ Len(s) = n
  BY <1>4, <1>7, ListIs
<1>9. Skips(s)
  <2>1. ASSUME NEW k \in 1 .. n
        PROVE  s[k].skip \in Nat /\ k + s[k].skip <= Len(s) /\ \A i \in k .. k + s[k].skip : s[i].op = "drop"
    <3>1. s[k].skip = n - k /\ n - k \in Nat /\ k + (n - k) = n
      BY <1>5, <1>7
    <3>2. \A i \in k .. n : s[i].op = "drop"
      BY <1>7
    <3> DEFINE t == s[k].skip
    <3>3. t \in Nat /\ k + t = n
      BY <3>1
    <3> HIDE DEF t
    <3>4. t \in Nat /\ k + t <= Len(s) /\ \A i \in k .. k + t : s[i].op = "drop"
      BY <1>8, <3>2, <3>3
    <3> QED BY <3>4 DEF t
  <2> QED BY <1>4, <2>1 DEF Skips
<1>10. Orderly(s, x)
  <2>1. ASSUME NEW i \in DOMAIN s, NEW r \in x, s[i].res \in Needs(r)
        PROVE  \E j \in 1 .. i - 1 : Removes(s[j], r)
    <3>1. PICK j \in 1 .. i - 1 : rs[j] = r
      BY <1>4, <1>7, <1>2, <2>1
    <3>2. j \in 1 .. n
      BY <1>4
    <3> QED BY <1>7, <3>1, <3>2 DEF Removes
  <2> QED BY <2>1 DEF Orderly
<1>11. \A k \in 1 .. n : Removes(s[k], rs[k])
  BY <1>7 DEF Removes
<1> QED BY <1>4, <1>5, <1>7, <1>8, <1>9, <1>10, <1>11, <1>2 DEF Stops, Takes, s, S

\* Two lists over any set.
Over(S, s, n) == s \in Seq(S) /\ Len(s) = n

\* Two lists over a set, one after the other.
LEMMA OverThen ==
  ASSUME NEW S, NEW a, NEW b, NEW m \in Nat, NEW n \in Nat, Over(S, a, m), Over(S, b, n)
  PROVE  /\ Over(S, Then(a, b), m + n)
         /\ \A i \in 1 .. m : Then(a, b)[i] = a[i]
         /\ \A i \in 1 .. n : Then(a, b)[m + i] = b[i]
<1>1. a \in Seq(S) /\ b \in Seq(S) /\ Len(a) = m /\ Len(b) = n
  BY DEF Over
<1>2. /\ a \o b \in Seq(S) /\ Len(a \o b) = m + n
      /\ \A i \in 1 .. m : (a \o b)[i] = a[i]
      /\ \A i \in 1 .. n : (a \o b)[m + i] = b[i]
  <2>1. a \o b \in Seq(S)
    BY <1>1
  <2>2. Len(a \o b) = m + n
    <3>1. Len(a \o b) = Len(a) + Len(b)
      BY <1>1, Concat
    <3> QED BY <1>1, <3>1
  <2>3. ASSUME NEW i \in 1 .. m PROVE (a \o b)[i] = a[i]
    BY <1>1, Concat
  <2>4. ASSUME NEW i \in 1 .. n PROVE (a \o b)[m + i] = b[i]
    BY <1>1, Concat
  <2> QED BY <2>1, <2>2, <2>3, <2>4
<1> QED BY <1>2 DEF Over, Then

\* Stopping an ISP.
LEMMA StopsStop ==
  ASSUME NEW v \in Int, NEW x, NEW ops, "stop" \in ops
  PROVE  /\ Stops(StopIsp(v), ops, x) /\ DOMAIN StopIsp(v) = 1 .. 1 /\ StopIsp(v)[1] = C("stop", "stop", v)
         /\ Takes(StopIsp(v), <<"isp", v>>) /\ Takes(StopIsp(v), <<"ispRun", v>>)
<1> DEFINE s == StopIsp(v)
<1>1. s \in Seq(CallSet) /\ DOMAIN s = 1 .. 1 /\ s[1] = C("stop", "stop", v)
  BY OneCall DEF StopIsp, Mark, Ops, Names
<1>2. C("stop", "stop", v).op = "stop" /\ C("stop", "stop", v).res = <<"stop", v>> /\ <<"stop", v>>[2] = v
  BY DEF C
<1> HIDE DEF s
<1>3. \A k \in DOMAIN s : s[k].op = "stop" /\ s[k].op # "drop"
  BY <1>1, <1>2
<1>4. Stops(s, ops, x)
  BY <1>1, <1>3 DEF Stops, Skips, Orderly
<1>5. Removes(s[1], <<"isp", v>>) /\ Removes(s[1], <<"ispRun", v>>)
  BY <1>1, <1>2 DEF Removes
<1>6. Takes(s, <<"isp", v>>) /\ Takes(s, <<"ispRun", v>>)
  <2>1. 1 \in DOMAIN s
    BY <1>1
  <2> QED BY <1>5, <2>1 DEF Takes
<1> QED BY <1>1, <1>4, <1>6 DEF s

\* Stopping one thing.
LEMMA StopsDrop ==
  ASSUME NEW kind \in Names, NEW i \in Int, <<kind, i>> \in Resources \ InProcess, NEW x, NEW ops, "drop" \in ops,
         \A r \in x : <<kind, i>> \notin Needs(r)
  PROVE  Stops(Drop(kind, i), ops, x) /\ Takes(Drop(kind, i), <<kind, i>>)
<1>1. /\ Stops(Drop(kind, i), ops, x)
      /\ DOMAIN Drop(kind, i) = 1 .. 1 /\ Removes(Drop(kind, i)[1], <<kind, i>>)
  BY StopsOne
<1>2. 1 \in DOMAIN Drop(kind, i)
  BY <1>1
<1> QED BY <1>1, <1>2 DEF Takes

\* Stopping two things in one function.
LEMMA StopsDropTwo ==
  ASSUME NEW p \in Resources \ InProcess, NEW q \in Resources \ InProcess, NEW x, NEW ops, "drop" \in ops,
         \A r \in x : p \notin Needs(r), \A r \in x : q \in Needs(r) => r = p
  PROVE  Stops(Drops(<<p, q>>), ops, x) /\ Takes(Drops(<<p, q>>), p) /\ Takes(Drops(<<p, q>>), q)
<1> DEFINE S == Resources \ InProcess
           rs == <<p, q>>
           n == 2
<1>1. rs \in Seq(S) /\ n \in Nat /\ n = Len(rs) /\ rs[1] = p /\ rs[2] = q
  OBVIOUS
<1>2. \A k \in 1 .. n : k = 1 \/ k = 2
  OBVIOUS
<1>3. 1 \in 1 .. n /\ 2 \in 1 .. n /\ 1 \in 1 .. 2 - 1
  OBVIOUS
<1> HIDE DEF S, rs, n
<1>4. \A k \in 1 .. n : \A r \in x : rs[k] \in Needs(r) => \E j \in 1 .. k - 1 : rs[j] = r
  BY <1>1, <1>2, <1>3
<1>5. Ordered(rs, n, x)
  BY <1>1, <1>4 DEF Ordered, S
<1>6. Stops(Drops(rs), ops, x) /\ \A k \in 1 .. n : Takes(Drops(rs), rs[k])
  BY <1>1, <1>5, OrderedStops
<1>7. Takes(Drops(rs), p) /\ Takes(Drops(rs), q)
  BY <1>1, <1>3, <1>6
<1> QED BY <1>6, <1>7 DEF rs

\* Stopping the group.
LEMMA VpssStops ==
  ASSUME Configured, NEW x, x \subseteq Resources, <<"viBind", 0>> \notin x, \A r \in x : r[1] # "bind",
         NEW ops, "drop" \in ops
  PROVE  /\ Stops(VpssStop, ops, x)
         /\ \A l \in Ls : Takes(VpssStop, <<"layer", l>>)
         /\ Takes(VpssStop, <<"started", 0>>) /\ Takes(VpssStop, <<"grp", 0>>)
<1> DEFINE S == Resources \ InProcess
           a == [k \in 1 .. Layers |-> <<"layer", k - 1>>]
           b == <<<<"started", 0>>, <<"grp", 0>>>>
           rs == Then(a, b)
           n == Layers + 2
<1>1. Layers \in Nat /\ n \in Nat
  BY CaptureAssumption
<1>2. /\ \A k \in 1 .. Layers : <<"layer", k - 1>> \in S /\ k - 1 \in Ls
      /\ <<"started", 0>> \in S /\ <<"grp", 0>> \in S
  BY <1>1 DEF Resources, InProcess, Ls
<1>3. a \in Seq(S) /\ Len(a) = Layers /\ b \in Seq(S) /\ Len(b) = 2
  BY <1>1, <1>2
<1>4. /\ \A k \in 1 .. Layers : a[k] = <<"layer", k - 1>>
      /\ b[1] = <<"started", 0>> /\ b[2] = <<"grp", 0>>
  OBVIOUS
<1> HIDE DEF a, b, S
<1>5. /\ Over(S, rs, Layers + 2)
      /\ \A i \in 1 .. Layers : rs[i] = a[i]
      /\ \A i \in 1 .. 2 : rs[Layers + i] = b[i]
  <2>1. Over(S, a, Layers) /\ Over(S, b, 2)
    BY <1>3 DEF Over
  <2> QED BY <1>1, <2>1, OverThen
<1> HIDE DEF rs
<1>6. /\ rs \in Seq(S) /\ Len(rs) = n
      /\ \A k \in 1 .. Layers : rs[k] = <<"layer", k - 1>>
      /\ rs[Layers + 1] = <<"started", 0>> /\ rs[Layers + 2] = <<"grp", 0>>
  BY <1>1, <1>4, <1>5 DEF Over
<1>7. ASSUME NEW k \in 1 .. n, NEW r \in x, rs[k] \in Needs(r)
      PROVE  \E j \in 1 .. k - 1 : rs[j] = r
  <2>1. r \in Resources /\ r # <<"viBind", 0>> /\ r[1] # "bind"
    BY <1>7
  <2>2. CASE k \in 1 .. Layers
    <3>1. k - 1 \in Int /\ <<"layer", k - 1>> \in Needs(r)
      <4>1. k - 1 \in Int
        BY <1>1, <2>2
      <4>2. rs[k] = <<"layer", k - 1>>
        BY <1>6, <2>2, Zenon
      <4> QED BY <1>7, <4>1, <4>2, Zenon
    <3> QED BY <2>1, <3>1, Stands
  <2>3. CASE k = Layers + 1
    <3>1. 0 \in Int /\ <<"started", 0>> \in Needs(r)
      BY <1>6, <1>7, <2>3
    <3> QED BY <2>1, <3>1, Stands
  <2>4. CASE k = Layers + 2
    <3>1. 0 \in Int /\ <<"grp", 0>> \in Needs(r)
      BY <1>6, <1>7, <2>4
    <3>2. r[1] \in {"layer", "started", "viBind"}
      BY <2>1, <3>1, Stands
    <3>3. r = <<"started", 0>> \/ \E l \in Ls : r = <<"layer", l>>
      BY <2>1, <3>2 DEF Resources
    <3>4. CASE r = <<"started", 0>>
      <4>1. Layers + 1 \in 1 .. k - 1
        BY <1>1, <2>4
      <4> QED BY <1>6, <3>4, <4>1
    <3>5. CASE \E l \in Ls : r = <<"layer", l>>
      <4>1. PICK l \in Ls : r = <<"layer", l>>
        BY <3>5
      <4>2. l + 1 \in 1 .. Layers /\ l + 1 \in 1 .. k - 1 /\ (l + 1) - 1 = l
        BY <1>1, <2>4 DEF Ls
      <4>3. rs[l + 1] = r
        BY <1>6, <4>1, <4>2
      <4> QED BY <4>2, <4>3
    <3> QED BY <3>3, <3>4, <3>5
  <2>5. k \in 1 .. Layers \/ k = Layers + 1 \/ k = Layers + 2
    BY <1>1
  <2> QED BY <2>2, <2>3, <2>4, <2>5
<1>8. Ordered(rs, n, x)
  BY <1>6, <1>7 DEF Ordered, S
<1> HIDE DEF n
<1> DEFINE s == Drops(rs)
<1>9. Stops(s, ops, x) /\ \A k \in 1 .. n : Takes(s, rs[k])
  BY <1>1, <1>8, OrderedStops
<1>10. VpssStop = s
  BY DEF VpssStop, rs, a, b, Then
<1> HIDE DEF s
<1>11. Takes(s, <<"started", 0>>) /\ Takes(s, <<"grp", 0>>)
  <2>1. Layers + 1 \in 1 .. n /\ Layers + 2 \in 1 .. n
    BY <1>1 DEF n
  <2> QED BY <1>6, <1>9, <2>1
<1>12. ASSUME NEW l \in Ls PROVE Takes(s, <<"layer", l>>)
  <2>1. l + 1 \in 1 .. n /\ l + 1 \in 1 .. Layers /\ (l + 1) - 1 = l
    BY <1>1 DEF Ls, n
  <2>2. rs[l + 1] = <<"layer", l>>
    BY <1>6, <2>1
  <2> QED BY <1>9, <2>1, <2>2
<1> QED BY <1>9, <1>10, <1>11, <1>12

\* Everything outside the process was made before r, when making r fails; when a clock
\* or the device of the first VI fails, there is nothing to undo.
Before(r, x) ==
  /\ x \subseteq Resources \ InProcess
  /\ r = <<"dev", 0>> \/ r \in Idempotent \/ \A q \in x : q \in Idempotent \/ W(q) < W(r)

\* When a call of a VI fails, it and the binding of the VIs are not made yet.
LEMMA BeforeVi ==
  ASSUME Configured, NEW v \in Vs, NEW k \in {"dev", "pipe", "run", "chn", "isp", "ispRun"}, NEW x,
         Before(<<k, v>>, x), <<k, v>> # <<"dev", 0>>
  PROVE  <<"viBind", 0>> \notin x /\ <<k, v>> \notin x
<1>1. vis \in Nat /\ Layers \in Nat /\ v \in Nat /\ v < vis
  BY CaptureAssumption DEF Configured, Vs
<1>2. /\ W(<<"viBind", 0>>) = 5 + 6 * vis + Layers
      /\ W(<<"dev", v>>) = 3 + 4 * v /\ W(<<"pipe", v>>) = 4 + 4 * v /\ W(<<"run", v>>) = 5 + 4 * v
      /\ W(<<"chn", v>>) = 6 + 4 * v /\ W(<<"isp", v>>) = 3 + 4 * vis + 2 * v /\ W(<<"ispRun", v>>) = 4 + 4 * vis + 2 * v
  BY <1>1 DEF W
<1>3. W(<<k, v>>) \in Nat /\ W(<<k, v>>) < W(<<"viBind", 0>>) /\ W(<<"viBind", 0>>) \in Nat
  BY <1>1, <1>2
<1>4. <<"viBind", 0>> \notin Idempotent /\ <<k, v>> \notin Idempotent
  BY DEF Idempotent
<1>5. \A q \in x : q \in Idempotent \/ W(q) < W(<<k, v>>)
  BY <1>4 DEF Before
<1>6. ASSUME <<k, v>> \in x PROVE FALSE
  <2>1. W(<<k, v>>) < W(<<k, v>>)
    BY <1>4, <1>5, <1>6, Zenon
  <2> QED BY <1>3, <2>1
<1>7. ASSUME <<"viBind", 0>> \in x PROVE FALSE
  <2>1. W(<<"viBind", 0>>) < W(<<k, v>>)
    BY <1>4, <1>5, <1>7, Zenon
  <2> QED BY <1>3, <2>1
<1> QED BY <1>6, <1>7

\* The same for the system, the binding of the VIs and that of an encoder.
LEMMA BeforeOther ==
  ASSUME Configured, NEW x
  PROVE  /\ Before(<<"sys", 0>>, x) => <<"sys", 0>> \notin x
         /\ Before(<<"viBind", 0>>, x) => <<"viBind", 0>> \notin x /\ \A q \in x : q[1] # "bind"
         /\ \A n \in Es \cup {Encoders} : Before(<<"bind", n>>, x) => <<"bind", n>> \notin x
<1>1. vis \in Nat /\ Layers \in Nat /\ Encoders \in Nat /\ \A n \in Es \cup {Encoders} : n \in Nat
  BY CaptureAssumption DEF Configured, Es
<1>2. /\ W(<<"viBind", 0>>) = 5 + 6 * vis + Layers
      /\ W(<<"sys", 0>>) = 2
      /\ \A n \in Es \cup {Encoders} : W(<<"bind", n>>) = 8 + 6 * vis + Layers + 3 * n
  BY <1>1 DEF W
<1>3. \A n \in Es \cup {Encoders} :
        W(<<"bind", n>>) \in Nat /\ W(<<"viBind", 0>>) < W(<<"bind", n>>) /\ W(<<"viBind", 0>>) \in Nat
  <2> SUFFICES ASSUME NEW n \in Nat, W(<<"bind", n>>) = 8 + 6 * vis + Layers + 3 * n
               PROVE  W(<<"bind", n>>) \in Nat /\ W(<<"viBind", 0>>) < W(<<"bind", n>>) /\ W(<<"viBind", 0>>) \in Nat
    BY <1>1, <1>2, Zenon
  <2> DEFINE t == 3 * n
  <2>1. t \in Nat
    OBVIOUS
  <2>2. W(<<"bind", n>>) = 8 + 6 * vis + Layers + t
    OBVIOUS
  <2> HIDE DEF t
  <2> QED BY <1>1, <1>2, <2>1, <2>2
<1>4. /\ <<"viBind", 0>> \notin Idempotent /\ <<"sys", 0>> \notin Idempotent
      /\ \A n \in Es \cup {Encoders} : <<"bind", n>> \notin Idempotent
  BY DEF Idempotent
<1>5. \A r : Before(r, x) =>
        /\ x \subseteq Resources \ InProcess
        /\ r # <<"dev", 0>> /\ r \notin Idempotent => \A q \in x : q \in Idempotent \/ W(q) < W(r)
  BY DEF Before
<1>6. /\ <<"viBind", 0>> # <<"dev", 0>> /\ <<"sys", 0>> # <<"dev", 0>>
      /\ \A n \in Es \cup {Encoders} : <<"bind", n>> # <<"dev", 0>>
  OBVIOUS
<1>7. ASSUME Before(<<"sys", 0>>, x), <<"sys", 0>> \in x PROVE FALSE
  <2>1. W(<<"sys", 0>>) < W(<<"sys", 0>>)
    BY <1>4, <1>5, <1>6, <1>7, Zenon
  <2> QED BY <1>2, <2>1
<1>8. ASSUME Before(<<"viBind", 0>>, x), <<"viBind", 0>> \in x PROVE FALSE
  <2>1. W(<<"viBind", 0>>) < W(<<"viBind", 0>>)
    BY <1>4, <1>5, <1>6, <1>8, Zenon
  <2> QED BY <1>1, <1>2, <2>1
<1>9. ASSUME Before(<<"viBind", 0>>, x), NEW q \in x, q[1] = "bind" PROVE FALSE
  <2>1. q \in Resources
    BY <1>5, <1>9
  <2>2. PICK n \in Es \cup {Encoders} : q = <<"bind", n>>
    BY <1>9, <2>1 DEF Resources
  <2>3. W(<<"bind", n>>) < W(<<"viBind", 0>>)
    BY <1>4, <1>5, <1>6, <1>9, <2>2, Zenon
  <2> QED BY <1>3, <2>3
<1>10. ASSUME NEW n \in Es \cup {Encoders}, Before(<<"bind", n>>, x), <<"bind", n>> \in x PROVE FALSE
  <2>1. W(<<"bind", n>>) < W(<<"bind", n>>)
    BY <1>4, <1>5, <1>6, <1>10, Zenon
  <2> QED BY <1>3, <2>1
<1> QED BY <1>7, <1>8, <1>9, <1>10

\* Two lists that each leave nothing standing on what they stop.
LEMMA StopsAnyway ==
  ASSUME NEW a, NEW b, NEW ops, NEW x, Stops(a, ops, x), Stops(b, ops, x)
  PROVE  Stops(Then(a, b), ops, x)
BY StopsThen

\* The first of two lists takes away what would stand on what the second stops.
LEMMA StopsAfter ==
  ASSUME NEW a, NEW b, NEW ops, NEW x, NEW y, Stops(a, ops, x), Stops(b, ops, y), \A r \in x \ y : Takes(a, r)
  PROVE  Stops(Then(a, b), ops, x)
BY StopsThen DEF Takes

\* What the functions of vi.c undo when a call for a VI or its ISP fails.
LEMMA UndoVi ==
  ASSUME Configured, NEW v \in Vs, NEW k \in {"dev", "pipe", "run", "chn", "isp", "ispRun"}, NEW x,
         Before(<<k, v>>, x), NEW ops, "drop" \in ops, k \in {"isp", "ispRun"} => "stop" \in ops
  PROVE  Stops(Undo(<<k, v>>), ops, x)
<1>1. /\ vis \in Nat /\ v \in Nat /\ v <= vis /\ v \in Int /\ vis <= vis
      /\ \A h \in {"dev", "pipe", "run", "chn"} : <<h, v>> \in Resources \ InProcess
      /\ {"dev", "pipe", "run", "chn"} \subseteq Names
  BY CaptureAssumption DEF Configured, Vs, Resources, InProcess, Names
<1>2. x \subseteq Resources /\ \A u : <<"isp", u>> \notin x
  BY DEF Before, InProcess
<1> DEFINE e == Each(v, DestroySingleVi)
<1>3. CASE <<k, v>> = <<"dev", 0>>
  <2>1. e = <<>>
    BY <1>3 DEF Each
  <2>2. Undo(<<k, v>>) = e
    BY <1>3 DEF Undo
  <2> QED BY <2>1, <2>2, StopsNothing
<1>4. CASE <<k, v>> # <<"dev", 0>>
  <2>1. <<"viBind", 0>> \notin x /\ <<k, v>> \notin x
    BY <1>4, BeforeVi
  <2>2. Unused(v, x) /\ Unused(vis, x)
    BY <1>2, <2>1 DEF Unused
  <2>3. Stops(e, ops, x)
    BY <1>1, <2>2, DestroyVisStop
  <2>4. \A r \in x : <<"pipe", v>> \in Needs(r) => r = <<"run", v>>
    BY <1>1, <1>2, Stands
  <2>5. \A r \in x : <<"dev", v>> \in Needs(r) => r = <<"pipe", v>>
    BY <1>1, <1>2, Stands
  <2>6. \A r \in x : <<"run", v>> \in Needs(r) => r = <<"chn", v>>
    <3>1. \A r \in x : <<"run", v>> \in Needs(r) => r = <<"chn", v>> \/ r = <<"isp", v>>
      BY <1>1, <1>2, Stands
    <3> QED BY <1>2, <3>1, Zenon
  <2> DEFINE y == x \ {<<"pipe", v>>}
             p == Drop("pipe", v)
             d == StopDev(v)
  <2>7. Stops(d, ops, y)
    <3>1. \A r \in y : <<"dev", v>> \notin Needs(r)
      BY <2>5
    <3> QED BY <1>1, <3>1, StopsDrop DEF StopDev
  <2>8. CASE k = "dev"
    <3>1. Undo(<<k, v>>) = e
      BY <2>8 DEF Undo
    <3> QED BY <2>3, <3>1
  <2>9. CASE k = "pipe"
    <3>1. Undo(<<k, v>>) = Then(d, e)
      BY <2>9 DEF Undo, Then
    <3>2. y = x
      BY <2>1, <2>9
    <3> HIDE DEF e, y, d
    <3>3. Stops(Then(d, e), ops, x)
      BY <2>3, <2>7, <3>2, StopsAnyway
    <3> QED BY <3>1, <3>3
  <2>10. CASE k = "run"
    <3>1. Undo(<<k, v>>) = Then(Then(p, d), e)
      BY <2>10 DEF Undo, Then
    <3>2. Stops(p, ops, x) /\ Takes(p, <<"pipe", v>>)
      <4>1. \A r \in x : <<"pipe", v>> \notin Needs(r)
        BY <2>1, <2>4, <2>10
      <4> QED BY <1>1, <4>1, StopsDrop
    <3>3. \A r \in x \ y : Takes(p, r)
      BY <3>2
    <3> HIDE DEF e, y, d, p
    <3>4. Stops(Then(p, d), ops, x)
      BY <2>7, <3>2, <3>3, StopsAfter
    <3>5. Stops(Then(Then(p, d), e), ops, x)
      BY <2>3, <3>4, StopsAnyway
    <3> QED BY <3>1, <3>5
  <2>11. CASE k = "chn"
    <3> DEFINE t == StopViPipe(v)
    <3>1. Undo(<<k, v>>) = Then(Then(t, d), e)
      BY <2>11 DEF Undo, Then
    <3>2. Stops(t, ops, x) /\ Takes(t, <<"pipe", v>>)
      <4>1. <<"run", v>> \in Resources \ InProcess /\ <<"pipe", v>> \in Resources \ InProcess
        BY <1>1
      <4>2. \A r \in x : <<"run", v>> \notin Needs(r)
        BY <2>1, <2>6, <2>11
      <4>3. t = Drops(<<<<"run", v>>, <<"pipe", v>>>>)
        BY DEF StopViPipe
      <4> DEFINE a == <<"run", v>>
                 b == <<"pipe", v>>
      <4> HIDE DEF t
      <4>4. t = Drops(<<a, b>>) /\ a \in Resources \ InProcess /\ b \in Resources \ InProcess
        BY <4>1, <4>3
      <4>5. (\A r \in x : a \notin Needs(r)) /\ \A r \in x : b \in Needs(r) => r = a
        BY <2>4, <4>2
      <4> HIDE DEF a, b
      <4>6. Stops(t, ops, x) /\ Takes(t, b)
        BY <1>1, <4>4, <4>5, StopsDropTwo
      <4> QED BY <4>6 DEF b
    <3>3. \A r \in x \ y : Takes(t, r)
      BY <3>2
    <3> HIDE DEF e, y, d, t
    <3>4. Stops(Then(t, d), ops, x)
      BY <2>7, <3>2, <3>3, StopsAfter
    <3>5. Stops(Then(Then(t, d), e), ops, x)
      BY <2>3, <3>4, StopsAnyway
    <3> QED BY <3>1, <3>5
  <2>12. CASE k \in {"isp", "ispRun"}
    <3> DEFINE t == StopIsp(v)
               all == DestroyVi
    <3>1. Undo(<<k, v>>) = Then(t, all)
      BY <2>12 DEF Undo, Then
    <3>2. Stops(t, ops, x)
      BY <1>1, <2>12, StopsStop
    <3>3. Stops(all, ops, x)
      <4>1. all = Each(vis, DestroySingleVi)
        BY DEF DestroyVi
      <4> HIDE DEF all
      <4> QED BY <1>1, <2>2, <4>1, DestroyVisStop
    <3> HIDE DEF t, all
    <3>4. Stops(Then(t, all), ops, x)
      BY <3>2, <3>3, StopsAnyway
    <3> QED BY <3>1, <3>4
  <2> QED BY <2>8, <2>9, <2>10, <2>11, <2>12
<1> QED BY <1>3, <1>4

\* What the functions undo is in order, whichever call fails.
LEMMA UndoStops ==
  ASSUME Configured, NEW r \in Own, NEW x, Before(r, x),
         NEW ops, "drop" \in ops, r[1] \in {"isp", "ispRun"} => "stop" \in ops
  PROVE  Stops(Undo(r), ops, x)
<1>1. x \subseteq Resources /\ 0 \in Int
  BY DEF Before
<1>2. CASE \E v \in Vs : \E k \in {"dev", "pipe", "run", "chn", "isp", "ispRun"} : r = <<k, v>>
  <2>1. PICK v \in Vs, k \in {"dev", "pipe", "run", "chn", "isp", "ispRun"} : r = <<k, v>>
    BY <1>2
  <2>2. Before(<<k, v>>, x) /\ (k \in {"isp", "ispRun"} => "stop" \in ops)
    BY <2>1
  <2>3. Stops(Undo(<<k, v>>), ops, x)
    BY <2>2, UndoVi
  <2> QED BY <2>1, <2>3
<1>3. CASE r = <<"sys", 0>>
  <2>1. Undo(r) = Drop("vb", 0)
    BY <1>3 DEF Undo
  <2>2. <<"sys", 0>> \notin x
    BY <1>3, BeforeOther
  <2>3. \A q \in x : <<"vb", 0>> \notin Needs(q)
    BY <1>1, <2>2, Stands
  <2>4. "vb" \in Names /\ <<"vb", 0>> \in Resources \ InProcess
    BY DEF Names, Resources, InProcess
  <2> QED BY <1>1, <2>1, <2>3, <2>4, StopsDrop
<1>4. CASE r = <<"viBind", 0>>
  <2>1. Undo(r) = VpssStop
    BY <1>4 DEF Undo
  <2>2. <<"viBind", 0>> \notin x /\ \A q \in x : q[1] # "bind"
    BY <1>4, BeforeOther
  <2> QED BY <1>1, <2>1, <2>2, VpssStops
<1>5. CASE \E n \in Numbers : r = <<"bind", n>>
  <2>1. PICK n \in Numbers : r = <<"bind", n>>
    BY <1>5
  <2>2. n \in Es \cup {Encoders} /\ n \in Int
    BY OwnIn, CaptureAssumption DEF Es
  <2>3. <<"bind", n>> \notin x
    BY <2>1, <2>2, BeforeOther
  <2>4. Undo(r) = Drops(<<<<"recv", n>>, <<"enc", n>>>>)
    BY <2>1 DEF Undo, StopVenc
  <2> DEFINE a == <<"recv", n>>
             b == <<"enc", n>>
  <2>5. Undo(r) = Drops(<<a, b>>) /\ a \in Resources \ InProcess /\ b \in Resources \ InProcess
    BY <2>2, <2>4 DEF Resources, InProcess
  <2>6. \A q \in x : a \notin Needs(q)
    BY <1>1, <2>2, Stands
  <2>7. \A q \in x : b \in Needs(q) => q = a
    BY <1>1, <2>2, <2>3, Stands
  <2> HIDE DEF a, b
  <2> QED BY <1>1, <2>5, <2>6, <2>7, StopsDropTwo
<1>6. CASE r[1] \in {"vb", "mipi", "sensor", "grp", "started", "layer", "enc", "recv"}
  <2>1. Undo(r) = <<>>
    BY <1>6 DEF Undo
  <2> QED BY <2>1, StopsNothing
<1>7. \/ \E v \in Vs : \E k \in {"dev", "pipe", "run", "chn", "isp", "ispRun"} : r = <<k, v>>
      \/ r = <<"sys", 0>> \/ r = <<"viBind", 0>> \/ \E n \in Numbers : r = <<"bind", n>>
      \/ r[1] \in {"vb", "mipi", "sensor", "grp", "started", "layer", "enc", "recv"}
  BY DEF Own
<1> QED BY <1>2, <1>3, <1>4, <1>5, <1>6, <1>7

\* Only the start of an ISP that fails stops one, and it stops this one.
LEMMA UndoStopsIsp ==
  ASSUME Configured, NEW r \in Own, NEW i \in DOMAIN Undo(r), Undo(r)[i].op = "stop"
  PROVE  r[1] \in {"isp", "ispRun"} /\ Undo(r)[i].res[2] = r[2]
<1> DEFINE none == {}
           drops == {"drop"}
           isp == {"isp", "ispRun"}
<1>1. Before(r, none) /\ "drop" \in drops /\ "stop" \notin drops /\ none \subseteq Resources
  BY DEF Before
<1>2. r[1] \in isp
  <2>1. SUFFICES ASSUME r[1] \notin isp PROVE FALSE
    OBVIOUS
  <2> HIDE DEF none, drops
  <2>2. Stops(Undo(r), drops, none)
    BY <1>1, <2>1, UndoStops
  <2> QED BY <1>1, <2>2 DEF Stops
<1>3. PICK v \in Vs : r = <<"isp", v>> \/ r = <<"ispRun", v>>
  BY <1>2 DEF Own
<1> DEFINE a == StopIsp(v)
           b == DestroyVi
           ops == {"stop", "drop"}
<1>4. Undo(r) = Then(a, b) /\ r[2] = v
  <2>1. r[1] \in {"isp", "ispRun"} /\ r[2] = v
    BY <1>3
  <2>2. Undo(r) = StopIsp(r[2]) \o DestroyVi
    BY <2>1 DEF Undo
  <2> QED BY <2>1, <2>2 DEF Then
<1>5. vis \in Nat /\ vis <= vis /\ v \in Int /\ vis >= 0
  BY CaptureAssumption DEF Configured, Vs
<1>6. a \in Seq(CallSet) /\ Len(a) = 1 /\ a[1] = C("stop", "stop", v)
  BY <1>5, OneCall DEF StopIsp, Mark, Ops, Names
<1>7. Stops(b, drops, none)
  <2>1. Unused(vis, none) /\ b = Each(vis, DestroySingleVi)
    BY DEF Unused, DestroyVi
  <2> HIDE DEF b, none, drops
  <2> QED BY <1>1, <1>5, <2>1, DestroyVisStop
<1>8. b \in Seq(CallSet) /\ \A k \in DOMAIN b : b[k].op # "stop"
  BY <1>1, <1>7 DEF Stops
<1> HIDE DEF a, b, none, drops, isp
<1> DEFINE n == Len(b)
<1>9. n \in Nat /\ Len(b) = n
  BY <1>8
<1> HIDE DEF n
<1>10. /\ DOMAIN b = 1 .. n /\ DOMAIN Then(a, b) = 1 .. 1 + n
       /\ \A k \in 1 .. 1 : Then(a, b)[k] = a[k]
       /\ \A k \in 2 .. 1 + n : Then(a, b)[k] = b[k - 1]
  <2>1. IsList(a, 1) /\ IsList(b, n) /\ 1 \in Nat
    <3>1. DOMAIN b = 1 .. n /\ DOMAIN a = 1 .. 1
      BY <1>6, <1>8, <1>9
    <3> QED BY <1>6, <1>8, <1>9, <3>1 DEF IsList
  <2>2. /\ IsList(Then(a, b), 1 + n)
        /\ \A k \in 1 .. 1 : Then(a, b)[k] = a[k]
        /\ \A k \in 1 .. n : Then(a, b)[1 + k] = b[k]
    BY <1>9, <2>1, ListThen
  <2>3. ASSUME NEW k \in 2 .. 1 + n PROVE Then(a, b)[k] = b[k - 1]
    <3>1. k - 1 \in 1 .. n /\ 1 + (k - 1) = k
      BY <1>9
    <3> QED BY <2>2, <3>1
  <2> QED BY <2>1, <2>2, <2>3, Zenon DEF IsList
<1>11. i = 1
  <2>1. SUFFICES ASSUME i # 1 PROVE FALSE
    OBVIOUS
  <2>2. i \in 2 .. 1 + n /\ i - 1 \in 1 .. n
    BY <1>4, <1>9, <1>10, <2>1
  <2> QED BY <1>4, <1>8, <1>10, <2>2
<1>12. Undo(r)[i] = C("stop", "stop", v)
  BY <1>4, <1>6, <1>10, <1>11
<1> QED BY <1>2, <1>4, <1>12 DEF C, isp

\* What the first p calls of boot make, since the last clear among them.
MadeBy(p, r) ==
  \E i \in 1 .. p :
    /\ Constructors[i].op = "make" /\ Constructors[i].res = r
    /\ \A k \in i .. p : Constructors[k].op # "clear"

\* Nothing of it comes after what the next call makes.
LEMMA MadeBelow ==
  ASSUME Configured, NEW p \in Nat, p < Reach, NEW n \in Nat, n = Len(Constructors), NEW c, c = Constructors[p + 1],
         c.op = "make", c.res \notin Idempotent,
         NEW q, q \notin Idempotent, MadeBy(p, q)
  PROVE  W(q) < W(c.res)
<1> DEFINE s == Constructors
           m == SysCalls
<1>1. m \in Nat /\ m = SysCalls /\ s = Constructors /\ n = Len(s)
  BY CaptureAssumption DEF SysCalls
<1>2. c = s[p + 1]
  OBVIOUS
<1> HIDE DEF s, m
<1>3. /\ m < n /\ m >= 3 /\ Reach \in m + 1 .. n
      /\ \A i \in 1 .. m : s[i] \in {C("clear", "clear", 0), C("make", "vb", 0), C("make", "sys", 0)}
      /\ \A i \in 1 .. m : s[i] = C("make", "vb", 0) => i > 1 /\ s[i - 1] = C("clear", "clear", 0)
      /\ \A i \in 1 .. m : s[i] = C("make", "sys", 0) =>
           i > 2 /\ s[i - 1] = C("make", "vb", 0) /\ s[i - 2] = C("clear", "clear", 0)
      /\ \A i \in m + 1 .. Reach : Weighs(s[i]) => W(s[i].res) \in Nat /\ W(s[i].res) >= 3
      /\ \A i, k \in m + 1 .. Reach : i < k /\ Weighs(s[i]) /\ Weighs(s[k]) => W(s[i].res) < W(s[k].res)
  <2>1. BootShape(s, m, n)
    BY <1>1, BootIs, Zenon
  <2> QED BY <2>1 DEF BootShape
<1>4. PICK i \in 1 .. p : s[i].op = "make" /\ s[i].res = q /\ \A k \in i .. p : s[k].op # "clear"
  BY <1>1 DEF MadeBy
<1>5. Weighs(c) /\ Weighs(s[i])
  BY <1>4 DEF Weighs
<1>6. W(<<"vb", 0>>) = 1 /\ W(<<"sys", 0>>) = 2
  BY DEF W
<1>7. /\ C("clear", "clear", 0).op = "clear"
      /\ C("make", "vb", 0).op = "make" /\ C("make", "vb", 0).res = <<"vb", 0>>
      /\ C("make", "sys", 0).op = "make" /\ C("make", "sys", 0).res = <<"sys", 0>>
  BY DEF C
<1>8. ASSUME NEW k \in 1 .. m, s[k].op = "make"
      PROVE  \/ s[k] = C("make", "vb", 0) /\ s[k].res = <<"vb", 0>>
             \/ s[k] = C("make", "sys", 0) /\ s[k].res = <<"sys", 0>>
  <2>1. s[k] \in {C("clear", "clear", 0), C("make", "vb", 0), C("make", "sys", 0)}
    BY <1>3
  <2>2. s[k] # C("clear", "clear", 0)
    BY <1>8, <1>7, Zenon
  <2> QED BY <1>7, <2>1, <2>2, Zenon
<1>9. CASE p + 1 <= m
  <2>1. p + 1 \in 1 .. m /\ p \in i .. p /\ (p + 1) - 1 = p /\ (p + 1) - 2 = p - 1
    BY <1>1, <1>9
  <2>2. s[p] # C("clear", "clear", 0)
    BY <1>4, <1>7, <2>1
  <2>3. s[p + 1] = C("make", "sys", 0) /\ c.res = <<"sys", 0>>
    BY <1>3, <1>2, <1>8, <2>1, <2>2
  <2>4. s[p] = C("make", "vb", 0) /\ s[p - 1] = C("clear", "clear", 0)
    BY <1>3, <2>1, <2>3
  <2>5. i = p
    <3>1. p - 1 \notin i .. p
      BY <1>4, <1>7, <2>4
    <3> QED BY <3>1
  <2>6. q = <<"vb", 0>>
    BY <1>4, <1>7, <2>4, <2>5
  <2> QED BY <1>6, <2>3, <2>6
<1>10. CASE m + 1 <= p + 1
  <2>1. p + 1 \in m + 1 .. Reach
    BY <1>1, <1>3, <1>10
  <2>2. W(c.res) \in Nat /\ W(c.res) >= 3
    BY <1>3, <1>2, <1>5, <2>1
  <2>3. CASE i \in 1 .. m
    <3>1. q = <<"vb", 0>> \/ q = <<"sys", 0>>
      BY <1>4, <1>8, <2>3
    <3> QED BY <1>6, <2>2, <3>1
  <2>4. CASE i \in m + 1 .. p
    <3>1. i \in m + 1 .. Reach /\ i < p + 1
      BY <1>1, <1>3, <2>1, <2>4
    <3> QED BY <1>3, <1>4, <1>2, <1>5, <2>1, <3>1
  <2> QED BY <1>1, <1>10, <2>3, <2>4
<1> QED BY <1>1, <1>9, <1>10

\* An encoder is unbound, stopped and destroyed, and its object freed.
LEMMA VencDestroyIs ==
  ASSUME Configured, NEW e \in Es
  PROVE  /\ IsList(VencDestroy(e), 4) /\ chans[e] \in Es \cup {Encoders} /\ chans[e] \in Numbers
         /\ VencDestroy(e)[1] = D("bind", chans[e], 0) /\ VencDestroy(e)[2] = D("recv", chans[e], 1)
         /\ VencDestroy(e)[3] = D("enc", chans[e], 0) /\ VencDestroy(e)[4] = C("free", "free", e)
<1> DEFINE v == chans[e]
           a == UnbindVenc(v)
           b == StopVenc(v)
           c == Mark("free", e)
<1>1. v \in Es \cup {Encoders} /\ v \in Numbers /\ v \in Int /\ e \in Int
  BY OwnIn, CaptureAssumption DEF Numbers, Es
<1> HIDE DEF v
<1>2. /\ IsList(a, 1) /\ a[1] = D("bind", v, 0)
      /\ IsList(b, 2) /\ b[1] = D("recv", v, 1) /\ b[2] = D("enc", v, 0)
      /\ IsList(c, 1) /\ c[1] = C("free", "free", e)
  <2>1. /\ {"bind", "recv", "enc", "free"} \subseteq Names /\ "free" \in Ops
        /\ <<"recv", v>> \in Names \X Int /\ <<"enc", v>> \in Names \X Int
    BY <1>1 DEF Names, Ops
  <2>2. IsList(a, 1) /\ a[1] = D("bind", v, 0)
    BY <1>1, <2>1, DropIs DEF UnbindVenc
  <2>3. IsList(c, 1) /\ c[1] = C("free", "free", e)
    BY <1>1, <2>1, OneCall DEF Mark, IsList
  <2>4. b = Drops(<<<<"recv", v>>, <<"enc", v>>>>)
    BY DEF StopVenc
  <2> HIDE DEF b
  <2>5. IsList(b, 2) /\ b[1] = D("recv", v, 1) /\ b[2] = D("enc", v, 0)
    BY <2>1, <2>4, DropsTwo DEF D
  <2> HIDE DEF a, c
  <2> QED BY <2>2, <2>3, <2>5
<1>3. VencDestroy(e) = Then(Then(a, b), c)
  BY DEF VencDestroy, Then, v
<1> HIDE DEF a, b, c
<1> DEFINE ab == Then(a, b)
<1>4. /\ IsList(ab, 1 + 2)
      /\ \A i \in 1 .. 1 : ab[i] = a[i]
      /\ \A i \in 1 .. 2 : ab[1 + i] = b[i]
  BY <1>2, ListThen
<1> HIDE DEF ab
<1>5. IsList(ab, 3) /\ ab[1] = a[1] /\ ab[2] = b[1] /\ ab[3] = b[2]
  BY <1>4
<1> DEFINE abc == Then(ab, c)
<1>6. /\ IsList(abc, 3 + 1)
      /\ \A i \in 1 .. 3 : abc[i] = ab[i]
      /\ \A i \in 1 .. 1 : abc[3 + i] = c[i]
  BY <1>2, <1>5, ListThen
<1> HIDE DEF abc
<1>7. IsList(abc, 4) /\ abc[1] = ab[1] /\ abc[2] = ab[2] /\ abc[3] = ab[3] /\ abc[4] = c[1]
  BY <1>6
<1>8. VencDestroy(e) = abc
  BY <1>3 DEF abc, ab
<1> QED BY <1>1, <1>2, <1>5, <1>7, <1>8 DEF v

\* All encoders are stopped, each before the next.
LEMMA VencsStop ==
  ASSUME Configured, NEW s, s = VencDestructor, NEW ops, "drop" \in ops, "free" \in ops, NEW x, x \subseteq Resources
  PROVE  /\ Stops(s, ops, x)
         /\ \A v \in Numbers : \A k \in {"bind", "recv", "enc"} : Takes(s, <<k, v>>)
<1> DEFINE n == Encoders
           m == 4 * n
<1>1. n \in Nat /\ n = Encoders /\ 4 * n \in Nat /\ n * 4 = 4 * n /\ Es = 0 .. n - 1
  BY CaptureAssumption DEF Es
<1> HIDE DEF n
<1>2. /\ DOMAIN s = 1 .. m /\ s = [j \in DOMAIN s |-> s[j]]
      /\ \A u \in 0 .. n - 1 : \A b \in 1 .. 4 : s[4 * u + b] = VencDestroy(u)[b]
  <2>1. s = Each(n, VencDestroy)
    BY <1>1 DEF VencDestructor
  <2>2. CASE n = 0
    <3>1. s = <<>>
      BY <2>1, <2>2 DEF Each
    <3>2. m = 0 /\ 1 .. 0 = {} /\ 0 .. n - 1 = {}
      BY <2>2
    <3>3. DOMAIN s = 1 .. m /\ s = [j \in DOMAIN s |-> s[j]]
      BY <3>1, <3>2
    <3> QED BY <3>2, <3>3
  <2>3. CASE n # 0
    <3>1. Len(VencDestroy(0)) = 4
      <4>1. 0 \in Es
        BY <1>1, <2>3
      <4> QED BY <4>1, VencDestroyIs DEF IsList
    <3>2. s = [j \in 1 .. n * 4 |-> VencDestroy((j - 1) \div 4)[((j - 1) % 4) + 1]]
      BY <2>1, <2>3, <3>1 DEF Each
    <3>3. ASSUME NEW u \in 0 .. n - 1, NEW b \in 1 .. 4 PROVE s[4 * u + b] = VencDestroy(u)[b]
      <4> DEFINE j == 4 * u + b
      <4>1. j \in 1 .. m /\ (j - 1) \div 4 = u /\ ((j - 1) % 4) + 1 = b
        BY <1>1
      <4> HIDE DEF j
      <4>2. s[j] = VencDestroy((j - 1) \div 4)[((j - 1) % 4) + 1]
        BY <1>1, <3>2, <4>1
      <4> QED BY <4>1, <4>2 DEF j
    <3>4. DOMAIN s = 1 .. m /\ s = [j \in DOMAIN s |-> s[j]]
      BY <1>1, <3>2
    <3> QED BY <3>3, <3>4
  <2> QED BY <2>2, <2>3
<1>3. m \in Nat /\ m = 4 * n
  BY <1>1
<1> HIDE DEF m
<1>4. \A v \in Numbers : v \in Es \cup {Encoders} /\ v \in Int
  BY OwnIn, CaptureAssumption DEF Es
<1>5. \A v \in Numbers : \A k \in {"bind", "recv", "enc"} : <<k, v>> \in Resources \ InProcess
  BY <1>4 DEF Resources, InProcess
<1>6. ASSUME NEW u \in 0 .. n - 1
      PROVE  /\ s[4 * u + 1] = D("bind", chans[u], 0) /\ s[4 * u + 2] = D("recv", chans[u], 1)
             /\ s[4 * u + 3] = D("enc", chans[u], 0) /\ s[4 * u + 4] = C("free", "free", u)
             /\ chans[u] \in Numbers /\ chans[u] \in Int /\ u \in Int
             /\ \A b \in 1 .. 4 : 4 * u + b \in 1 .. m
  <2>1. u \in Es /\ u \in Int /\ \A b \in 1 .. 4 : 4 * u + b \in 1 .. m
    BY <1>1, <1>3
  <2>2. s[4 * u + 1] = VencDestroy(u)[1] /\ s[4 * u + 2] = VencDestroy(u)[2]
        /\ s[4 * u + 3] = VencDestroy(u)[3] /\ s[4 * u + 4] = VencDestroy(u)[4]
    BY <1>2
  <2>3. /\ chans[u] \in Numbers
        /\ VencDestroy(u)[1] = D("bind", chans[u], 0) /\ VencDestroy(u)[2] = D("recv", chans[u], 1)
        /\ VencDestroy(u)[3] = D("enc", chans[u], 0) /\ VencDestroy(u)[4] = C("free", "free", u)
    BY <2>1, VencDestroyIs
  <2> QED BY <1>4, <2>1, <2>2, <2>3
<1>7. \A v \in Int : \A k \in {"bind", "recv", "enc"} : \A d \in {0, 1} :
        /\ D(k, v, d) \in CallSet /\ D(k, v, d).op = "drop" /\ D(k, v, d).res = <<k, v>> /\ D(k, v, d).skip = d
        /\ Removes(D(k, v, d), <<k, v>>)
  BY DEF D, CallSet, Ops, Names, Removes
<1>8. \A u \in Int : C("free", "free", u) \in CallSet /\ C("free", "free", u).op = "free"
  BY DEF C, CallSet, Ops, Names
<1>9. ASSUME NEW i \in 1 .. m
      PROVE  \E u \in 0 .. n - 1 :
               \/ s[i] = C("free", "free", u) /\ u \in Int
               \/ \E k \in {"bind", "recv", "enc"} : \E d \in {0, 1} :
                    /\ s[i] = D(k, chans[u], d) /\ i + d \in 1 .. m
                    /\ (k = "bind" => i = 4 * u + 1 /\ d = 0) /\ (k = "recv" => i = 4 * u + 2 /\ d = 1)
                    /\ (k = "enc" => i = 4 * u + 3 /\ d = 0)
  <2>1. PICK u \in 0 .. n - 1, b \in 1 .. 4 : i = 4 * u + b
    <3>1. i \in 1 .. 4 * n
      BY <1>3
    <3>2. n \in Nat
      BY <1>1
    <3>3. \E e \in 0 .. n - 1 : \E b \in 1 .. 4 : i = 4 * e + b
      BY ONLY <3>1, <3>2, Fourths
    <3> QED BY <3>3
  <2>2. b \in {1, 2, 3, 4}
    OBVIOUS
  <2>3. CASE b = 1
    BY <1>6, <2>1, <2>3
  <2>4. CASE b = 2
    <3>1. 4 * u + 3 \in 1 .. m /\ i + 1 = 4 * u + 3
      BY <1>6, <2>1, <2>4
    <3> QED BY <1>6, <2>1, <2>4, <3>1
  <2>5. CASE b = 3
    BY <1>6, <2>1, <2>5
  <2>6. CASE b = 4
    BY <1>6, <2>1, <2>6
  <2> QED BY <2>2, <2>3, <2>4, <2>5, <2>6
<1>10. \A j \in 1 .. m : s[j] \in CallSet
  <2>1. ASSUME NEW i \in 1 .. m PROVE s[i] \in CallSet
    <3>1. PICK u \in 0 .. n - 1 : \/ s[i] = C("free", "free", u) /\ u \in Int
                                 \/ \E k \in {"bind", "recv", "enc"} : \E d \in {0, 1} : s[i] = D(k, chans[u], d)
      BY <1>9
    <3>2. chans[u] \in Int
      BY <1>6
    <3> QED BY <1>7, <1>8, <3>1, <3>2
  <2> QED BY <2>1
<1>11. s \in Seq(CallSet) /\ Len(s) = m
  <2>1. DOMAIN s = 1 .. m /\ s = [j \in DOMAIN s |-> s[j]]
    BY <1>2
  <2> QED BY <1>3, <1>10, <2>1, ListIs
\* a drop is one of an encoder's three
<1>12. ASSUME NEW i \in DOMAIN s, s[i].op = "drop"
       PROVE  \E u \in 0 .. n - 1, k \in {"bind", "recv", "enc"}, d \in {0, 1} :
                    /\ s[i] = D(k, chans[u], d) /\ i + d \in 1 .. m
                    /\ (k = "bind" => i = 4 * u + 1 /\ d = 0) /\ (k = "recv" => i = 4 * u + 2 /\ d = 1)
                    /\ (k = "enc" => i = 4 * u + 3 /\ d = 0)
  <2>1. i \in 1 .. m
    BY <1>2
  <2>2. PICK u \in 0 .. n - 1 :
               \/ s[i] = C("free", "free", u) /\ u \in Int
               \/ \E k \in {"bind", "recv", "enc"} : \E d \in {0, 1} :
                    /\ s[i] = D(k, chans[u], d) /\ i + d \in 1 .. m
                    /\ (k = "bind" => i = 4 * u + 1 /\ d = 0) /\ (k = "recv" => i = 4 * u + 2 /\ d = 1)
                    /\ (k = "enc" => i = 4 * u + 3 /\ d = 0)
    BY <1>9, <2>1
  <2>3. ~(s[i] = C("free", "free", u) /\ u \in Int)
    BY <1>8, <1>12
  <2> QED BY <2>2, <2>3
<1>13. \A i \in DOMAIN s : s[i].op \in ops /\ (s[i].op = "drop" => s[i].res \in Resources \ InProcess)
  <2>1. ASSUME NEW i \in DOMAIN s, s[i].op = "drop" PROVE s[i].res \in Resources \ InProcess
    <3>1. PICK u \in 0 .. n - 1, k \in {"bind", "recv", "enc"}, d \in {0, 1} : s[i] = D(k, chans[u], d)
      BY <1>12, <2>1
    <3>2. chans[u] \in Numbers /\ chans[u] \in Int
      BY <1>6
    <3>3. s[i].res = <<k, chans[u]>>
      BY <1>7, <3>1, <3>2, ZenonT(40)
    <3>4. <<k, chans[u]>> \in Resources \ InProcess
      BY <1>5, <3>2, Zenon
    <3> QED BY <3>3, <3>4, Zenon
  <2>2. ASSUME NEW i \in DOMAIN s PROVE s[i].op \in ops
    <3>1. PICK u \in 0 .. n - 1 : \/ s[i] = C("free", "free", u) /\ u \in Int
                                 \/ \E k \in {"bind", "recv", "enc"} : \E d \in {0, 1} : s[i] = D(k, chans[u], d)
      BY <1>2, <1>9
    <3>2. chans[u] \in Int
      BY <1>6
    <3>3. s[i].op = "free" \/ s[i].op = "drop"
      <4>1. CASE s[i] = C("free", "free", u) /\ u \in Int
        BY <1>8, <4>1
      <4>2. CASE \E k \in {"bind", "recv", "enc"} : \E d \in {0, 1} : s[i] = D(k, chans[u], d)
        <5>1. PICK k \in {"bind", "recv", "enc"}, d \in {0, 1} : s[i] = D(k, chans[u], d)
          BY <4>2
        <5>2. D(k, chans[u], d).op = "drop"
          BY <1>7, <3>2, Zenon
        <5> QED BY <5>1, <5>2, Zenon
      <4> QED BY <3>1, <4>1, <4>2, Zenon
    <3> QED BY <3>3, Zenon
  <2> QED BY <2>1, <2>2
<1>14. Skips(s)
  <2>1. ASSUME NEW i \in DOMAIN s, s[i].op = "drop"
        PROVE  /\ s[i].skip \in Nat /\ i + s[i].skip <= Len(s)
               /\ \A k \in i .. i + s[i].skip : s[k].op = "drop"
    <3>1. PICK u \in 0 .. n - 1, k \in {"bind", "recv", "enc"}, d \in {0, 1} :
                    /\ s[i] = D(k, chans[u], d) /\ i + d \in 1 .. m
                    /\ (k = "bind" => i = 4 * u + 1 /\ d = 0) /\ (k = "recv" => i = 4 * u + 2 /\ d = 1)
                    /\ (k = "enc" => i = 4 * u + 3 /\ d = 0)
      BY <1>12, <2>1
    <3>2. s[i].skip = d /\ chans[u] \in Int
      BY <1>6, <1>7, <3>1
    <3> DEFINE t == s[i].skip
    <3>3. t = d /\ t \in Nat
      BY <3>2
    <3>4. d = 1 => s[i + 1].op = "drop"
      <4>1. d = 1 => i + 1 = 4 * u + 3 /\ s[4 * u + 3] = D("enc", chans[u], 0)
        BY <1>6, <3>1
      <4>2. "enc" \in {"bind", "recv", "enc"} /\ 0 \in {0, 1}
        OBVIOUS
      <4>3. D("enc", chans[u], 0).op = "drop"
        BY <1>7, <3>2, <4>2
      <4> QED BY <4>1, <4>3
    <3>5. i + d <= Len(s) /\ \A j \in i .. i + d : j = i \/ (d = 1 /\ j = i + 1)
      BY <1>2, <1>11, <3>1
    <3> HIDE DEF t
    <3>6. i + t <= Len(s) /\ \A j \in i .. i + t : s[j].op = "drop"
      BY <2>1, <3>3, <3>4, <3>5
    <3> QED BY <3>3, <3>6 DEF t
  <2> QED BY <2>1 DEF Skips
<1>15. Orderly(s, x)
  <2>1. ASSUME NEW i \in DOMAIN s, s[i].op = "drop", NEW r \in x, s[i].res \in Needs(r)
        PROVE  \E j \in 1 .. i - 1 : Removes(s[j], r)
    <3>1. PICK u \in 0 .. n - 1, k \in {"bind", "recv", "enc"}, d \in {0, 1} :
                    /\ s[i] = D(k, chans[u], d)
                    /\ (k = "enc" => i = 4 * u + 3 /\ d = 0)
      BY <1>12, <2>1
    <3> DEFINE v == chans[u]
    <3>2. v \in Int /\ r \in Resources
      BY <1>6
    <3>3. s[4 * u + 1] = D("bind", v, 0) /\ s[4 * u + 2] = D("recv", v, 1)
      BY <1>6
    <3> HIDE DEF v
    <3>4. <<k, v>> \in Needs(r)
      <4>1. s[i].res = <<k, v>>
        BY <1>7, <3>1, <3>2, ZenonT(40) DEF v
      <4> QED BY <2>1, <4>1, Zenon
    <3>5. k = "enc" /\ (r = <<"recv", v>> \/ r = <<"bind", v>>)
      BY <3>2, <3>4, Stands
    <3>6. 4 * u + 1 \in 1 .. i - 1 /\ 4 * u + 2 \in 1 .. i - 1
      BY <3>1, <3>5
    <3>7. Removes(s[4 * u + 1], <<"bind", v>>) /\ Removes(s[4 * u + 2], <<"recv", v>>)
      BY <1>7, <3>2, <3>3
    <3> QED BY <3>5, <3>6, <3>7, Zenon
  <2> QED BY <2>1 DEF Orderly
<1>16. ASSUME NEW v \in Numbers, NEW k \in {"bind", "recv", "enc"} PROVE Takes(s, <<k, v>>)
  <2>1. PICK u \in 0 .. n - 1 : v = chans[u]
    BY <1>1 DEF Numbers
  <2>2. /\ s[4 * u + 1] = D("bind", v, 0) /\ s[4 * u + 2] = D("recv", v, 1) /\ s[4 * u + 3] = D("enc", v, 0)
        /\ v \in Int /\ \A b \in 1 .. 4 : 4 * u + b \in DOMAIN s
    BY <1>2, <1>6, <2>1
  <2>3. Removes(s[4 * u + 1], <<"bind", v>>) /\ Removes(s[4 * u + 2], <<"recv", v>>) /\ Removes(s[4 * u + 3], <<"enc", v>>)
    BY <1>7, <2>2
  <2>4. 4 * u + 1 \in DOMAIN s /\ 4 * u + 2 \in DOMAIN s /\ 4 * u + 3 \in DOMAIN s
    BY <2>2
  <2> QED BY <2>3, <2>4, Zenon DEF Takes
<1> QED BY <1>11, <1>13, <1>14, <1>15, <1>16 DEF Stops

\* The system is released once for each of its objects, and that is all.
LEMMA SysStops ==
  ASSUME NEW s, s = SysDestructor, NEW ops, "clear" \in ops, NEW x
  PROVE  Stops(s, ops, x) /\ Len(s) \in Nat \ {0} /\ \A i \in DOMAIN s : s[i].op = "clear"
<1> DEFINE a == Mark("clear", 0)
           n == SysNum
<1>1. a \in Seq(CallSet) /\ Len(a) = 1 /\ a[1] = C("clear", "clear", 0)
  <2>1. "clear" \in Ops /\ "clear" \in Names /\ 0 \in Int
    BY DEF Ops, Names
  <2> QED BY <2>1, OneCall DEF Mark
<1>2. n \in Nat \ {0} /\ n * 1 = n /\ \A j \in 1 .. n : ((j - 1) % 1) + 1 = 1
  BY CaptureAssumption
<1>3. s = [j \in 1 .. n * 1 |-> a[((j - 1) % 1) + 1]]
  BY <1>1, CaptureAssumption DEF SysDestructor, SysDestroy, CommSysExit, Each
<1> HIDE DEF a, n
<1>4. DOMAIN s = 1 .. n /\ s = [j \in DOMAIN s |-> s[j]] /\ \A j \in 1 .. n : s[j] = C("clear", "clear", 0)
  BY <1>1, <1>2, <1>3
<1>5. C("clear", "clear", 0) \in CallSet /\ C("clear", "clear", 0).op = "clear"
  BY DEF C, CallSet, Ops, Names
<1>6. s \in Seq(CallSet) /\ Len(s) = n
  BY <1>2, <1>4, <1>5, ListIs
<1>7. \A i \in DOMAIN s : s[i].op = "clear"
  BY <1>4, <1>5
<1>8. Stops(s, ops, x)
  BY <1>6, <1>7 DEF Stops, Skips, Orderly
<1> QED BY <1>2, <1>6, <1>7, <1>8

\* The first of one list of calls.
LEMMA OnlyOne ==
  ASSUME NEW a, a \in Seq(CallSet), NEW n \in Nat \ {0}, n = Len(a)
  PROVE  [j \in 1 .. 1 * n |-> a[((j - 1) % n) + 1]] = a
<1>1. \A j \in 1 .. n : ((j - 1) % n) + 1 = j
  BY FirstBlocks
<1>2. DOMAIN a = 1 .. n /\ a = [j \in 1 .. n |-> a[j]] /\ 1 * n = n
  OBVIOUS
<1> QED BY <1>1, <1>2

\* One VI object stops its ISP, its VI and then the clocks.
LEMMA StopViStops ==
  ASSUME Configured, vis = 1, NEW ops, {"drop", "stop"} \subseteq ops,
         NEW x, x \subseteq Resources, <<"viBind", 0>> \notin x, \A v \in Int : <<"isp", v>> \in x => v = 0
  PROVE  /\ Stops(StopVi, ops, x) /\ Len(StopVi) \in Nat \ {0}
         /\ \A k \in {"dev", "pipe", "run", "chn", "isp", "ispRun"} : Takes(StopVi, <<k, 0>>)
         /\ Takes(StopVi, <<"sensor", 0>>) /\ Takes(StopVi, <<"mipi", 0>>)
<1> DEFINE a == DestroyIsp
           b == DestroyVi
           c == StopMipi
           y == x \ {<<"isp", 0>>}
           p == <<"sensor", 0>>
           q == <<"mipi", 0>>
<1>1. 0 \in Int /\ "drop" \in ops /\ "stop" \in ops
  OBVIOUS
<1>2. a = StopIsp(0)
  <2> DEFINE o == StopIsp(0)
  <2>1. DOMAIN o = 1 .. 1 /\ Len(o) = 1 /\ o \in Seq(CallSet)
    <3>1. "stop" \in Ops /\ "stop" \in Names /\ 0 \in Int
      BY DEF Ops, Names
    <3>2. o = Call("stop", "stop", 0)
      BY DEF StopIsp, Mark
    <3> QED BY <3>1, <3>2, OneCall
  <2>2. a = [j \in 1 .. 1 * 1 |-> StopIsp((j - 1) \div 1)[((j - 1) % 1) + 1]]
    BY <2>1, SMTT(40) DEF DestroyIsp, Each
  <2>3. \A j \in 1 .. 1 : j = 1 /\ (j - 1) \div 1 = 0 /\ ((j - 1) % 1) + 1 = 1
    OBVIOUS
  <2>4. a = [j \in 1 .. 1 |-> o[1]]
    BY <2>2, <2>3
  <2> HIDE DEF o
  <2>5. o = [j \in 1 .. 1 |-> o[1]]
    BY <2>1
  <2> QED BY <2>4, <2>5 DEF o
<1>3. /\ Stops(a, ops, x) /\ Takes(a, <<"isp", 0>>) /\ Takes(a, <<"ispRun", 0>>) /\ DOMAIN a = 1 .. 1
  BY <1>1, <1>2, StopsStop
<1>4. /\ Stops(b, ops, y)
      /\ \A k \in {"chn", "run", "pipe", "dev"} : Takes(b, <<k, 0>>)
  <2> DEFINE n == 1
  <2>1. n \in Nat /\ n <= vis /\ \A v \in 0 .. n - 1 : v = 0 /\ 0 \in 0 .. n - 1
    OBVIOUS
  <2>2. b = Each(n, DestroySingleVi)
    BY DEF DestroyVi
  <2>3. Unused(n, y)
    BY <2>1 DEF Unused
  <2>4. 0 \in 0 .. n - 1
    OBVIOUS
  <2> HIDE DEF n, b, y
  <2>5. Stops(b, ops, y) /\ \A v \in 0 .. n - 1 : \A k \in {"chn", "run", "pipe", "dev"} : Takes(b, <<k, v>>)
    BY <1>1, <2>1, <2>2, <2>3, DestroyVisStop
  <2> QED BY <2>5, <2>4
<1>5. Stops(c, ops, y) /\ Takes(c, p) /\ Takes(c, q)
  <2>1. c = Drops(<<p, q>>) /\ p \in Resources \ InProcess /\ q \in Resources \ InProcess
    BY DEF StopMipi, Resources, InProcess
  <2>2. \A r \in y : p \notin Needs(r)
    <3>1. ASSUME NEW r \in y, p \in Needs(r) PROVE FALSE
      <4>1. r[1] = "isp" /\ r \in Resources
        BY <1>1, <3>1, Stands
      <4>2. PICK v \in Int : r = <<"isp", v>>
        BY <4>1, CaptureAssumption DEF Resources
      <4> QED BY <3>1, <4>2
    <3> QED BY <3>1
  <2>3. \A r \in y : q \in Needs(r) => r = p
    BY <1>1, Stands
  <2> HIDE DEF p, q, c, y
  <2> QED BY <1>1, <2>1, <2>2, <2>3, StopsDropTwo
<1>6. StopVi = Then(Then(a, b), c)
  BY DEF StopVi, Then
<1>7. \A r \in x \ y : Takes(a, r)
  BY <1>3
<1> HIDE DEF a, b, c, y
<1>8. Stops(Then(a, b), ops, x)
  BY <1>3, <1>4, <1>7, StopsAfter
<1>9. a \in Seq(CallSet) /\ b \in Seq(CallSet) /\ c \in Seq(CallSet) /\ Then(a, b) \in Seq(CallSet)
  BY <1>3, <1>4, <1>5, <1>8 DEF Stops
<1>10. \A r : Takes(a, r) \/ Takes(b, r) => Takes(Then(a, b), r)
  BY <1>9, TakesThen, Zenon
<1>11. \A r \in x \ y : Takes(Then(a, b), r)
  BY <1>7, <1>10
<1> DEFINE d == Then(a, b)
<1>12. /\ Stops(d, ops, x) /\ d \in Seq(CallSet) /\ (\A r \in x \ y : Takes(d, r)) /\ StopVi = Then(d, c)
       /\ \A r : Takes(a, r) \/ Takes(b, r) => Takes(d, r)
  BY <1>6, <1>8, <1>9, <1>10, <1>11
<1> HIDE DEF d
<1>13. Stops(StopVi, ops, x)
  BY <1>5, <1>12, StopsAfter
<1>14. \A r : Takes(d, r) \/ Takes(c, r) => Takes(StopVi, r)
  BY <1>9, <1>12, TakesThen, Zenon
<1>15. \A k \in {"dev", "pipe", "run", "chn", "isp", "ispRun"} : Takes(StopVi, <<k, 0>>)
  <2>1. \A k \in {"dev", "pipe", "run", "chn", "isp", "ispRun"} :
          k \in {"chn", "run", "pipe", "dev"} \/ k = "isp" \/ k = "ispRun"
    OBVIOUS
  <2> QED BY <1>3, <1>4, <1>12, <1>14, <2>1, Zenon
<1>16. Takes(StopVi, p) /\ Takes(StopVi, q)
  BY <1>5, <1>14
<1>17. Len(StopVi) \in Nat \ {0}
  <2>1. StopVi \in Seq(CallSet)
    BY <1>13 DEF Stops
  <2>2. PICK j \in DOMAIN StopVi : TRUE
    BY <1>16 DEF Takes
  <2> HIDE DEF p, q
  <2> QED BY <2>1, <2>2
<1> QED BY <1>13, <1>15, <1>16, <1>17

\* Calls that stop something, in the part of exit before the system is released.
ExitOps == {"drop", "stop", "free"}

\* What a VPSS object stops.
LEMMA VpssDestroyStops ==
  ASSUME Configured, NEW x, x \subseteq Resources, \A r \in x : r[1] # "bind", NEW ops, "drop" \in ops
  PROVE  /\ Stops(VpssDestroy, ops, x)
         /\ \A l \in Ls : Takes(VpssDestroy, <<"layer", l>>)
         /\ Takes(VpssDestroy, <<"started", 0>>) /\ Takes(VpssDestroy, <<"grp", 0>>) /\ Takes(VpssDestroy, <<"viBind", 0>>)
<1> DEFINE a == Drop("viBind", 0)
           b == VpssStop
           z == <<"viBind", 0>>
           y == x \ {z}
<1>1. Stops(a, ops, x) /\ Takes(a, z)
  <2>1. "viBind" \in Names /\ 0 \in Int /\ z \in Resources \ InProcess
    BY DEF Names, Resources, InProcess
  <2>2. \A r \in x : z \notin Needs(r)
    <3>1. \A r \in Resources : z \notin Needs(r)
      BY <2>1, Stands
    <3> QED BY <3>1
  <2> QED BY <2>1, <2>2, StopsDrop
<1>2. /\ Stops(b, ops, y)
      /\ \A l \in Ls : Takes(b, <<"layer", l>>)
      /\ Takes(b, <<"started", 0>>) /\ Takes(b, <<"grp", 0>>)
  <2>1. y \subseteq Resources /\ z \notin y /\ \A r \in y : r[1] # "bind"
    OBVIOUS
  <2> HIDE DEF y, b
  <2> QED BY <2>1, VpssStops DEF b
<1>3. VpssDestroy = Then(a, b)
  BY DEF VpssDestroy, UnbindVpss, Then
<1>4. \A r \in x \ y : Takes(a, r)
  BY <1>1
<1> HIDE DEF a, b, y
<1>5. Stops(VpssDestroy, ops, x)
  BY <1>1, <1>2, <1>3, <1>4, StopsAfter
<1>6. a \in Seq(CallSet) /\ b \in Seq(CallSet)
  BY <1>1, <1>2 DEF Stops
<1>7. \A r : Takes(a, r) \/ Takes(b, r) => Takes(VpssDestroy, r)
  BY <1>3, <1>6, TakesThen, Zenon
<1> QED BY <1>1, <1>2, <1>5, <1>7, Zenon

\* With one VI object its destructor is its destruction.
LEMMA ViDestructorIs ==
  ASSUME Configured, vis = 1, StopVi \in Seq(CallSet), Len(StopVi) \in Nat \ {0}
  PROVE  ViDestructor = StopVi
<1> DEFINE s == StopVi
           n == Len(s)
<1>1. ViDestroy(0) = s /\ \A v : ViDestroy(v) = s
  BY DEF ViDestroy
<1>2. n \in Nat \ {0} /\ n = Len(s) /\ s \in Seq(CallSet)
  OBVIOUS
<1>3. ViDestructor = [j \in 1 .. 1 * n |-> s[((j - 1) % n) + 1]]
  BY <1>1 DEF ViDestructor, Each
<1> HIDE DEF s, n
<1> QED BY <1>2, <1>3, OnlyOne DEF s

\* Exit up to there stops everything that boot makes.
LEMMA FrontStops ==
  ASSUME Configured, vis = 1, NEW f, f = Then(Then(VencDestructor, VpssDestroy), ViDestructor)
  PROVE  /\ Stops(f, ExitOps, Own)
         /\ \A r \in Own : r = <<"vb", 0>> \/ r = <<"sys", 0>> \/ Takes(f, r)
<1> DEFINE a == VencDestructor
           b == VpssDestroy
           c == ViDestructor
           encs == {"enc", "recv", "bind"} \X Numbers
           vpss == ({"grp", "started", "viBind"} \X {0}) \cup ({"layer"} \X Ls)
           vi == ({"dev", "pipe", "run", "chn", "isp", "ispRun"} \X {0}) \cup ({"sensor", "mipi"} \X {0})
           x == Own
           y == x \ encs
           z == y \ vpss
<1>1. /\ "drop" \in ExitOps /\ "free" \in ExitOps /\ {"drop", "stop"} \subseteq ExitOps
      /\ x \subseteq Resources /\ Vs = {0}
  BY OwnIn DEF ExitOps, Vs
<1>2. Stops(a, ExitOps, x) /\ \A r \in encs : Takes(a, r)
  <2>1. /\ Stops(a, ExitOps, x)
        /\ \A v \in Numbers : \A k \in {"bind", "recv", "enc"} : Takes(a, <<k, v>>)
    BY <1>1, VencsStop
  <2>2. \A r \in encs : \E v \in Numbers : \E k \in {"bind", "recv", "enc"} : r = <<k, v>>
    OBVIOUS
  <2> HIDE DEF a, encs, x
  <2> QED BY <2>1, <2>2, Zenon
<1>3. Stops(b, ExitOps, y) /\ \A r \in vpss : Takes(b, r)
  <2>1. y \subseteq Resources /\ \A r \in y : r[1] # "bind"
    BY <1>1 DEF Own
  <2> HIDE DEF x, y
  <2>2. /\ Stops(b, ExitOps, y)
        /\ \A l \in Ls : Takes(b, <<"layer", l>>)
        /\ Takes(b, <<"started", 0>>) /\ Takes(b, <<"grp", 0>>) /\ Takes(b, <<"viBind", 0>>)
    BY <1>1, <2>1, VpssDestroyStops
  <2> HIDE DEF b
  <2>3. \A r \in vpss : (\E l \in Ls : r = <<"layer", l>>) \/ r = <<"started", 0>> \/ r = <<"grp", 0>> \/ r = <<"viBind", 0>>
    OBVIOUS
  <2> HIDE DEF vpss
  <2>4. ASSUME NEW r \in vpss PROVE Takes(b, r)
    <3>1. CASE \E l \in Ls : r = <<"layer", l>>
      <4>1. PICK l \in Ls : r = <<"layer", l>>
        BY <3>1
      <4>2. Takes(b, <<"layer", l>>)
        BY <2>2
      <4> QED BY <4>1, <4>2
    <3>2. CASE r = <<"started", 0>>
      <4>1. Takes(b, <<"started", 0>>)
        BY <2>2
      <4> QED BY <3>2, <4>1
    <3>3. CASE r = <<"grp", 0>>
      <4>1. Takes(b, <<"grp", 0>>)
        BY <2>2
      <4> QED BY <3>3, <4>1
    <3>4. CASE r = <<"viBind", 0>>
      <4>1. Takes(b, <<"viBind", 0>>)
        BY <2>2
      <4> QED BY <3>4, <4>1
    <3> QED BY <2>3, <3>1, <3>2, <3>3, <3>4
  <2> QED BY <2>2, <2>4
<1>4. Stops(c, ExitOps, z) /\ \A r \in vi : Takes(c, r)
  <2>1. /\ z \subseteq Resources /\ <<"viBind", 0>> \notin z
    BY <1>1
  <2>2. \A v \in Int : <<"isp", v>> \in z => v = 0
    BY <1>1 DEF Own
  <2> HIDE DEF x, y, z
  <2>3. /\ Stops(StopVi, ExitOps, z) /\ Len(StopVi) \in Nat \ {0}
        /\ \A k \in {"dev", "pipe", "run", "chn", "isp", "ispRun"} : Takes(StopVi, <<k, 0>>)
        /\ Takes(StopVi, <<"sensor", 0>>) /\ Takes(StopVi, <<"mipi", 0>>)
    BY <1>1, <2>1, <2>2, StopViStops
  <2>4. StopVi \in Seq(CallSet)
    BY <2>3 DEF Stops
  <2>5. c = StopVi
    BY <2>3, <2>4, ViDestructorIs
  <2>6. \A r \in vi : \/ \E k \in {"dev", "pipe", "run", "chn", "isp", "ispRun"} : r = <<k, 0>>
                    \/ r = <<"sensor", 0>> \/ r = <<"mipi", 0>>
    OBVIOUS
  <2> HIDE DEF c, vi
  <2> QED BY <2>3, <2>5, <2>6
<1>5. \A r \in x : r \in encs \/ r \in vpss \/ r \in vi \/ r = <<"vb", 0>> \/ r = <<"sys", 0>>
  BY <1>1 DEF Own
<1>6. (\A r \in x \ y : r \in encs) /\ (\A r \in x \ z : r \in encs \/ r \in vpss)
  OBVIOUS
<1>7. f = Then(Then(a, b), c)
  OBVIOUS
<1> HIDE DEF a, b, c, encs, vpss, vi, x, y, z
<1>8. Stops(Then(a, b), ExitOps, x)
  BY <1>2, <1>3, <1>6, StopsAfter
<1>9. a \in Seq(CallSet) /\ b \in Seq(CallSet) /\ c \in Seq(CallSet) /\ Then(a, b) \in Seq(CallSet)
  BY <1>2, <1>3, <1>4, <1>8 DEF Stops
<1>10. \A r : Takes(a, r) \/ Takes(b, r) => Takes(Then(a, b), r)
  BY <1>9, TakesThen, Zenon
<1> DEFINE ab == Then(a, b)
<1>11. \A r \in x \ z : Takes(ab, r)
  BY <1>2, <1>3, <1>6, <1>10
<1>12. Stops(ab, ExitOps, x) /\ ab \in Seq(CallSet) /\ f = Then(ab, c)
  BY <1>7, <1>8, <1>9
<1>13. \A r \in encs \cup vpss : Takes(ab, r)
  BY <1>2, <1>3, <1>10
<1> HIDE DEF ab
<1>14. Stops(f, ExitOps, x)
  BY <1>4, <1>11, <1>12, StopsAfter
<1>15. \A r : Takes(ab, r) \/ Takes(c, r) => Takes(f, r)
  BY <1>9, <1>12, TakesThen, Zenon
<1>16. \A r \in x : r = <<"vb", 0>> \/ r = <<"sys", 0>> \/ Takes(f, r)
  <2>1. ASSUME NEW r \in x PROVE r = <<"vb", 0>> \/ r = <<"sys", 0>> \/ Takes(f, r)
    <3>1. CASE r \in encs \/ r \in vpss
      BY <1>13, <1>15, <3>1
    <3>2. CASE r \in vi
      BY <1>4, <1>15, <3>2
    <3> QED BY <1>5, <3>1, <3>2
  <2> QED BY <2>1
<1> QED BY <1>14, <1>16 DEF x

\* A call stops r, or releases the system with it.
Covers(c, r) == Removes(c, r) \/ (c.op = "clear" /\ r \in {<<"vb", 0>>, <<"sys", 0>>})

\* The destructors stop all that boot makes, in order, and release the system last.
LEMMA DestructorsStop ==
  ASSUME Configured, vis = 1, NEW d, d = Destructors
  PROVE  /\ Stops(d, ExitOps \cup {"clear"}, Own)
         /\ \A r \in Own : \E i \in DOMAIN d : Covers(d[i], r)
         /\ \A i, k \in DOMAIN d : i < k /\ d[i].op = "clear" => d[k].op = "clear"
<1> DEFINE f == Then(Then(VencDestructor, VpssDestroy), ViDestructor)
           s == SysDestructor
           ops == ExitOps \cup {"clear"}
           x == Own
           m == Len(f)
           n == Len(s)
<1>1. /\ d = Then(f, s) /\ x \subseteq x /\ ExitOps \subseteq ops /\ "clear" \in ops /\ "clear" \notin ExitOps
  BY DEF Destructors, Then, ExitOps
<1>2. /\ Stops(f, ExitOps, x)
      /\ \A r \in x : r = <<"vb", 0>> \/ r = <<"sys", 0>> \/ Takes(f, r)
  BY FrontStops
<1>3. Stops(s, ops, x) /\ n \in Nat \ {0} /\ \A i \in DOMAIN s : s[i].op = "clear"
  BY <1>1, SysStops
<1> HIDE DEF f, s, x, ops
<1>4. Stops(f, ops, x)
  BY <1>1, <1>2, StopsFewer
<1>5. Stops(d, ops, x)
  BY <1>1, <1>3, <1>4, StopsAnyway
<1>6. /\ f \in Seq(CallSet) /\ s \in Seq(CallSet) /\ m \in Nat /\ Len(f) = m /\ Len(s) = n
      /\ \A i \in DOMAIN f : f[i].op \in ExitOps
  BY <1>2, <1>3 DEF Stops
<1> HIDE DEF m, n
<1>7. /\ DOMAIN f = 1 .. m /\ DOMAIN s = 1 .. n /\ DOMAIN d = 1 .. m + n
      /\ \A i \in 1 .. m : d[i] = f[i]
      /\ \A i \in m + 1 .. m + n : d[i] = s[i - m]
  <2>1. IsThen(d, f, s, m, n)
    BY <1>1, <1>3, <1>6, ThenIs
  <2> QED BY <2>1 DEF IsThen
<1>8. \A i \in m + 1 .. m + n : d[i].op = "clear"
  <2>1. \A i \in m + 1 .. m + n : i - m \in 1 .. n
    BY <1>3, <1>6
  <2> QED BY <1>3, <1>7, <2>1
<1>9. \A i \in 1 .. m : d[i].op # "clear"
  BY <1>1, <1>6, <1>7
<1>10. \A i, k \in DOMAIN d : i < k /\ d[i].op = "clear" => d[k].op = "clear"
  <2>1. ASSUME NEW i \in DOMAIN d, NEW k \in DOMAIN d, i < k, d[i].op = "clear" PROVE d[k].op = "clear"
    <3>1. i \in m + 1 .. m + n
      BY <1>6, <1>3, <1>7, <1>9, <2>1
    <3>2. k \in m + 1 .. m + n
      BY <1>6, <1>3, <1>7, <2>1, <3>1
    <3> QED BY <1>8, <3>2
  <2> QED BY <2>1
<1>11. ASSUME NEW r \in x PROVE \E i \in DOMAIN d : Covers(d[i], r)
  <2>1. CASE r = <<"vb", 0>> \/ r = <<"sys", 0>>
    <3>1. m + n \in DOMAIN d /\ d[m + n].op = "clear"
      BY <1>3, <1>6, <1>7, <1>8
    <3> QED BY <2>1, <3>1 DEF Covers
  <2>2. CASE Takes(f, r)
    <3>1. PICK i \in 1 .. m : Removes(f[i], r)
      BY <1>7, <2>2 DEF Takes
    <3>2. i \in DOMAIN d /\ Removes(d[i], r)
      BY <1>3, <1>6, <1>7, <3>1
    <3> QED BY <3>2 DEF Covers
  <2> QED BY <1>2, <2>1, <2>2
<1> QED BY <1>5, <1>10, <1>11 DEF x, ops
-----------------------------------------------------------------------------
(***************************************************************************)
(* The invariant                                                           *)
(***************************************************************************)
\* What is left of a list of calls after the first n of them.
Rest(s, n) == SubSeq(s, n + 1, Len(s))

\* What the driver holds on behalf of a function that has not failed to stop it.
Standing == up \ (stuck \cup Touched)

\* The constructors made p calls of boot, and none failed: the driver holds what
\* they make, and nothing else once the first of them released it.
BootAt(p) ==
  /\ p \in Nat /\ p <= Len(Constructors)
  /\ todo = Rest(Constructors, p)
  /\ vis > 1 => p < Second
  /\ \A r \in Resources : MadeBy(p, r) => r \in up
  /\ p > 0 => \A r \in up \ (stuck \cup Idempotent) : MadeBy(p, r)
  /\ p = 0 => up \cap InProcess = {}
  /\ found = FALSE
  /\ pump.at # "none" => p = Len(Constructors)

\* A call of boot failed: what the functions undo is left, and then the abort.
FailOps == {"drop", "stop", "die"}
Dies(t, x) == Stops(t, FailOps, x) /\ t # <<>> /\ t[Len(t)].op = "die"
Failing ==
  /\ Dies(todo, Standing \ InProcess)
  /\ \A i \in DOMAIN todo : todo[i].op = "stop" => <<"ispRun", todo[i].res[2]>> \notin up
  /\ pump.at = "none"

\* A process that reached main has made all that boot makes.
UpOK ==
  /\ vis = 1 /\ found = FALSE /\ todo = <<>> /\ objs = Es
  /\ \A c \in Calls(Constructors) : c.op = "make" => c.res \in up \cup Touched
  /\ up \ stuck \subseteq Own

\* The destructors have left to stop what the driver still holds.
Exiting ==
  /\ vis = 1 /\ found = FALSE
  /\ Stops(todo, ExitOps \cup {"clear"}, Standing)
  /\ \A i, k \in DOMAIN todo : i < k /\ todo[i].op = "clear" => todo[k].op = "clear"
  /\ \A r \in Standing : \E i \in DOMAIN todo : Covers(todo[i], r)
  /\ \A v \in 0 .. MaxVis - 1 : <<"isp", v>> \in up => <<"ispRun", v>> \in up

\* The types of the rest.
Held ==
  /\ up \subseteq Resources /\ stuck \subseteq Resources
  /\ touched \subseteq Ls /\ objs \subseteq Es /\ found \in BOOLEAN
  /\ stuck \cap InProcess = {}
  /\ refusals \in Nat
\* The pump does not end without a cause.
PumpOK ==
  /\ pump \in [at : {"none", "arm", "wait", "hold", "ended"}, i : 0 .. Encoders]
  /\ pump.at = "ended" => refusals > 0 \/ proc \notin {"boot", "up"} \/ \E e \in Es : {ids[e], chans[e]} # {e}
\* Everything stands on what it needs, but for the ISPs while the failed start of one
\* takes the pipes from under them.
StandsOn == \A r \in Standing : Needs(r) \subseteq up \cup Touched \/ IspOrphaned(r)
\* What a process has done, and has left to do.
Phase ==
  /\ proc \in {"down", "boot", "up", "exit", "hung"}
  /\ proc = "down" => todo = <<>> /\ pump.at = "none" /\ up \cap InProcess = {}
  /\ proc = "boot" => objs = Es /\ (Failing \/ \E p \in 0 .. Len(Constructors) : BootAt(p))
  /\ proc = "up" => UpOK
  /\ proc \in {"exit", "hung"} => Exiting
\* The inductive invariant of the chain.
ChainInv ==
  /\ Configured /\ Held /\ PumpOK /\ StandsOn /\ Phase
  /\ found => vis > 1 \/ stuck # {}

\* What is left of a list.
LEMMA RestIs ==
  ASSUME NEW s, s \in Seq(CallSet), NEW n \in Nat, n <= Len(s)
  PROVE  /\ Rest(s, n) \in Seq(CallSet) /\ Len(Rest(s, n)) = Len(s) - n
         /\ DOMAIN Rest(s, n) = 1 .. Len(s) - n
         /\ \A i \in 1 .. Len(s) - n : Rest(s, n)[i] = s[n + i]
         /\ Rest(s, n) = <<>> <=> n = Len(s)
<1> DEFINE l == Len(s)
           q == Rest(s, n)
<1>1. l \in Nat /\ n <= l
  OBVIOUS
<1>2. q \in Seq(CallSet) /\ Len(q) = l - n /\ \A i \in 1 .. l - n : q[i] = s[n + i]
  BY DEF Rest
<1>3. DOMAIN q = 1 .. l - n
  BY <1>2
<1>4. q = <<>> <=> n = l
  <2> HIDE DEF q, l
  <2>1. q = <<>> <=> Len(q) = 0
    BY <1>2
  <2> QED BY <1>1, <1>2, <2>1
<1> QED BY <1>2, <1>3, <1>4

\* Taking the first call, or the first calls of what is left.
LEMMA RestRest ==
  ASSUME NEW s, s \in Seq(CallSet), NEW p \in Nat, p < Len(s)
  PROVE  /\ Rest(s, p) # <<>> /\ Head(Rest(s, p)) = s[p + 1] /\ Tail(Rest(s, p)) = Rest(s, p + 1)
         /\ Rest(s, 0) = s
<1> DEFINE l == Len(s)
           q == Rest(s, p)
           t == Rest(s, p + 1)
<1>1. l \in Nat /\ p < l /\ p + 1 \in Nat /\ p + 1 <= l /\ p <= l /\ s \in Seq(CallSet)
  OBVIOUS
<1>2. q \in Seq(CallSet) /\ Len(q) = l - p /\ \A i \in 1 .. l - p : q[i] = s[p + i]
  BY <1>1, RestIs
<1>3. t \in Seq(CallSet) /\ Len(t) = l - (p + 1) /\ \A i \in 1 .. l - (p + 1) : t[i] = s[(p + 1) + i]
  BY <1>1, RestIs
<1>4. Rest(s, 0) = s
  BY DEF Rest
<1> HIDE DEF l, q, t
<1>5. q # <<>> /\ Head(q) = q[1] /\ q[1] = s[p + 1]
  <2>1. 1 \in 1 .. l - p /\ Len(q) # 0
    BY <1>1, <1>2
  <2> QED BY <1>2, <2>1
<1>6. Tail(q) = t
  <2>1. Tail(q) \in Seq(CallSet) /\ Len(Tail(q)) = l - (p + 1) /\ \A i \in 1 .. l - (p + 1) : Tail(q)[i] = q[i + 1]
    BY <1>1, <1>2, <1>5
  <2>2. \A i \in 1 .. l - (p + 1) : q[i + 1] = s[(p + 1) + i]
    <3>1. \A i \in 1 .. l - (p + 1) : i + 1 \in 1 .. l - p /\ p + (i + 1) = (p + 1) + i
      BY <1>1
    <3> QED BY <1>2, <3>1
  <2> DEFINE u == Tail(q)
  <2> HIDE DEF u
  <2>3. u \in Seq(CallSet) /\ Len(u) = l - (p + 1) /\ \A i \in 1 .. l - (p + 1) : u[i] = q[i + 1]
    BY <2>1 DEF u
  <2>4. \A i \in 1 .. l - (p + 1) : u[i] = t[i]
    BY <1>3, <2>2, <2>3
  <2>5. u = t
    BY <1>3, <2>3, <2>4
  <2> QED BY <2>5 DEF u
<1> QED BY <1>4, <1>5, <1>6 DEF q, t

\* Stopping the rest, when the first n calls removed it or it is not there any more.
LEMMA StopsRest ==
  ASSUME NEW s, NEW ops, NEW x, Stops(s, ops, x), NEW n \in Nat, n <= Len(s),
         NEW y, y \subseteq x, \A r \in y : \A j \in 1 .. n : ~Removes(s[j], r)
  PROVE  Stops(Rest(s, n), ops, y)
<1> DEFINE l == Len(s)
           q == Rest(s, n)
<1>1. /\ s \in Seq(CallSet) /\ l \in Nat /\ n <= l /\ DOMAIN s = 1 .. l /\ Len(s) = l
  BY DEF Stops
<1>2. q \in Seq(CallSet) /\ Len(q) = l - n /\ DOMAIN q = 1 .. l - n /\ \A i \in 1 .. l - n : q[i] = s[n + i]
  BY <1>1, RestIs
<1> HIDE DEF l, q
<1>3. \A i \in 1 .. l - n : n + i \in 1 .. l
  BY <1>1
<1>4. \A i \in DOMAIN q : q[i].op \in ops /\ (q[i].op = "drop" => q[i].res \in Resources \ InProcess)
  <2>1. \A i \in 1 .. l : s[i].op \in ops /\ (s[i].op = "drop" => s[i].res \in Resources \ InProcess)
    BY <1>1 DEF Stops
  <2> QED BY <1>2, <1>3, <2>1
<1>5. Skips(q)
  <2>1. ASSUME NEW i \in DOMAIN q, q[i].op = "drop"
        PROVE  /\ q[i].skip \in Nat /\ i + q[i].skip <= Len(q)
               /\ \A k \in i .. i + q[i].skip : q[k].op = "drop"
    <3> DEFINE t == s[n + i].skip
    <3>1. /\ t \in Nat /\ (n + i) + t <= l
          /\ \A k \in n + i .. (n + i) + t : s[k].op = "drop"
      BY <1>1, <1>2, <1>3, <2>1 DEF Stops, Skips
    <3>2. q[i].skip = t
      BY <1>2
    <3> HIDE DEF t
    <3>3. i + t <= l - n /\ \A k \in i .. i + t : n + k \in n + i .. (n + i) + t /\ k \in 1 .. l - n
      BY <1>1, <1>2, <3>1
    <3>4. ASSUME NEW k \in i .. i + t PROVE q[k].op = "drop"
      BY <1>2, <3>1, <3>3
    <3>5. Len(q) = l - n
      BY <1>2
    <3> QED BY <3>1, <3>2, <3>3, <3>4, <3>5
  <2> QED BY <2>1 DEF Skips
<1>6. Orderly(q, y)
  <2>1. ASSUME NEW i \in DOMAIN q, q[i].op = "drop", NEW r \in y, q[i].res \in Needs(r)
        PROVE  \E j \in 1 .. i - 1 : Removes(q[j], r)
    <3>1. s[n + i].op = "drop" /\ s[n + i].res \in Needs(r) /\ r \in x /\ n + i \in DOMAIN s
      BY <1>1, <1>2, <1>3, <2>1
    <3>2. PICK j \in 1 .. (n + i) - 1 : Removes(s[j], r)
      BY <3>1 DEF Stops, Orderly
    <3>3. ~(j \in 1 .. n)
      BY <3>2
    <3>4. j - n \in 1 .. i - 1 /\ j - n \in 1 .. l - n /\ n + (j - n) = j
      BY <1>1, <1>2, <3>3
    <3> QED BY <1>2, <3>2, <3>4
  <2> QED BY <2>1 DEF Orderly
<1> QED BY <1>2, <1>4, <1>5, <1>6 DEF Stops, q

\* A call of boot.
LEMMA BootCall ==
  ASSUME Configured, NEW c, c = Constructors, NEW n \in Nat, n = Len(c), NEW i \in 1 .. n
  PROVE  /\ c[i] \in CallSet /\ c[i].op \in {"make", "param", "clear", "pump"}
         /\ c[i].op = "make" => c[i].res \in Own
         /\ c[i].op = "param" => c[i].res[1] = "param"
         /\ c[i].op = "pump" => i = n
         /\ c[1].op = "clear" /\ n > 1
<1> DEFINE m == SysCalls
<1>1. m \in Nat /\ m = SysCalls
  BY CaptureAssumption DEF SysCalls
<1> HIDE DEF m
<1>2. BootShape(c, m, n)
  BY <1>1, BootIs, Zenon
<1>3. /\ c \in Seq(CallSet) /\ m < n /\ m >= 3
      /\ \A k \in 1 .. m : c[k] \in {C("clear", "clear", 0), C("make", "vb", 0), C("make", "sys", 0)}
      /\ \A k \in 1 .. m : c[k] = C("make", "vb", 0) => k > 1
      /\ \A k \in 1 .. m : c[k] = C("make", "sys", 0) => k > 2
      /\ \A k \in m + 1 .. n - 1 : OfBoot(c[k])
      /\ c[n] = C("pump", "pump", 0)
  BY <1>2 DEF BootShape
<1>4. /\ C("clear", "clear", 0).op = "clear" /\ C("pump", "pump", 0).op = "pump"
      /\ C("make", "vb", 0).op = "make" /\ C("make", "vb", 0).res = <<"vb", 0>>
      /\ C("make", "sys", 0).op = "make" /\ C("make", "sys", 0).res = <<"sys", 0>>
  BY DEF C
<1>5. <<"vb", 0>> \in Own /\ <<"sys", 0>> \in Own
  BY DEF Own
<1>6. c[1].op = "clear"
  <2>1. 1 \in 1 .. m
    BY <1>1, <1>3
  <2>2. c[1] = C("clear", "clear", 0)
    BY <1>3, <2>1
  <2> QED BY <1>4, <2>2
<1>7. c[i] \in CallSet
  BY <1>3
<1>8. i \in 1 .. m \/ i \in m + 1 .. n - 1 \/ i = n
  BY <1>1, <1>3
<1>9. CASE i \in 1 .. m
  <2>1. c[i] = C("clear", "clear", 0) \/ c[i] = C("make", "vb", 0) \/ c[i] = C("make", "sys", 0)
    BY <1>3, <1>9
  <2>2. n > 1
    BY <1>1, <1>3
  <2>3. c[i].op \in {"make", "clear"} /\ (c[i].op = "make" => c[i].res = <<"vb", 0>> \/ c[i].res = <<"sys", 0>>)
    BY <1>4, <2>1
  <2> QED BY <1>5, <1>6, <1>7, <2>2, <2>3
<1>10. CASE i \in m + 1 .. n - 1
  <2>1. OfBoot(c[i])
    BY <1>3, <1>10
  <2> QED BY <1>1, <1>3, <1>6, <1>7, <2>1 DEF OfBoot
<1>11. CASE i = n
  BY <1>1, <1>3, <1>4, <1>6, <1>7, <1>11
<1> QED BY <1>8, <1>9, <1>10, <1>11

\* How what boot has made grows with a call.
LEMMA MadeNext ==
  ASSUME Configured, NEW c, c = Constructors, NEW n \in Nat, n = Len(c), NEW p \in Nat, p < n, NEW r
  PROVE  /\ ~MadeBy(0, r)
         /\ c[p + 1].op = "clear" => ~MadeBy(p + 1, r)
         /\ c[p + 1].op # "clear" => (MadeBy(p + 1, r) <=> MadeBy(p, r) \/ (c[p + 1].op = "make" /\ c[p + 1].res = r))
<1>1. \A i \in 1 .. p + 1 : p + 1 \in i .. p + 1
  OBVIOUS
<1>2. ~MadeBy(0, r)
  BY DEF MadeBy
<1>3. c[p + 1].op = "clear" => ~MadeBy(p + 1, r)
  BY <1>1 DEF MadeBy
<1>4. ASSUME c[p + 1].op # "clear", MadeBy(p + 1, r)
      PROVE  MadeBy(p, r) \/ (c[p + 1].op = "make" /\ c[p + 1].res = r)
  <2>1. PICK i \in 1 .. p + 1 : c[i].op = "make" /\ c[i].res = r /\ \A k \in i .. p + 1 : c[k].op # "clear"
    BY <1>4 DEF MadeBy
  <2>2. CASE i = p + 1
    BY <2>1, <2>2
  <2>3. CASE i # p + 1
    <3>1. i \in 1 .. p /\ \A k \in i .. p : k \in i .. p + 1
      BY <2>3
    <3> QED BY <2>1, <3>1 DEF MadeBy
  <2> QED BY <2>2, <2>3
<1>5. ASSUME c[p + 1].op # "clear", MadeBy(p, r) PROVE MadeBy(p + 1, r)
  <2>1. PICK i \in 1 .. p : c[i].op = "make" /\ c[i].res = r /\ \A k \in i .. p : c[k].op # "clear"
    BY <1>5 DEF MadeBy
  <2>2. i \in 1 .. p + 1 /\ \A k \in i .. p + 1 : k \in i .. p \/ k = p + 1
    OBVIOUS
  <2> QED BY <1>5, <2>1, <2>2 DEF MadeBy
<1>6. ASSUME c[p + 1].op = "make", c[p + 1].res = r PROVE MadeBy(p + 1, r)
  <2>1. p + 1 \in 1 .. p + 1 /\ \A k \in p + 1 .. p + 1 : k = p + 1
    OBVIOUS
  <2> QED BY <1>6, <2>1 DEF MadeBy
<1> QED BY <1>2, <1>3, <1>4, <1>5, <1>6

\* Boot makes what the configuration has, and only the pools and the system before
\* a clear.
LEMMA MadeOwn ==
  ASSUME Configured, NEW c, c = Constructors, NEW n \in Nat, n = Len(c), NEW p \in Nat, p <= n, NEW r, MadeBy(p, r)
  PROVE  /\ r \in Own
         /\ p < n /\ c[p + 1].op = "clear" => r = <<"vb", 0>> \/ r = <<"sys", 0>>
<1> DEFINE m == SysCalls
<1>1. m \in Nat /\ m = SysCalls
  BY CaptureAssumption DEF SysCalls
<1> HIDE DEF m
<1>2. BootShape(c, m, n)
  BY <1>1, BootIs, Zenon
<1>3. PICK i \in 1 .. p : c[i].op = "make" /\ c[i].res = r
  BY DEF MadeBy
<1>4. r \in Own
  <2>1. i \in 1 .. n
    OBVIOUS
  <2> QED BY <1>3, <2>1, BootCall
<1>5. ASSUME p < n, c[p + 1].op = "clear" PROVE r = <<"vb", 0>> \/ r = <<"sys", 0>>
  <2>1. /\ \A k \in m + 1 .. n - 1 : OfBoot(c[k])
        /\ c[n] = C("pump", "pump", 0)
        /\ \A k \in 1 .. m : c[k] \in {C("clear", "clear", 0), C("make", "vb", 0), C("make", "sys", 0)}
    BY <1>2 DEF BootShape
  <2>2. ~(p + 1 \in m + 1 .. n - 1) /\ p + 1 # n
    BY <1>5, <2>1 DEF OfBoot, C
  <2>3. i \in 1 .. m
    BY <1>1, <1>5, <2>2
  <2>4. c[i] = C("clear", "clear", 0) \/ c[i] = C("make", "vb", 0) \/ c[i] = C("make", "sys", 0)
    BY <2>1, <2>3
  <2> QED BY <1>3, <2>4 DEF C
<1> QED BY <1>4, <1>5

\* At the end of boot everything is made.
LEMMA MadeAll ==
  ASSUME Configured, NEW c, c = Constructors, NEW n \in Nat, n = Len(c), NEW i \in 1 .. n, c[i].op = "make"
  PROVE  MadeBy(n, c[i].res)
<1> DEFINE m == SysCalls
<1>1. m \in Nat /\ m = SysCalls
  BY CaptureAssumption DEF SysCalls
<1> HIDE DEF m
<1>2. BootShape(c, m, n)
  BY <1>1, BootIs, Zenon
<1>3. /\ m < n /\ m >= 3
      /\ \A k \in 1 .. m : c[k] \in {C("clear", "clear", 0), C("make", "vb", 0), C("make", "sys", 0)}
      /\ c[m - 1] = C("make", "vb", 0) /\ c[m] = C("make", "sys", 0)
      /\ \A k \in m + 1 .. n - 1 : OfBoot(c[k])
      /\ c[n] = C("pump", "pump", 0)
  BY <1>2 DEF BootShape
<1>4. /\ C("clear", "clear", 0).op = "clear" /\ C("pump", "pump", 0).op = "pump"
      /\ C("make", "vb", 0).op = "make" /\ C("make", "vb", 0).res = <<"vb", 0>>
      /\ C("make", "sys", 0).op = "make" /\ C("make", "sys", 0).res = <<"sys", 0>>
  BY DEF C
<1>5. \A k \in m - 1 .. n : c[k].op # "clear"
  <2>1. ASSUME NEW k \in m - 1 .. n PROVE c[k].op # "clear"
    <3>1. k = m - 1 \/ k = m \/ k \in m + 1 .. n - 1 \/ k = n
      BY <1>1, <1>3
    <3> QED BY <1>3, <1>4, <3>1 DEF OfBoot
  <2> QED BY <2>1
<1>6. \A k \in m - 1 .. n : c[k].op = "make" => MadeBy(n, c[k].res)
  <2>1. ASSUME NEW k \in m - 1 .. n, c[k].op = "make" PROVE MadeBy(n, c[k].res)
    <3>1. k \in 1 .. n /\ \A j \in k .. n : j \in m - 1 .. n
      BY <1>1, <1>3
    <3> QED BY <1>5, <2>1, <3>1 DEF MadeBy
  <2> QED BY <2>1
<1>7. CASE i \in m - 1 .. n
  BY <1>6, <1>7
<1>8. CASE ~(i \in m - 1 .. n)
  <2>1. i \in 1 .. m /\ m - 1 \in m - 1 .. n /\ m \in m - 1 .. n
    BY <1>1, <1>3, <1>8
  <2>2. c[i] = C("clear", "clear", 0) \/ c[i] = C("make", "vb", 0) \/ c[i] = C("make", "sys", 0)
    BY <1>3, <2>1
  <2>3. c[i] = c[m - 1] \/ c[i] = c[m]
    BY <1>3, <1>4, <2>2
  <2> QED BY <1>6, <2>1, <2>3
<1> QED BY <1>7, <1>8

\* With several VI objects the second one finds the device of the first VI there.
LEMMA SecondThere ==
  ASSUME Configured, vis > 1, NEW c, c = Constructors, NEW n \in Nat, n = Len(c), NEW p \in Nat, p + 1 = Second
  PROVE  c[p + 1] = C("make", "dev", 0) /\ MadeBy(p, <<"dev", 0>>) /\ p + 1 < n
<1> DEFINE m == SysCalls
<1>1. m \in Nat /\ m = SysCalls
  BY CaptureAssumption DEF SysCalls
<1> HIDE DEF m
<1>2. BootShape(c, m, n)
  BY <1>1, BootIs, Zenon
<1>3. /\ m < n /\ m >= 3
      /\ \A k \in m + 1 .. n - 1 : OfBoot(c[k])
      /\ Second \in m + 1 .. n - 1 /\ m + 7 < Second
      /\ c[m + 7] = C("make", "dev", 0) /\ c[Second] = C("make", "dev", 0)
  BY <1>2 DEF BootShape
<1>4. m + 7 \in 1 .. p /\ \A k \in m + 7 .. p : k \in m + 1 .. n - 1
  BY <1>1, <1>3
<1>5. C("make", "dev", 0).op = "make" /\ C("make", "dev", 0).res = <<"dev", 0>>
  BY DEF C
<1>6. \A k \in m + 7 .. p : c[k].op # "clear"
  BY <1>3, <1>4 DEF OfBoot
<1>7. MadeBy(p, <<"dev", 0>>)
  BY <1>3, <1>4, <1>5, <1>6 DEF MadeBy
<1> QED BY <1>3, <1>7

\* The calls of boot and of exit depend on the configuration alone.
LEMMA ConfigFixed ==
  ASSUME UNCHANGED config
  PROVE  Constructors' = Constructors /\ Destructors' = Destructors
<1>1. vis' = vis /\ chans' = chans
  BY DEF config
<1>2. CreateVi' = CreateVi /\ CreateIsp' = CreateIsp
  BY <1>1 DEF CreateVi, CreateIsp, Each
<1>3. DestroyVi' = DestroyVi /\ DestroyIsp' = DestroyIsp
  BY <1>1 DEF DestroyVi, DestroyIsp, Each
<1>4. StartVi' = StartVi /\ StopVi' = StopVi
  BY <1>2, <1>3 DEF StartVi, StopVi
<1>5. \A v : ViInit(v)' = ViInit(v)
  BY <1>4 DEF ViInit
<1>6. ViConstructor' = ViConstructor
  BY <1>1, <1>5 DEF ViConstructor, Each
<1>7. ViDestructor' = ViDestructor
  BY <1>1, <1>4 DEF ViDestructor, ViDestroy, Each
<1>8. VencConstructor' = VencConstructor
  BY <1>1 DEF VencConstructor, VencInit, Each
<1>9. VencDestructor' = VencDestructor
  BY <1>1 DEF VencDestructor, VencDestroy, Each
<1>10. SysConstructor' = SysConstructor /\ SysDestructor' = SysDestructor
  BY DEF SysConstructor, SysDestructor
<1> QED BY <1>6, <1>7, <1>8, <1>9, <1>10 DEF Constructors, Destructors

\* The lists and the resources of a configuration do not change.
LEMMA Same ==
  ASSUME UNCHANGED config
  PROVE  /\ Configured' = Configured /\ Own' = Own /\ Second' = Second /\ vis' = vis /\ ids' = ids /\ chans' = chans
         /\ Constructors' = Constructors /\ Destructors' = Destructors
         /\ \A p, r : MadeBy(p, r)' <=> MadeBy(p, r)
<1>1. vis' = vis /\ ids' = ids /\ chans' = chans
  BY DEF config
<1>2. Constructors' = Constructors /\ Destructors' = Destructors
  BY ConfigFixed
<1>3. Configured' = Configured /\ Own' = Own
  BY <1>1 DEF Configured, Own, Numbers, Vs
<1>4. Second' = Second
  BY <1>1 DEF Second, SysCalls, ViCalls
<1>5. ASSUME NEW p, NEW r PROVE MadeBy(p, r)' <=> MadeBy(p, r)
  BY <1>2 DEF MadeBy
<1> QED BY <1>1, <1>2, <1>3, <1>4, <1>5

\* A list stops no more than another one.
StopsOnly(t, a) == \A i \in DOMAIN t : t[i].op = "stop" => i \in DOMAIN a /\ t[i] = a[i]

\* The abort comes after what is undone.
LEMMA DieLast ==
  ASSUME NEW a, NEW x, NEW ops, ops \subseteq {"drop", "stop"}, Stops(a, ops, x), NEW t, t = Then(a, Mark("die", 0))
  PROVE  Dies(t, x) /\ StopsOnly(t, a)
<1> DEFINE b == Mark("die", 0)
           n == Len(a)
           one == 1
<1>1. /\ b \in Seq(CallSet) /\ Len(b) = 1 /\ b[1] = C("die", "die", 0) /\ DOMAIN b = 1 .. 1
  <2>1. "die" \in Ops /\ "die" \in Names /\ 0 \in Int
    BY DEF Ops, Names
  <2> QED BY <2>1, OneCall DEF Mark
<1>2. C("die", "die", 0).op = "die"
  BY DEF C
<1>3. /\ t = Then(a, b) /\ ops \subseteq FailOps /\ x \subseteq x /\ "die" \notin ops
      /\ a \in Seq(CallSet) /\ n \in Nat /\ Len(a) = n
  BY DEF FailOps, Stops
<1> HIDE DEF b, n
<1>4. Stops(a, FailOps, x)
  BY <1>3, StopsFewer
<1>5. Stops(b, FailOps, x)
  BY <1>1, <1>2 DEF Stops, Skips, Orderly, FailOps
<1>6. Stops(t, FailOps, x)
  BY <1>3, <1>4, <1>5, StopsAnyway
<1>7. one \in Nat /\ Len(b) = one
  BY <1>1
<1> HIDE DEF one
<1>8. /\ Len(t) = n + one /\ DOMAIN a = 1 .. n /\ DOMAIN t = 1 .. n + one
      /\ \A i \in 1 .. n : t[i] = a[i]
      /\ \A i \in n + 1 .. n + one : t[i] = b[i - n]
  <2>1. a \in Seq(CallSet) /\ b \in Seq(CallSet) /\ n \in Nat /\ one \in Nat /\ Len(a) = n /\ Len(b) = one
    BY <1>1, <1>3, <1>7
  <2>2. /\ Len(Then(a, b)) = n + one /\ DOMAIN a = 1 .. n /\ DOMAIN Then(a, b) = 1 .. n + one
        /\ \A i \in 1 .. n : Then(a, b)[i] = a[i]
        /\ \A i \in n + 1 .. n + one : Then(a, b)[i] = b[i - n]
    <3>1. IsList(a, n) /\ IsList(b, one) /\ DOMAIN a = 1 .. n
      BY <2>1 DEF IsList
    <3>2. IsList(Then(a, b), n + one) /\ \A i \in 1 .. n : Then(a, b)[i] = a[i]
      BY <2>1, <3>1, ListThen
    <3>3. \A i \in 1 .. one : Then(a, b)[n + i] = b[i]
      BY <2>1, <3>1, ListThen
    <3>4. ASSUME NEW i \in n + 1 .. n + one PROVE Then(a, b)[i] = b[i - n]
      <4>1. i - n \in 1 .. one /\ n + (i - n) = i
        BY <2>1
      <4> QED BY <3>3, <4>1
    <3> QED BY <3>1, <3>2, <3>4, Zenon DEF IsList
  <2> QED BY <1>3, <2>2, Zenon
<1>9. t # <<>> /\ t[n + 1].op = "die" /\ Len(t) = n + 1 /\ DOMAIN t = 1 .. n + 1
  <2>1. Len(t) = n + 1 /\ DOMAIN t = 1 .. n + 1 /\ n + 1 \in n + 1 .. n + one /\ (n + 1) - n = 1
    BY <1>3, <1>8 DEF one
  <2>2. t[n + 1] = b[1]
    BY <1>8, <2>1
  <2>3. t # <<>>
    BY <1>3, <2>1
  <2> QED BY <1>1, <1>2, <2>1, <2>2, <2>3
<1>10. ASSUME NEW i \in DOMAIN t, t[i].op = "stop" PROVE i \in DOMAIN a /\ t[i] = a[i]
  <2>1. i \in 1 .. n
    BY <1>3, <1>9, <1>10
  <2> QED BY <1>8, <2>1
<1> QED BY <1>6, <1>9, <1>10 DEF Dies, StopsOnly

\* What is left of boot when making r fails, or a call that makes nothing.
LEMMA UndoFails ==
  ASSUME Configured, NEW r, NEW x, (r \in Own /\ Before(r, x)) \/ r[1] = "param", NEW t, t = Then(Undo(r), Mark("die", 0))
  PROVE  /\ Dies(t, x)
         /\ \A i \in DOMAIN t : t[i].op = "stop" => r \in Own /\ r[1] \in {"isp", "ispRun"} /\ t[i].res[2] = r[2]
<1> DEFINE ops == {"drop", "stop"}
<1>1. ops \subseteq {"drop", "stop"} /\ "drop" \in ops /\ "stop" \in ops
  OBVIOUS
<1>2. CASE r[1] = "param"
  <2>1. Undo(r) = <<>>
    BY <1>2 DEF Undo
  <2>2. Stops(Undo(r), ops, x) /\ DOMAIN Undo(r) = {}
    BY <2>1, StopsNothing
  <2> HIDE DEF ops
  <2>3. Dies(t, x) /\ StopsOnly(t, Undo(r))
    BY <1>1, <2>2, DieLast
  <2> QED BY <2>2, <2>3 DEF StopsOnly
<1>3. CASE r \in Own /\ Before(r, x)
  <2> HIDE DEF ops
  <2>1. Stops(Undo(r), ops, x)
    BY <1>1, <1>3, UndoStops
  <2>2. Dies(t, x) /\ StopsOnly(t, Undo(r))
    <3> DEFINE u == Undo(r)
    <3>1. ops \subseteq {"drop", "stop"} /\ Stops(u, ops, x) /\ t = Then(u, Mark("die", 0))
      BY <1>1, <2>1
    <3> HIDE DEF u
    <3>2. Dies(t, x) /\ StopsOnly(t, u)
      BY <3>1, DieLast
    <3> QED BY <3>2 DEF u
  <2>3. \A i \in DOMAIN t : t[i].op = "stop" => r[1] \in {"isp", "ispRun"} /\ t[i].res[2] = r[2]
    <3>1. ASSUME NEW i \in DOMAIN t, t[i].op = "stop" PROVE r[1] \in {"isp", "ispRun"} /\ t[i].res[2] = r[2]
      <4>1. i \in DOMAIN Undo(r) /\ t[i] = Undo(r)[i]
        BY <2>2, <3>1 DEF StopsOnly
      <4>2. Undo(r)[i].op = "stop"
        BY <3>1, <4>1
      <4>3. r[1] \in {"isp", "ispRun"} /\ Undo(r)[i].res[2] = r[2]
        BY <1>3, <4>1, <4>2, UndoStopsIsp
      <4> QED BY <4>1, <4>3
    <3> QED BY <3>1
  <2> QED BY <1>3, <2>2, <2>3
<1> QED BY <1>2, <1>3

\* What the driver holds when a call of boot fails, was made before.
LEMMA BeforeFails ==
  ASSUME Configured, NEW p \in Nat, p < Len(Constructors), vis > 1 => p < Second, NEW c, c = Constructors[p + 1],
         c.op = "make", NEW x, x \subseteq Resources \ InProcess, \A q \in x : q \notin Idempotent => MadeBy(p, q)
  PROVE  Before(c.res, x)
<1> DEFINE n == Len(Constructors)
           r == c.res
<1>1. vis \in Nat \ {0} /\ Constructors \in Seq(CallSet)
  <2>1. vis \in Nat \ {0}
    BY CaptureAssumption DEF Configured
  <2>2. Constructors \in Seq(CallSet)
    BY ConstructorsAre
  <2> QED BY <2>1, <2>2
<1>2. n \in Nat /\ n = Len(Constructors)
  BY <1>1
<1> HIDE DEF n, r
<1>3. CASE p < Reach
  <2>1. ASSUME NEW q \in x, q \notin Idempotent, r \notin Idempotent PROVE W(q) < W(r)
    <3>1. MadeBy(p, q)
      BY <2>1
    <3> QED BY <1>2, <1>3, <2>1, <3>1, MadeBelow DEF r
  <2> QED BY <2>1 DEF Before, r
<1>4. CASE ~(p < Reach)
  <2>1. vis > 1 /\ p + 1 = Second
    <3>1. Second \in Int
      BY <1>1, CaptureAssumption DEF Second, SysCalls, ViCalls
    <3> QED BY <1>1, <1>2, <1>4, <3>1 DEF Reach
  <2>2. c = C("make", "dev", 0)
    BY <1>2, <2>1, SecondThere
  <2>3. r = <<"dev", 0>>
    BY <2>2 DEF C, r
  <2> QED BY <2>3 DEF Before, r
<1> QED BY <1>3, <1>4

\* What lives in the process is needed only by what lives in the process.
LEMMA NeedsOutside ==
  ASSUME NEW r \in Resources, NEW q \in InProcess, q \in Needs(r)
  PROVE  \E v \in 0 .. MaxVis - 1 : q = <<"isp", v>> /\ r = <<"ispRun", v>>
<1>1. PICK v \in 0 .. MaxVis - 1 : q = <<"isp", v>> \/ q = <<"ispRun", v>>
  BY DEF InProcess, Resources
<1>2. r[1] = "ispRun" /\ q[1] = "isp" /\ q[2] = r[2]
  <2>1. q[1] = "isp" \/ q[1] = "ispRun"
    BY <1>1
  <2>2. r[1] # "ispRun" => \A p \in Needs(r) : p[1] # "isp" /\ p[1] # "ispRun"
    BY NeedsAre
  <2> QED BY NeedsAre, <2>1, <2>2
<1>3. r = <<r[1], r[2]>>
  BY NeedsAre
<1> QED BY <1>1, <1>3, <1>2

\* The process ends.
LEMMA DieStep ==
  ASSUME ChainInv, Die, UNCHANGED refusals
  PROVE  ChainInv'
<1>1. /\ proc' = "down" /\ todo' = <<>> /\ up' = up \ InProcess /\ stuck' = stuck \ InProcess /\ pump' = None
      /\ UNCHANGED config /\ touched' = touched /\ found' = found /\ objs' = objs /\ refusals' = refusals
  BY DEF Die
<1>2. /\ Configured /\ Held /\ PumpOK /\ StandsOn /\ (found => vis > 1 \/ stuck # {})
  BY DEF ChainInv
<1>3. Configured' /\ vis' = vis
  BY <1>1, <1>2, Same
<1>4. Held'
  BY <1>1, <1>2 DEF Held
<1>5. PumpOK'
  <2>1. None \in [at : {"none", "arm", "wait", "hold", "ended"}, i : 0 .. Encoders] /\ None.at = "none"
    BY CaptureAssumption DEF None
  <2> QED BY <1>1, <2>1 DEF PumpOK
<1>6. StandsOn'
  <2>1. Touched' = Touched
    BY <1>1 DEF Touched
  <2>2. ASSUME NEW r \in Standing' PROVE Needs(r) \subseteq up' \cup Touched
    <3>1. r \in Standing /\ r \in Resources \ InProcess
      BY <1>1, <1>2, <2>1, <2>2 DEF Standing, Held
    <3>2. Needs(r) \subseteq up \cup Touched
      BY <1>2, <3>1 DEF StandsOn, IspOrphaned
    <3>3. Needs(r) \cap InProcess = {}
      <4>1. ASSUME NEW q \in Needs(r), q \in InProcess PROVE FALSE
        <5>1. PICK v \in 0 .. MaxVis - 1 : r = <<"ispRun", v>>
          BY <3>1, <4>1, NeedsOutside
        <5> QED BY <3>1, <5>1 DEF InProcess
      <4> QED BY <4>1
    <3> QED BY <1>1, <3>2, <3>3
  <2> QED BY <2>1, <2>2 DEF StandsOn
<1>7. Phase'
  BY <1>1 DEF Phase, None
<1>8. found' => vis' > 1 \/ stuck' # {}
  BY <1>1, <1>2, <1>3 DEF Held
<1> QED BY <1>3, <1>4, <1>5, <1>6, <1>7, <1>8 DEF ChainInv

\* The constructors in numbers.
LEMMA BootLength ==
  ASSUME Configured
  PROVE  /\ Constructors \in Seq(CallSet) /\ Len(Constructors) \in Nat /\ Len(Constructors) > 1
         /\ Second \in Nat /\ Second > 0 /\ vis \in Nat \ {0} /\ (vis > 1 => Second < Len(Constructors))
<1> DEFINE m == SysCalls
           n == Len(Constructors)
<1>1. m \in Nat /\ m = SysCalls
  BY CaptureAssumption DEF SysCalls
<1>2. Constructors \in Seq(CallSet)
  BY ConstructorsAre
<1>3. n \in Nat /\ n = Len(Constructors)
  BY <1>2
<1>4. vis \in Nat \ {0} /\ Second \in Nat /\ Second > 0
  BY CaptureAssumption DEF Configured, Second, SysCalls, ViCalls
<1> HIDE DEF m, n
<1>5. BootShape(Constructors, m, n)
  BY <1>1, <1>3, BootIs, Zenon
<1>6. m < n /\ m >= 3 /\ (vis > 1 => Second \in m + 1 .. n - 1)
  BY <1>5 DEF BootShape
<1> QED BY <1>1, <1>2, <1>3, <1>4, <1>6
-----------------------------------------------------------------------------
(***************************************************************************)
(* Its steps                                                               *)
(***************************************************************************)
\* The next call while boot goes well, and what it says of what the driver holds.
LEMMA Booting ==
  ASSUME ChainInv, NEW p \in 0 .. Len(Constructors), BootAt(p)
  PROVE  /\ todo = <<>> <=> p = Len(Constructors)
         /\ todo # <<>> => /\ p < Len(Constructors) /\ Head(todo) = Constructors[p + 1]
                           /\ Tail(todo) = Rest(Constructors, p + 1) /\ pump.at = "none"
         /\ \A i \in DOMAIN todo :
              todo[i].op \in {"make", "param", "clear", "pump"} /\ (todo[i].op = "make" => todo[i].res \in Own)
         /\ \A r : ~IspOrphaned(r)
         /\ \A r \in Standing : Needs(r) \subseteq up \cup Touched
<1> DEFINE n == Len(Constructors)
           c == Constructors
<1>1. Configured /\ StandsOn
  BY DEF ChainInv
<1>2. n \in Nat /\ c \in Seq(CallSet) /\ p \in Nat /\ p <= n /\ n = Len(c) /\ c = Constructors
  BY <1>1, BootLength
<1>3. todo = Rest(c, p) /\ (pump.at # "none" => p = n)
  BY DEF BootAt
<1> HIDE DEF n, c
<1>4. todo = <<>> <=> p = n
  BY <1>2, <1>3, RestIs
<1>5. todo # <<>> => /\ p < n /\ Head(todo) = c[p + 1] /\ Tail(todo) = Rest(c, p + 1) /\ pump.at = "none"
  BY <1>2, <1>3, <1>4, RestRest
<1>6. ASSUME NEW i \in DOMAIN todo
      PROVE  todo[i].op \in {"make", "param", "clear", "pump"} /\ (todo[i].op = "make" => todo[i].res \in Own)
  <2>1. DOMAIN Rest(c, p) = 1 .. n - p /\ \A k \in 1 .. n - p : Rest(c, p)[k] = c[p + k]
    BY <1>2, RestIs
  <2>2. i \in 1 .. n - p /\ todo[i] = c[p + i]
    BY <1>3, <2>1
  <2>3. p + i \in 1 .. n
    BY <1>2, <2>2
  <2> QED BY <1>1, <1>2, <2>2, <2>3, BootCall
<1>7. \A r : ~IspOrphaned(r)
  BY <1>6 DEF IspOrphaned, Calls
<1>8. \A r \in Standing : Needs(r) \subseteq up \cup Touched
  BY <1>1, <1>7 DEF StandsOn
<1> QED BY <1>2, <1>4, <1>5, <1>6, <1>7, <1>8 DEF n, c

\* Which phase the next call is of.
LEMMA NextPhase ==
  ASSUME ChainInv, NEW op, Next1(op)
  PROVE  /\ op \in {"make", "param", "pump"} => proc = "boot" /\ \E p \in 0 .. Len(Constructors) : BootAt(p)
         /\ op \in {"drop", "stop", "die"} => (proc = "boot" /\ Failing) \/ (proc = "exit" /\ Exiting)
         /\ op = "clear" => (proc = "boot" /\ \E p \in 0 .. Len(Constructors) : BootAt(p)) \/ (proc = "exit" /\ Exiting)
         /\ op = "free" => proc = "exit" /\ Exiting
<1>1. Phase
  BY DEF ChainInv
<1>2. proc \in {"boot", "exit"} /\ todo # <<>> /\ Head(todo).op = op
  BY DEF Next1
<1>3. CASE proc = "exit"
  <2>1. Exiting
    BY <1>1, <1>3 DEF Phase
  <2>2. todo \in Seq(CallSet) /\ \A i \in DOMAIN todo : todo[i].op \in ExitOps \cup {"clear"}
    BY <2>1 DEF Exiting, Stops
  <2>3. op \in ExitOps \cup {"clear"}
    BY <1>2, <2>2
  <2> QED BY <1>3, <2>1, <2>3 DEF ExitOps
<1>4. CASE proc = "boot" /\ Failing
  <2>1. todo \in Seq(CallSet) /\ \A i \in DOMAIN todo : todo[i].op \in FailOps
    BY <1>4 DEF Failing, Dies, Stops
  <2>2. op \in FailOps
    BY <1>2, <2>1
  <2> QED BY <1>4, <2>2 DEF FailOps
<1>5. CASE proc = "boot" /\ \E p \in 0 .. Len(Constructors) : BootAt(p)
  <2>1. PICK p \in 0 .. Len(Constructors) : BootAt(p)
    BY <1>5
  <2>2. /\ \A i \in DOMAIN todo : todo[i].op \in {"make", "param", "clear", "pump"}
        /\ p < Len(Constructors) /\ Head(todo) = Constructors[p + 1]
    BY <1>2, <2>1, Booting
  <2>3. Configured
    BY DEF ChainInv
  <2>4. Constructors[p + 1].op \in {"make", "param", "clear", "pump"}
    <3>1. Len(Constructors) \in Nat /\ p + 1 \in 1 .. Len(Constructors)
      BY <2>2, <2>3, BootLength
    <3> QED BY <2>3, <3>1, BootCall
  <2> QED BY <1>2, <1>5, <2>2, <2>4
<1> QED BY <1>1, <1>2, <1>3, <1>4, <1>5 DEF Phase

\* The process starts.
LEMMA StartStep ==
  ASSUME ChainInv, Start
  PROVE  ChainInv'
<1>1. /\ proc = "down" /\ proc' = "boot" /\ todo' = Constructors /\ objs' = Es /\ found' = FALSE
      /\ UNCHANGED config /\ UNCHANGED <<up, touched, stuck, pump, refusals>>
  BY DEF Start
<1>2. Configured /\ Held /\ PumpOK /\ StandsOn /\ Phase
  BY DEF ChainInv
<1>3. Configured' /\ Constructors' = Constructors /\ \A p, r : MadeBy(p, r)' <=> MadeBy(p, r)
  BY <1>1, <1>2, Same
<1>4. Held'
  BY <1>1, <1>2 DEF Held
<1>5. pump.at = "none" /\ up \cap InProcess = {}
  BY <1>1, <1>2 DEF Phase
<1>6. PumpOK'
  BY <1>1, <1>2, <1>5 DEF PumpOK
<1>7. Standing' = Standing /\ Touched' = Touched
  BY <1>1 DEF Standing, Touched
<1>8. StandsOn'
  <2>1. \A r \in Standing : Needs(r) \subseteq up \cup Touched
    BY <1>1, <1>2 DEF StandsOn, IspOrphaned
  <2> QED BY <1>1, <1>7, <2>1 DEF StandsOn
<1>9. BootAt(0)'
  <2>1. Len(Constructors) \in Nat /\ Rest(Constructors, 0) = Constructors /\ Second > 0 /\ Second' = Second
    <3>1. Len(Constructors) \in Nat /\ Len(Constructors) > 1 /\ Constructors \in Seq(CallSet) /\ Second > 0
      BY <1>2, BootLength
    <3>2. 0 \in Nat /\ 0 < Len(Constructors)
      BY <3>1
    <3>3. Rest(Constructors, 0) = Constructors
      BY <3>1, <3>2, RestRest
    <3> QED BY <1>1, <3>1, <3>3, Same
  <2>2. \A r : ~MadeBy(0, r)
    BY DEF MadeBy
  <2> QED BY <1>1, <1>3, <1>5, <2>1, <2>2 DEF BootAt
<1>10. Phase'
  <2>1. 0 \in 0 .. Len(Constructors')
    BY <1>2, <1>3, BootLength
  <2> QED BY <1>1, <1>9, <2>1 DEF Phase
<1> QED BY <1>1, <1>3, <1>4, <1>6, <1>8, <1>10 DEF ChainInv

\* main is reached only when all of boot went well.
LEMMA MainStep ==
  ASSUME ChainInv, Main
  PROVE  ChainInv'
<1>1. /\ proc = "boot" /\ todo = <<>> /\ proc' = "up" /\ UNCHANGED config
      /\ todo' = todo /\ up' = up /\ touched' = touched /\ stuck' = stuck /\ found' = found /\ objs' = objs
      /\ pump' = pump /\ refusals' = refusals
  BY DEF Main
<1>2. Configured /\ Held /\ PumpOK /\ StandsOn /\ Phase /\ (found => vis > 1 \/ stuck # {})
  BY DEF ChainInv
<1>3. Configured' /\ Constructors' = Constructors /\ vis' = vis /\ Own' = Own /\ ids' = ids /\ chans' = chans
  BY <1>1, <1>2, Same
<1>4. Held' /\ PumpOK'
  BY <1>1, <1>2, <1>3 DEF Held, PumpOK
<1>5. PICK p \in 0 .. Len(Constructors) : BootAt(p)
  <2>1. ~Failing
    BY <1>1 DEF Failing, Dies
  <2> QED BY <1>1, <1>2, <2>1 DEF Phase
<1>6. p = Len(Constructors) /\ Len(Constructors) \in Nat /\ p > 0 /\ vis = 1 /\ objs = Es
  <2>1. Len(Constructors) \in Nat /\ Len(Constructors) > 1 /\ vis \in Nat \ {0}
        /\ Second \in Nat /\ (vis > 1 => Second < Len(Constructors))
    BY <1>2, BootLength
  <2>2. p = Len(Constructors)
    BY <1>1, <1>5, Booting
  <2> QED BY <1>1, <1>2, <1>5, <2>1, <2>2 DEF BootAt, Phase
<1>7. /\ found = FALSE /\ \A r \in Resources : MadeBy(p, r) => r \in up
      /\ \A r \in up \ (stuck \cup Idempotent) : MadeBy(p, r)
  BY <1>5, <1>6 DEF BootAt
<1>8. \A c \in Calls(Constructors) : c.op = "make" => c.res \in up
  <2>1. ASSUME NEW k \in DOMAIN Constructors, Constructors[k].op = "make" PROVE Constructors[k].res \in up
    <3>1. k \in 1 .. p
      <4>1. Constructors \in Seq(CallSet)
        BY <1>2, BootLength
      <4> QED BY <1>6, <4>1
    <3>2. MadeBy(p, Constructors[k].res)
      BY <1>2, <1>6, <2>1, <3>1, MadeAll
    <3>3. Constructors[k].res \in Resources
      BY <1>2, <1>6, <2>1, <3>1, BootCall, OwnIn
    <3> QED BY <1>7, <3>2, <3>3
  <2> QED BY <2>1 DEF Calls
<1>9. up \ stuck \subseteq Own
  <2>1. ASSUME NEW r \in up \ stuck PROVE r \in Own
    <3>1. CASE r \in Idempotent
      BY <3>1 DEF Idempotent, Own
    <3>2. CASE r \notin Idempotent
      <4>1. MadeBy(p, r)
        BY <1>7, <2>1, <3>2
      <4>2. p \in Nat /\ p <= Len(Constructors)
        BY <1>6
      <4> QED BY <1>2, <1>6, <4>1, <4>2, MadeOwn
    <3> QED BY <3>1, <3>2
  <2> QED BY <2>1
<1>10. UpOK'
  <2>1. Calls(Constructors)' = Calls(Constructors) /\ Touched' = Touched
    BY <1>1, <1>3 DEF Calls, Touched
  <2>2. Es' = Es
    BY DEF Es
  <2> QED BY <1>1, <1>3, <1>6, <1>7, <1>8, <1>9, <2>1, <2>2 DEF UpOK
<1>11. StandsOn'
  <2>1. \A r \in Standing : Needs(r) \subseteq up \cup Touched
    BY <1>5, Booting
  <2>2. Standing' = Standing /\ Touched' = Touched
    BY <1>1 DEF Standing, Touched
  <2> QED BY <1>1, <2>1, <2>2 DEF StandsOn
<1>12. Phase'
  BY <1>1, <1>10 DEF Phase
<1> QED BY <1>1, <1>2, <1>3, <1>4, <1>11, <1>12 DEF ChainInv

\* The process exits.
LEMMA ExitStep ==
  ASSUME ChainInv, Exit
  PROVE  ChainInv'
<1>1. /\ proc = "up" /\ todo' = Destructors /\ proc' = "exit" /\ UNCHANGED config
      /\ up' = up /\ touched' = touched /\ stuck' = stuck /\ found' = found /\ objs' = objs
      /\ pump' = pump /\ refusals' = refusals
  BY DEF Exit
<1>2. Configured /\ Held /\ PumpOK /\ StandsOn /\ Phase /\ (found => vis > 1 \/ stuck # {})
  BY DEF ChainInv
<1>3. Configured' /\ vis' = vis /\ ids' = ids /\ chans' = chans
  BY <1>1, <1>2, Same
<1>4. Held' /\ PumpOK'
  BY <1>1, <1>2, <1>3 DEF Held, PumpOK
<1>5. UpOK
  BY <1>1, <1>2 DEF Phase
<1>6. vis = 1 /\ found = FALSE /\ Standing \subseteq Own
  BY <1>5 DEF UpOK, Standing
<1>7. StandsOn'
  <2>1. \A r \in Standing : Needs(r) \subseteq up \cup Touched
    BY <1>1, <1>2 DEF StandsOn, IspOrphaned
  <2>2. Standing' = Standing /\ Touched' = Touched
    BY <1>1 DEF Standing, Touched
  <2> QED BY <1>1, <2>1, <2>2 DEF StandsOn
<1>8. Exiting'
  <2> DEFINE d == Destructors
  <2>1. /\ Stops(d, ExitOps \cup {"clear"}, Own)
        /\ \A r \in Own : \E i \in DOMAIN d : Covers(d[i], r)
        /\ \A i, k \in DOMAIN d : i < k /\ d[i].op = "clear" => d[k].op = "clear"
    BY <1>2, <1>6, DestructorsStop
  <2>2. d' = d /\ todo' = d /\ Standing' = Standing
    <3>1. Destructors' = Destructors
      BY <1>1, ConfigFixed
    <3>2. Standing' = Standing
      BY <1>1 DEF Standing, Touched
    <3> QED BY <1>1, <3>1, <3>2
  <2> HIDE DEF d
  <2>3. Stops(d, ExitOps \cup {"clear"}, Standing)
    BY <1>6, <2>1, StopsFewer
  <2>4. \A v \in 0 .. MaxVis - 1 : <<"isp", v>> \in up => <<"ispRun", v>> \in up
    <3>1. ASSUME NEW v \in 0 .. MaxVis - 1, <<"isp", v>> \in up PROVE <<"ispRun", v>> \in up
      <4>1. <<"isp", v>> \in InProcess
        BY DEF InProcess, Resources
      <4>2. <<"isp", v>> \in Own
        BY <1>2, <1>5, <3>1, <4>1 DEF Held, UpOK
      <4>3. v \in Vs
        BY <4>2 DEF Own
      <4>4. v = 0
        BY <1>6, <4>3 DEF Vs
      <4>5. \E c \in Calls(Constructors) : c = C("make", "ispRun", 0)
        <5> DEFINE m == SysCalls
                   n == Len(Constructors)
        <5>1. m \in Nat /\ n \in Nat /\ m = SysCalls /\ n = Len(Constructors) /\ Constructors \in Seq(CallSet)
          BY <1>2, BootLength, CaptureAssumption DEF SysCalls
        <5> HIDE DEF m, n
        <5>2. BootShape(Constructors, m, n)
          BY <1>2, <5>1, BootIs
        <5>3. PICK i \in m + 1 .. n - 1 : Constructors[i] = C("make", "ispRun", 0)
          BY <1>6, <5>2 DEF BootShape
        <5>4. i \in DOMAIN Constructors
          BY <5>1
        <5> QED BY <5>3, <5>4 DEF Calls
      <4>6. PICK c \in Calls(Constructors) : c = C("make", "ispRun", 0)
        BY <4>5
      <4>7. c.op = "make" /\ c.res = <<"ispRun", 0>>
        BY <4>6 DEF C
      <4>8. <<"ispRun", 0>> \in up \cup Touched
        BY <1>5, <4>6, <4>7 DEF UpOK
      <4>9. <<"ispRun", 0>> \notin Touched
        BY DEF Touched
      <4> QED BY <4>4, <4>8, <4>9
    <3> QED BY <3>1
  <2>5. \A r \in Standing : \E i \in DOMAIN d : Covers(d[i], r)
    BY <1>6, <2>1
  <2> QED BY <1>1, <1>3, <1>6, <2>1, <2>2, <2>3, <2>4, <2>5 DEF Exiting, Covers, Removes
<1>9. Phase'
  BY <1>1, <1>8 DEF Phase
<1> QED BY <1>1, <1>2, <1>3, <1>4, <1>6, <1>7, <1>9 DEF ChainInv

\* Boot takes its next call.
LEMMA BootNext ==
  ASSUME ChainInv, NEW p \in 0 .. Len(Constructors), BootAt(p), proc = "boot", todo # <<>>,
         UNCHANGED config, proc' = proc, todo' = Tail(todo), objs' = objs, found' = found,
         Head(todo).op = "make" => Head(todo).res \notin up \ Idempotent,
         pump'.at # "none" => p + 1 = Len(Constructors),
         \A r \in Resources : MadeBy(p + 1, r) => r \in up',
         \A r \in up' \ (stuck' \cup Idempotent) : MadeBy(p + 1, r)
  PROVE  Phase'
<1> DEFINE n == Len(Constructors)
           c == Constructors
<1>1. Configured /\ objs = Es
  BY DEF ChainInv, Phase
<1>2. n \in Nat /\ n = Len(Constructors) /\ c = Constructors /\ Second \in Nat /\ vis \in Nat
  BY <1>1, BootLength
<1>3. p \in Nat /\ p < n /\ p + 1 \in Nat /\ p + 1 <= n /\ Head(todo) = c[p + 1] /\ Tail(todo) = Rest(c, p + 1)
  BY <1>2, Booting
<1>4. c' = c /\ n' = n /\ vis' = vis /\ Second' = Second /\ \A q, r : MadeBy(q, r)' <=> MadeBy(q, r)
  BY <1>1, Same
<1>5. vis > 1 => p < Second
  BY DEF BootAt
<1>6. found = FALSE /\ \A r \in Resources : MadeBy(p, r) => r \in up
  BY DEF BootAt
<1> HIDE DEF n, c
<1>7. vis > 1 => p + 1 < Second
  <2>1. ASSUME vis > 1, p + 1 = Second PROVE FALSE
    <3>1. c[p + 1] = C("make", "dev", 0) /\ MadeBy(p, <<"dev", 0>>)
      BY <1>1, <1>2, <1>3, <2>1, SecondThere
    <3>2. Head(todo).op = "make" /\ Head(todo).res = <<"dev", 0>>
      BY <1>3, <3>1 DEF C
    <3>3. <<"dev", 0>> \in Resources /\ <<"dev", 0>> \notin Idempotent
      BY CaptureAssumption DEF Resources, Idempotent
    <3> QED BY <1>6, <3>1, <3>2, <3>3
  <2> QED BY <1>2, <1>3, <1>5, <2>1
<1>8. BootAt(p + 1)'
  <2>1. todo' = Rest(c', p + 1)
    BY <1>3, <1>4
  <2>2. Resources' = Resources /\ Idempotent' = Idempotent /\ InProcess' = InProcess
    BY DEF Resources, Idempotent, InProcess, Es, Ls
  <2>3. Constructors' = c' /\ Len(Constructors') = n
    BY <1>2, <1>4 DEF n, c
  <2>4. ~(p + 1 = 0)
    BY <1>3
  <2> QED BY <1>2, <1>3, <1>4, <1>6, <1>7, <2>1, <2>2, <2>3, <2>4 DEF BootAt
<1>9. p + 1 \in 0 .. Len(Constructors')
  BY <1>2, <1>3, <1>4 DEF n, c
<1> QED BY <1>1, <1>8, <1>9 DEF Phase, Es

\* A call of boot that makes something.
LEMMA MadeStep ==
  ASSUME ChainInv, Made
  PROVE  ChainInv'
<1>1. /\ Next1("make") /\ Needs(Res) \subseteq up /\ Res \notin up \ Idempotent /\ up' = up \cup {Res}
      /\ todo' = Tail(todo) /\ UNCHANGED config /\ proc' = proc /\ touched' = touched /\ objs' = objs /\ pump' = pump
      /\ stuck' = stuck /\ found' = found /\ refusals' = refusals
  BY DEF Made, Done, There
<1>2. Configured /\ Held /\ PumpOK /\ StandsOn /\ Phase /\ (found => vis > 1 \/ stuck # {})
  BY DEF ChainInv
<1>3. Configured' /\ vis' = vis /\ ids' = ids /\ chans' = chans
  BY <1>1, <1>2, Same
<1>4. proc = "boot" /\ todo # <<>> /\ Head(todo).op = "make" /\ Head(todo).res = Res
  BY <1>1, NextPhase DEF Next1, Res
<1>5. PICK p \in 0 .. Len(Constructors) : BootAt(p)
  BY <1>1, NextPhase
<1> DEFINE n == Len(Constructors)
           c == Constructors
<1>6. n \in Nat /\ n = Len(Constructors) /\ c = Constructors
  BY <1>2, BootLength
<1>7. p \in Nat /\ p < n /\ Head(todo) = c[p + 1] /\ pump.at = "none"
  BY <1>4, <1>5, <1>6, Booting
<1>8. /\ \A r \in Resources : MadeBy(p, r) => r \in up
      /\ p > 0 => \A r \in up \ (stuck \cup Idempotent) : MadeBy(p, r)
  BY <1>5 DEF BootAt
<1> HIDE DEF n, c
<1>9. Res \in Own /\ Res \in Resources /\ p > 0
  <2>1. p + 1 \in 1 .. n
    BY <1>6, <1>7
  <2>2. c[p + 1].op = "make" => c[p + 1].res \in Own
    BY <1>2, <1>6, <2>1, BootCall
  <2>3. c[1].op = "clear"
    BY <1>2, <1>6, <2>1, BootCall
  <2>4. p # 0
    BY <1>4, <1>7, <2>3
  <2> QED BY <1>2, <1>4, <1>7, <2>2, <2>4, OwnIn
<1>10. \A r : MadeBy(p + 1, r) <=> MadeBy(p, r) \/ Res = r
  <2>1. ASSUME NEW r PROVE MadeBy(p + 1, r) <=> MadeBy(p, r) \/ Res = r
    <3>1. c[p + 1].op # "clear" => (MadeBy(p + 1, r) <=> MadeBy(p, r) \/ (c[p + 1].op = "make" /\ c[p + 1].res = r))
      BY <1>2, <1>6, <1>7, MadeNext
    <3> QED BY <1>4, <1>7, <3>1
  <2> QED BY <2>1
<1>11. Phase'
  <2>1. \A r \in Resources : MadeBy(p + 1, r) => r \in up'
    BY <1>1, <1>8, <1>10
  <2>2. \A r \in up' \ (stuck' \cup Idempotent) : MadeBy(p + 1, r)
    BY <1>1, <1>8, <1>9, <1>10
  <2>3. pump'.at # "none" => p + 1 = Len(Constructors)
    BY <1>1, <1>7
  <2> QED BY <1>1, <1>4, <1>5, <2>1, <2>2, <2>3, BootNext
<1>12. Held' /\ PumpOK'
  BY <1>1, <1>2, <1>3, <1>9 DEF Held, PumpOK
<1>13. StandsOn'
  <2>1. \A r \in Standing : Needs(r) \subseteq up \cup Touched
    BY <1>5, Booting
  <2>2. Standing' \subseteq Standing \cup {Res} /\ Touched' = Touched
    BY <1>1 DEF Standing, Touched
  <2> QED BY <1>1, <2>1, <2>2 DEF StandsOn
<1> QED BY <1>1, <1>2, <1>3, <1>11, <1>12, <1>13 DEF ChainInv

\* A call of boot that makes nothing, and the start of the pump.
LEMMA ParamStep ==
  ASSUME ChainInv, Param \/ StartPump
  PROVE  ChainInv'
<1>1. PICK op \in {"param", "pump"} : Next1(op)
  BY DEF Param, StartPump
<1>2. /\ UNCHANGED <<up, stuck, found, refusals>>
      /\ todo' = Tail(todo) /\ UNCHANGED config /\ proc' = proc /\ touched' = touched /\ objs' = objs
      /\ pump' = pump \/ (pump' = [at |-> "arm", i |-> 0] /\ Next1("pump"))
  BY DEF Param, StartPump, Done
<1>3. Configured /\ Held /\ PumpOK /\ StandsOn /\ Phase /\ (found => vis > 1 \/ stuck # {})
  BY DEF ChainInv
<1>4. Configured' /\ vis' = vis /\ ids' = ids /\ chans' = chans
  BY <1>2, <1>3, Same
<1>5. proc = "boot" /\ todo # <<>> /\ Head(todo).op = op
  BY <1>1, NextPhase DEF Next1
<1>6. PICK p \in 0 .. Len(Constructors) : BootAt(p)
  BY <1>1, NextPhase
<1> DEFINE n == Len(Constructors)
           c == Constructors
<1>7. n \in Nat /\ n = Len(Constructors) /\ c = Constructors
  BY <1>3, BootLength
<1>8. p \in Nat /\ p < n /\ Head(todo) = c[p + 1] /\ pump.at = "none"
  BY <1>5, <1>6, <1>7, Booting
<1>9. /\ \A r \in Resources : MadeBy(p, r) => r \in up
      /\ p > 0 => \A r \in up \ (stuck \cup Idempotent) : MadeBy(p, r)
  BY <1>6 DEF BootAt
<1> HIDE DEF n, c
<1>10. p > 0 /\ (c[p + 1].op = "pump" => p + 1 = n)
  <2>1. p + 1 \in 1 .. n
    BY <1>7, <1>8
  <2>2. (c[p + 1].op = "pump" => p + 1 = n) /\ c[1].op = "clear"
    BY <1>3, <1>7, <2>1, BootCall
  <2>3. p # 0
    BY <1>1, <1>5, <1>8, <2>2
  <2> QED BY <1>8, <2>2, <2>3
<1>11. \A r : MadeBy(p + 1, r) <=> MadeBy(p, r)
  <2>1. ASSUME NEW r PROVE MadeBy(p + 1, r) <=> MadeBy(p, r)
    <3>1. c[p + 1].op # "clear" => (MadeBy(p + 1, r) <=> MadeBy(p, r) \/ (c[p + 1].op = "make" /\ c[p + 1].res = r))
      BY <1>3, <1>7, <1>8, MadeNext
    <3> QED BY <1>1, <1>5, <1>8, <3>1
  <2> QED BY <2>1
<1>12. Phase'
  <2>1. \A r \in Resources : MadeBy(p + 1, r) => r \in up'
    BY <1>2, <1>9, <1>11
  <2>2. \A r \in up' \ (stuck' \cup Idempotent) : MadeBy(p + 1, r)
    BY <1>2, <1>9, <1>10, <1>11
  <2>3. pump'.at # "none" => p + 1 = Len(Constructors)
    BY <1>2, <1>7, <1>8, <1>10 DEF Next1
  <2>4. Head(todo).op # "make" /\ found' = found
    BY <1>1, <1>2, <1>5
  <2> QED BY <1>2, <1>5, <1>6, <2>1, <2>2, <2>3, <2>4, BootNext
<1>13. Held' /\ PumpOK'
  <2>1. Held'
    BY <1>2, <1>3, <1>4 DEF Held
  <2>2. [at |-> "arm", i |-> 0] \in [at : {"none", "arm", "wait", "hold", "ended"}, i : 0 .. Encoders]
    BY CaptureAssumption
  <2>3. pump' \in [at : {"none", "arm", "wait", "hold", "ended"}, i : 0 .. Encoders] /\ pump'.at # "ended"
    BY <1>2, <1>3, <1>8, <2>2 DEF PumpOK
  <2> QED BY <2>1, <2>3 DEF PumpOK
<1>14. StandsOn'
  <2>1. \A r \in Standing : Needs(r) \subseteq up \cup Touched
    BY <1>6, Booting
  <2>2. Standing' = Standing /\ Touched' = Touched
    BY <1>2 DEF Standing, Touched
  <2> QED BY <1>2, <2>1, <2>2 DEF StandsOn
<1> QED BY <1>2, <1>3, <1>4, <1>12, <1>13, <1>14 DEF ChainInv

\* The weight of a resource is a number.
LEMMA WeightIs ==
  ASSUME Configured, NEW r \in Own
  PROVE  W(r) \in Int
<1>1. vis \in Int /\ Layers \in Int /\ r[2] \in Int
  <2>1. Numbers \subseteq Es \cup {Encoders} /\ Vs \subseteq Int /\ Ls \subseteq Int /\ Es \cup {Encoders} \subseteq Int
    BY OwnIn, CaptureAssumption DEF Vs, Ls, Es
  <2>2. vis \in Int /\ Layers \in Int
    BY CaptureAssumption DEF Configured
  <2>3. CASE r \in {"layer"} \X Ls
    BY <2>1, <2>2, <2>3
  <2>4. CASE r \in {"vb", "sys", "mipi", "sensor", "grp", "started", "viBind"} \X {0}
    BY <2>2, <2>4
  <2>5. CASE r \in {"dev", "pipe", "run", "chn", "isp", "ispRun"} \X Vs
    BY <2>1, <2>2, <2>5
  <2>6. CASE r \in {"enc", "recv", "bind"} \X Numbers
    BY <2>1, <2>2, <2>6
  <2> QED BY <2>3, <2>4, <2>5, <2>6 DEF Own
<1> QED BY <1>1 DEF W

\* A call of boot that fails finds nothing there that it makes, or another VI object
\* made it; and its ISP does not run.
LEMMA FailsFirst ==
  ASSUME ChainInv, NEW p \in 0 .. Len(Constructors), BootAt(p), NEW c, c = Constructors[p + 1],
         p < Len(Constructors), c.op = "make"
  PROVE  /\ c.res \in Own
         /\ p > 0 /\ (p + 1 = Second /\ vis > 1 => c.res = <<"dev", 0>>)
         /\ \A q \in up \ (stuck \cup Idempotent) : MadeBy(p, q)
         /\ \A q \in up \ (stuck \cup Idempotent) : (vis > 1 /\ p + 1 = Second) \/ c.res \in Idempotent \/ W(q) < W(c.res)
<1>1. Configured
  BY DEF ChainInv
<1> DEFINE n == Len(Constructors)
<1>2. n \in Nat /\ n = Len(Constructors) /\ Second \in Nat /\ vis \in Nat \ {0}
  BY <1>1, BootLength
<1>3. p \in Nat /\ p < n /\ p + 1 \in 1 .. n /\ (vis > 1 => p < Second)
  BY <1>2 DEF BootAt
<1> HIDE DEF n
<1>4. c.res \in Own /\ Constructors[1].op = "clear"
  BY <1>1, <1>2, <1>3, BootCall
<1>5. p > 0
  <2>1. p # 0
    BY <1>4
  <2> QED BY <1>3, <2>1
<1>6. ASSUME vis > 1, p + 1 = Second PROVE c.res = <<"dev", 0>>
  <2>1. Constructors[p + 1] = C("make", "dev", 0)
    BY <1>1, <1>2, <1>3, <1>6, SecondThere
  <2> QED BY <2>1 DEF C
<1>7. \A q \in up \ (stuck \cup Idempotent) : MadeBy(p, q)
  BY <1>5 DEF BootAt
<1>8. ASSUME NEW q \in up \ (stuck \cup Idempotent), ~(vis > 1 /\ p + 1 = Second), c.res \notin Idempotent
      PROVE  W(q) < W(c.res)
  <2>1. p < Reach
    BY <1>2, <1>3, <1>8 DEF Reach
  <2>2. MadeBy(p, q) /\ q \notin Idempotent
    BY <1>7, <1>8
  <2> QED BY <1>1, <1>2, <1>3, <1>8, <2>1, <2>2, MadeBelow
<1> QED BY <1>4, <1>5, <1>6, <1>7, <1>8

\* A call of boot that is refused.
LEMMA RefusedStep ==
  ASSUME ChainInv, MakeRefused \/ ParamRefused
  PROVE  ChainInv'
<1>1. PICK op \in {"make", "param"} : Next1(op) /\ ((MakeRefused /\ op = "make") \/ (ParamRefused /\ op = "param"))
  BY DEF MakeRefused, ParamRefused
<1>2. /\ UNCHANGED config /\ proc' = proc /\ up' = up /\ touched' = touched /\ stuck' = stuck /\ objs' = objs /\ pump' = pump
      /\ (found' = found) \/ (op = "make" /\ found' = (found \/ There))
      /\ refusals' = refusals \/ refusals' = refusals + 1
      /\ todo' = Then(Undo(Res), Mark("die", 0))
  BY <1>1 DEF MakeRefused, ParamRefused, Fail, Refuse, Then
<1>3. Configured /\ Held /\ PumpOK /\ StandsOn /\ Phase /\ (found => vis > 1 \/ stuck # {})
  BY DEF ChainInv
<1>4. Configured' /\ vis' = vis /\ ids' = ids /\ chans' = chans
  BY <1>2, <1>3, Same
<1>5. proc = "boot" /\ todo # <<>> /\ Head(todo).op = op /\ Head(todo).res = Res
  BY <1>1, NextPhase DEF Next1, Res
<1>6. PICK p \in 0 .. Len(Constructors) : BootAt(p)
  BY <1>1, NextPhase
<1> DEFINE n == Len(Constructors)
<1>7. n \in Nat /\ n = Len(Constructors) /\ Second \in Nat /\ vis \in Nat \ {0}
  BY <1>3, BootLength
<1>8. p \in Nat /\ p < n /\ Head(todo) = Constructors[p + 1] /\ pump.at = "none"
  BY <1>5, <1>6, <1>7, Booting
<1>9. vis > 1 => p < Second
  BY <1>6 DEF BootAt
<1> HIDE DEF n
<1> DEFINE x == Standing \ InProcess
<1>10. x \subseteq Resources \ InProcess /\ x \subseteq up \ stuck
  BY <1>3 DEF Held, Standing
<1>11. ASSUME op = "make"
       PROVE  /\ Res \in Own /\ Before(Res, x)
              /\ There => vis > 1 \/ stuck # {}
              /\ Res[1] \in {"isp", "ispRun"} => <<"ispRun", Res[2]>> \notin up
  <2> DEFINE c == Constructors[p + 1]
  <2>1. c.op = "make" /\ c.res = Res /\ c = Constructors[p + 1] /\ p < Len(Constructors)
    BY <1>5, <1>7, <1>8, <1>11
  <2> HIDE DEF c
  <2>2. /\ c.res \in Own
        /\ p > 0 /\ (p + 1 = Second /\ vis > 1 => c.res = <<"dev", 0>>)
        /\ \A q \in up \ (stuck \cup Idempotent) : MadeBy(p, q)
        /\ \A q \in up \ (stuck \cup Idempotent) : (vis > 1 /\ p + 1 = Second) \/ c.res \in Idempotent \/ W(q) < W(c.res)
    BY <1>6, <2>1, FailsFirst
  <2>3. Before(Res, x)
    <3>1. \A q \in x : q \notin Idempotent => MadeBy(p, q)
      BY <1>10, <2>2
    <3> HIDE DEF x
    <3> QED BY <1>3, <1>8, <1>9, <1>10, <2>1, <3>1, BeforeFails
  <2>4. There => vis > 1 \/ stuck # {}
    <3>1. ASSUME There, vis = 1, stuck = {} PROVE FALSE
      <4>1. Res \in up \ (stuck \cup Idempotent)
        BY <3>1 DEF There
      <4>2. W(Res) < W(Res)
        BY <2>1, <2>2, <3>1, <4>1
      <4>3. W(Res) \in Int
        BY <1>3, <2>1, <2>2, WeightIs
      <4> QED BY <4>2, <4>3
    <3> QED BY <1>7, <3>1
  <2>5. ASSUME Res[1] \in {"isp", "ispRun"}, <<"ispRun", Res[2]>> \in up PROVE FALSE
    <3>1. Res \in {"isp", "ispRun"} \X Vs
      BY <2>1, <2>2, <2>5 DEF Own
    <3>2. PICK v \in Vs : Res = <<"isp", v>> \/ Res = <<"ispRun", v>>
      BY <3>1
    <3>3. v \in 0 .. MaxVis - 1 /\ v \in Int /\ vis \in Int
      BY <1>3, <1>7, <3>2, OwnIn, CaptureAssumption
    <3>4. <<"ispRun", v>> \in InProcess /\ <<"ispRun", v>> \in up
      BY <2>5, <3>2, <3>3 DEF InProcess, Resources
    <3>5. <<"ispRun", v>> \in up \ (stuck \cup Idempotent) /\ Res \notin Idempotent
      BY <1>3, <3>2, <3>4 DEF Held, Idempotent
    <3>6. Res # <<"dev", 0>>
      BY <3>2
    <3>7. W(<<"ispRun", v>>) < W(Res)
      BY <2>1, <2>2, <3>5, <3>6
    <3>8. W(<<"ispRun", v>>) = 4 + 4 * vis + 2 * v /\ (W(Res) = 3 + 4 * vis + 2 * v \/ W(Res) = 4 + 4 * vis + 2 * v)
      BY <3>2 DEF W
    <3> QED BY <3>3, <3>7, <3>8
  <2> QED BY <2>1, <2>2, <2>3, <2>4, <2>5
<1>12. op = "param" => Res[1] = "param"
  <2>1. p + 1 \in 1 .. n
    BY <1>7, <1>8
  <2>2. Constructors[p + 1].op = "param" => Constructors[p + 1].res[1] = "param"
    BY <1>3, <1>7, <2>1, BootCall
  <2> QED BY <1>5, <1>8, <2>2
<1> HIDE DEF x
<1>13. /\ Dies(todo', x)
       /\ \A i \in DOMAIN todo' : todo'[i].op = "stop" =>
            Res \in Own /\ Res[1] \in {"isp", "ispRun"} /\ todo'[i].res[2] = Res[2]
  <2>1. (Res \in Own /\ Before(Res, x)) \/ Res[1] = "param"
    BY <1>11, <1>12
  <2> DEFINE t == Then(Undo(Res), Mark("die", 0))
             r == Res
  <2>2. todo' = t /\ t = Then(Undo(r), Mark("die", 0)) /\ ((r \in Own /\ Before(r, x)) \/ r[1] = "param") /\ Res = r
    BY <1>2, <2>1
  <2> HIDE DEF t, r
  <2>3. /\ Dies(t, x)
        /\ \A i \in DOMAIN t : t[i].op = "stop" => r \in Own /\ r[1] \in {"isp", "ispRun"} /\ t[i].res[2] = r[2]
    BY <1>3, <2>2, UndoFails
  <2> QED BY <2>2, <2>3
<1>14. Standing' = Standing /\ Touched' = Touched
  BY <1>2 DEF Standing, Touched
<1>15. Failing'
  <2>1. (Standing \ InProcess)' = x
    BY <1>14 DEF x, InProcess, Resources, Es, Ls
  <2>2. \A i \in DOMAIN todo' : todo'[i].op = "stop" => <<"ispRun", todo'[i].res[2]>> \notin up
    <3>1. ASSUME NEW i \in DOMAIN todo', todo'[i].op = "stop" PROVE <<"ispRun", todo'[i].res[2]>> \notin up
      <4>1. Res \in Own /\ Res[1] \in {"isp", "ispRun"} /\ todo'[i].res[2] = Res[2]
        BY <1>13, <3>1
      <4>2. op # "param"
        BY <1>12, <4>1
      <4> QED BY <1>11, <4>1, <4>2
    <3> QED BY <3>1
  <2>3. Dies(todo', (Standing \ InProcess)')
    BY <1>13, <2>1
  <2> QED BY <1>2, <1>8, <2>2, <2>3 DEF Failing
<1>16. Phase'
  BY <1>2, <1>3, <1>5, <1>15 DEF Phase, Es
<1>17. Held' /\ PumpOK'
  <2>1. refusals' \in Nat /\ found' \in BOOLEAN
    <3>1. found' \in BOOLEAN
      BY <1>2, <1>3 DEF Held, There
    <3>2. refusals' \in Nat
      BY <1>2, <1>3 DEF Held
    <3> QED BY <3>1, <3>2
  <2>2. Held'
    BY <1>2, <1>3, <2>1 DEF Held
  <2> QED BY <1>2, <1>3, <1>8, <2>2 DEF PumpOK
<1>18. StandsOn'
  <2>1. \A r \in Standing : Needs(r) \subseteq up \cup Touched
    BY <1>6, Booting
  <2> QED BY <1>2, <1>14, <2>1 DEF StandsOn
<1>19. found' => vis' > 1 \/ stuck' # {}
  BY <1>2, <1>3, <1>4, <1>11
<1> QED BY <1>4, <1>16, <1>17, <1>18, <1>19 DEF ChainInv

\* What was undone goes on being undone, n calls later.
LEMMA FailGoesOn ==
  ASSUME ChainInv, Failing, NEW n \in Nat, n < Len(todo), todo' = Rest(todo, n), pump' = pump,
         up' \subseteq up, Standing' \subseteq Standing,
         \A r \in Standing' : r \in InProcess \/ \A j \in 1 .. n : ~Removes(todo[j], r)
  PROVE  Failing' /\ \E c \in Calls(todo)' : c.op = "die"
<1> DEFINE s == todo
           x == Standing \ InProcess
           y == Standing' \ InProcess
           t == Rest(s, n)
<1>1. Stops(s, FailOps, x) /\ s # <<>> /\ s[Len(s)].op = "die" /\ pump.at = "none"
  BY DEF Failing, Dies
<1>2. s \in Seq(CallSet) /\ Len(s) \in Nat /\ n < Len(s)
  <2>1. s \in Seq(CallSet)
    BY <1>1 DEF Stops
  <2> QED BY <2>1
<1>3. \A i \in DOMAIN s : s[i].op = "stop" => <<"ispRun", s[i].res[2]>> \notin up
  BY DEF Failing
<1>4. y \subseteq x /\ \A r \in y : \A j \in 1 .. n : ~Removes(s[j], r)
  OBVIOUS
<1>5. todo' = t /\ t = Rest(s, n) /\ y = (Standing \ InProcess)' /\ InProcess' = InProcess
  BY DEF InProcess, Resources, Es, Ls
<1>6. DOMAIN s = 1 .. Len(s)
  BY <1>2
<1> HIDE DEF s, x, y, t
<1>7. Stops(t, FailOps, y)
  BY <1>1, <1>2, <1>4, <1>5, StopsRest
<1>8. /\ DOMAIN t = 1 .. Len(s) - n /\ Len(t) = Len(s) - n /\ t # <<>>
      /\ \A i \in 1 .. Len(s) - n : t[i] = s[n + i]
  <2>1. n <= Len(s) /\ n # Len(s)
    BY <1>2
  <2>2. /\ DOMAIN Rest(s, n) = 1 .. Len(s) - n /\ Len(Rest(s, n)) = Len(s) - n /\ Rest(s, n) # <<>>
        /\ \A i \in 1 .. Len(s) - n : Rest(s, n)[i] = s[n + i]
    BY <1>2, <2>1, RestIs
  <2> QED BY <1>5, <2>2
<1>9. t[Len(t)].op = "die" /\ Len(t) \in DOMAIN t
  <2>1. Len(s) - n \in 1 .. Len(s) - n /\ n + (Len(s) - n) = Len(s)
    BY <1>2
  <2> QED BY <1>1, <1>8, <2>1
<1>10. \A i \in DOMAIN t : t[i].op = "stop" => <<"ispRun", t[i].res[2]>> \notin up'
  <2>1. ASSUME NEW i \in DOMAIN t PROVE n + i \in DOMAIN s /\ t[i] = s[n + i]
    BY <1>2, <1>6, <1>8, <2>1
  <2> QED BY <1>3, <2>1
<1>11. Dies(t, y)
  BY <1>7, <1>8, <1>9 DEF Dies
<1> QED BY <1>1, <1>5, <1>9, <1>10, <1>11 DEF Failing, Calls

\* Exit goes on, n calls later.
LEMMA ExitGoesOn ==
  ASSUME ChainInv, Exiting, NEW n \in Nat, n <= Len(todo), todo' = Rest(todo, n), vis' = vis, found' = found,
         Standing' \subseteq Standing, \A r \in Standing' : \A j \in 1 .. n : ~Covers(todo[j], r),
         \A v \in 0 .. MaxVis - 1 : <<"isp", v>> \in up' => <<"ispRun", v>> \in up'
  PROVE  Exiting'
<1> DEFINE s == todo
           x == Standing
           y == Standing'
           t == Rest(s, n)
           ops == ExitOps \cup {"clear"}
<1>1. /\ Stops(s, ops, x) /\ vis = 1 /\ found = FALSE
      /\ \A i, k \in DOMAIN s : i < k /\ s[i].op = "clear" => s[k].op = "clear"
      /\ \A r \in x : \E i \in DOMAIN s : Covers(s[i], r)
  BY DEF Exiting
<1>2. s \in Seq(CallSet) /\ Len(s) \in Nat /\ n <= Len(s)
  <2>1. s \in Seq(CallSet)
    BY <1>1 DEF Stops
  <2> QED BY <2>1
<1>3. y \subseteq x /\ \A r \in y : \A j \in 1 .. n : ~Covers(s[j], r) /\ ~Removes(s[j], r)
  BY DEF Covers
<1>4. todo' = t /\ t = Rest(s, n) /\ y = Standing'
  OBVIOUS
<1>5. DOMAIN s = 1 .. Len(s)
  BY <1>2
<1> HIDE DEF s, x, y, t, ops
<1>6. Stops(t, ops, y)
  BY <1>1, <1>2, <1>3, <1>4, StopsRest
<1>7. /\ DOMAIN t = 1 .. Len(s) - n
      /\ \A i \in 1 .. Len(s) - n : t[i] = s[n + i]
  BY <1>2, <1>4, RestIs
<1>8. \A i \in DOMAIN t : n + i \in DOMAIN s /\ t[i] = s[n + i] /\ i \in Int
  <2>1. ASSUME NEW i \in DOMAIN t PROVE n + i \in DOMAIN s /\ t[i] = s[n + i] /\ i \in Int
    BY <1>2, <1>5, <1>7, <2>1
  <2> QED BY <2>1
<1>9. \A i, k \in DOMAIN t : i < k /\ t[i].op = "clear" => t[k].op = "clear"
  <2>1. ASSUME NEW i \in DOMAIN t, NEW k \in DOMAIN t, i < k, t[i].op = "clear" PROVE t[k].op = "clear"
    <3>1. n + i < n + k
      BY <1>8, <2>1
    <3> QED BY <1>1, <1>8, <2>1, <3>1
  <2> QED BY <2>1
<1>10. \A r \in y : \E i \in DOMAIN t : Covers(t[i], r)
  <2>1. ASSUME NEW r \in y PROVE \E i \in DOMAIN t : Covers(t[i], r)
    <3>1. PICK k \in DOMAIN s : Covers(s[k], r)
      BY <1>1, <1>3
    <3>2. k \in 1 .. Len(s) /\ k \notin 1 .. n
      BY <1>3, <1>5, <3>1
    <3>3. k - n \in DOMAIN t /\ t[k - n] = s[k]
      BY <1>2, <1>7, <3>2
    <3> QED BY <3>1, <3>3
  <2> QED BY <2>1
<1> QED BY <1>1, <1>4, <1>6, <1>9, <1>10 DEF Exiting, ops, Covers, Removes

\* The first of the calls that stop something.
LEMMA FirstCall ==
  ASSUME todo # <<>>, NEW ops, NEW x, Stops(todo, ops, x)
  PROVE  /\ Len(todo) \in Nat /\ 1 <= Len(todo) /\ DOMAIN todo = 1 .. Len(todo)
         /\ Head(todo) = todo[1] /\ Tail(todo) = Rest(todo, 1) /\ todo[1] \in CallSet
         /\ todo[1].op = "drop" =>
              /\ todo[1].res \in Resources \ InProcess
              /\ \A r \in x : todo[1].res \notin Needs(r)
              /\ todo[1].skip \in Nat /\ 1 + todo[1].skip <= Len(todo)
              /\ \A k \in 1 .. 1 + todo[1].skip : todo[k].op = "drop" /\ todo[k].res \in Resources \ InProcess
<1> DEFINE s == todo
<1>1. /\ s \in Seq(CallSet) /\ s # <<>>
      /\ \A i \in DOMAIN s : s[i].op \in ops /\ (s[i].op = "drop" => s[i].res \in Resources \ InProcess)
      /\ Skips(s) /\ Orderly(s, x)
  BY DEF Stops
<1>2. Len(s) \in Nat /\ 1 <= Len(s) /\ DOMAIN s = 1 .. Len(s) /\ Head(s) = s[1] /\ s[1] \in CallSet
  BY <1>1
<1>3. Tail(s) = Rest(s, 1)
  <2>1. 0 \in Nat /\ 0 < Len(s) /\ 0 + 1 = 1
    BY <1>2
  <2> QED BY <1>1, <2>1, RestRest
<1> HIDE DEF s
<1>4. 1 \in DOMAIN s
  BY <1>2
<1>5. ASSUME s[1].op = "drop"
      PROVE  /\ s[1].res \in Resources \ InProcess
             /\ \A r \in x : s[1].res \notin Needs(r)
             /\ s[1].skip \in Nat /\ 1 + s[1].skip <= Len(s)
             /\ \A k \in 1 .. 1 + s[1].skip : s[k].op = "drop" /\ s[k].res \in Resources \ InProcess
  <2>1. \A r \in x : s[1].res \notin Needs(r)
    <3>1. ASSUME NEW r \in x, s[1].res \in Needs(r) PROVE FALSE
      <4>1. \E j \in 1 .. 1 - 1 : Removes(s[j], r)
        BY <1>1, <1>4, <1>5, <3>1 DEF Orderly
      <4> QED BY <4>1
    <3> QED BY <3>1
  <2>2. /\ s[1].skip \in Nat /\ 1 + s[1].skip <= Len(s)
        /\ \A k \in 1 .. 1 + s[1].skip : s[k].op = "drop"
    BY <1>1, <1>4, <1>5 DEF Skips
  <2>3. \A k \in 1 .. 1 + s[1].skip : k \in DOMAIN s
    BY <1>2, <2>2
  <2> QED BY <1>1, <1>4, <1>5, <2>1, <2>2, <2>3
<1> QED BY <1>2, <1>3, <1>5 DEF s

\* Stopping goes on, n calls later, after a failed boot and at exit.
LEMMA GoesOn ==
  ASSUME ChainInv, NEW op \in {"drop", "stop"}, Next1(op),
         NEW n \in Nat, n <= Len(todo), \A j \in 1 .. n : todo[j].op \in {"drop", "stop"}, todo' = Rest(todo, n),
         UNCHANGED config, proc' = proc, touched' = touched, found' = found, pump' = pump, objs' = objs,
         up' \subseteq up, stuck \subseteq stuck',
         \A r \in Standing' : (proc = "boot" /\ r \in InProcess) \/ \A j \in 1 .. n : ~Removes(todo[j], r),
         proc = "exit" => \A v \in 0 .. MaxVis - 1 : <<"isp", v>> \in up' => <<"ispRun", v>> \in up'
  PROVE  Phase' /\ (proc = "boot" => \A r \in InProcess : IspOrphaned(r)')
<1>1. Configured /\ Phase
  BY DEF ChainInv
<1>2. vis' = vis
  BY <1>1, Same
<1>3. Standing' \subseteq Standing
  BY DEF Standing, Touched
<1>4. CASE proc = "boot" /\ Failing
  <2>1. n < Len(todo)
    <3>1. todo \in Seq(CallSet) /\ todo # <<>> /\ todo[Len(todo)].op = "die"
      BY <1>4 DEF Failing, Dies, Stops
    <3>2. Len(todo) \in Nat /\ Len(todo) > 0
      BY <3>1
    <3>3. n # Len(todo)
      BY <3>1, <3>2
    <3> QED BY <3>2, <3>3
  <2>2. \A r \in Standing' : r \in InProcess \/ \A j \in 1 .. n : ~Removes(todo[j], r)
    OBVIOUS
  <2>3. Failing' /\ \E c \in Calls(todo)' : c.op = "die"
    BY <1>3, <1>4, <2>1, <2>2, FailGoesOn
  <2>4. InProcess' = InProcess
    BY DEF InProcess, Resources, Es, Ls
  <2> QED BY <1>1, <1>4, <2>3, <2>4 DEF Phase, Es, IspOrphaned
<1>5. CASE proc = "exit" /\ Exiting
  <2>1. \A r \in Standing' : \A j \in 1 .. n : ~Covers(todo[j], r)
    BY <1>5 DEF Covers
  <2>2. Exiting'
    BY <1>2, <1>3, <1>5, <2>1, ExitGoesOn
  <2> QED BY <1>5, <2>2 DEF Phase
<1> QED BY <1>4, <1>5, NextPhase

\* What lives in the process is stopped by the calls for it alone.
LEMMA StopsHere ==
  ASSUME ChainInv, NEW op \in {"drop", "stop", "free", "die", "clear"}, Next1(op),
         (proc = "boot" /\ Failing) \/ (proc = "exit" /\ Exiting)
  PROVE  /\ Len(todo) \in Nat /\ 1 <= Len(todo) /\ DOMAIN todo = 1 .. Len(todo)
         /\ todo # <<>> /\ todo[1] = Head(todo) /\ Tail(todo) = Rest(todo, 1)
         /\ todo[1].op = op /\ todo[1].res = Res /\ todo[1].res \in Names \X Int
         /\ op = "drop" =>
              /\ Res \in Resources \ InProcess
              /\ \A r \in Standing : Res \in Needs(r) => r \in InProcess /\ proc = "boot"
              /\ Head(todo).skip \in Nat /\ 1 + Head(todo).skip <= Len(todo)
              /\ \A k \in 1 .. 1 + Head(todo).skip : todo[k].op = "drop" /\ todo[k].res \in Resources \ InProcess
<1>1. todo # <<>> /\ Head(todo).op = op
  BY DEF Next1
<1>2. PICK ops, x : Stops(todo, ops, x) /\ (x = Standing \/ (x = Standing \ InProcess /\ proc = "boot"))
  <2>1. CASE proc = "boot" /\ Failing
    BY <2>1 DEF Failing, Dies
  <2>2. CASE proc = "exit" /\ Exiting
    BY <2>2 DEF Exiting
  <2> QED BY <2>1, <2>2
<1>3. /\ Len(todo) \in Nat /\ 1 <= Len(todo) /\ DOMAIN todo = 1 .. Len(todo)
      /\ Head(todo) = todo[1] /\ Tail(todo) = Rest(todo, 1) /\ todo[1] \in CallSet
      /\ todo[1].op = "drop" =>
           /\ todo[1].res \in Resources \ InProcess
           /\ \A r \in x : todo[1].res \notin Needs(r)
           /\ todo[1].skip \in Nat /\ 1 + todo[1].skip <= Len(todo)
           /\ \A k \in 1 .. 1 + todo[1].skip : todo[k].op = "drop" /\ todo[k].res \in Resources \ InProcess
  BY <1>1, <1>2, FirstCall
<1>4. todo[1].res \in Names \X Int /\ todo[1].res = Res /\ todo[1].op = op
  BY <1>1, <1>3 DEF CallSet, Res
<1>5. ASSUME op = "drop", NEW r \in Standing, Res \in Needs(r) PROVE r \in InProcess /\ proc = "boot"
  <2>1. r \notin x
    BY <1>3, <1>4, <1>5
  <2> QED BY <1>2, <2>1
<1> QED BY <1>1, <1>3, <1>4, <1>5

\* A call that stops something.
LEMMA DroppedStep ==
  ASSUME ChainInv, Dropped
  PROVE  ChainInv'
<1>1. /\ Next1("drop") /\ up' = up \ {Res} /\ todo' = Tail(todo) /\ UNCHANGED config /\ proc' = proc
      /\ touched' = touched /\ objs' = objs /\ pump' = pump /\ stuck' = stuck /\ found' = found /\ refusals' = refusals
  BY DEF Dropped, Done
<1>2. Configured /\ Held /\ PumpOK /\ StandsOn /\ Phase /\ (found => vis > 1 \/ stuck # {})
  BY DEF ChainInv
<1>3. Configured' /\ vis' = vis /\ ids' = ids /\ chans' = chans
  BY <1>1, <1>2, Same
<1>4. (proc = "boot" /\ Failing) \/ (proc = "exit" /\ Exiting)
  BY <1>1, NextPhase
<1>5. /\ Len(todo) \in Nat /\ 1 <= Len(todo)
      /\ Tail(todo) = Rest(todo, 1) /\ todo[1].op = "drop" /\ todo[1].res = Res
      /\ Res \in Resources \ InProcess
      /\ \A r \in Standing : Res \in Needs(r) => r \in InProcess /\ proc = "boot"
  BY <1>1, <1>4, StopsHere
<1>6. Standing' = Standing \ {Res} /\ Touched' = Touched
  BY <1>1 DEF Standing, Touched
<1>7. Phase' /\ (proc = "boot" => \A r \in InProcess : IspOrphaned(r)')
  <2>1. \A j \in 1 .. 1 : todo[j].op \in {"drop", "stop"}
    BY <1>5
  <2>2. \A r \in Standing' : \A j \in 1 .. 1 : ~Removes(todo[j], r)
    BY <1>5, <1>6 DEF Removes
  <2>3. proc = "exit" => \A v \in 0 .. MaxVis - 1 : <<"isp", v>> \in up' => <<"ispRun", v>> \in up'
    <3>1. ASSUME proc = "exit", NEW v \in 0 .. MaxVis - 1, <<"isp", v>> \in up' PROVE <<"ispRun", v>> \in up'
      <4>1. <<"ispRun", v>> \in up
        BY <1>1, <1>4, <3>1 DEF Exiting
      <4>2. <<"ispRun", v>> \in InProcess
        BY DEF InProcess, Resources
      <4> QED BY <1>1, <1>5, <4>1, <4>2
    <3> QED BY <3>1
  <2>4. todo' = Rest(todo, 1) /\ up' \subseteq up /\ stuck \subseteq stuck' /\ "drop" \in {"drop", "stop"} /\ 1 \in Nat
    BY <1>1, <1>5
  <2> QED BY <1>1, <1>5, <2>1, <2>2, <2>3, <2>4, GoesOn
<1>8. StandsOn'
  <2>1. ASSUME NEW r \in Standing' PROVE Needs(r) \subseteq up' \cup Touched' \/ IspOrphaned(r)'
    <3>1. r \in Standing
      BY <1>6
    <3>2. CASE proc = "boot" /\ r \in InProcess
      BY <1>7, <3>2
    <3>3. CASE ~(proc = "boot" /\ r \in InProcess)
      <4>1. Needs(r) \subseteq up \cup Touched
        BY <1>2, <3>1, <3>3 DEF StandsOn, IspOrphaned
      <4>2. Res \notin Needs(r)
        BY <1>5, <3>1, <3>3
      <4> QED BY <1>1, <1>6, <4>1, <4>2
    <3> QED BY <3>2, <3>3
  <2> QED BY <2>1 DEF StandsOn
<1>9. Held' /\ PumpOK'
  BY <1>1, <1>2, <1>3 DEF Held, PumpOK
<1> QED BY <1>1, <1>2, <1>3, <1>7, <1>8, <1>9 DEF ChainInv

\* A call that stops something is refused, and its function returns.
LEMMA DropRefusedStep ==
  ASSUME ChainInv, DropRefused
  PROVE  ChainInv'
<1> DEFINE last == Head(todo).skip + 1
           left == {todo[k].res : k \in 1 .. last}
<1>1. /\ Next1("drop") /\ up' = up /\ todo' = SubSeq(todo, last + 1, Len(todo)) /\ UNCHANGED config /\ proc' = proc
      /\ touched' = touched /\ objs' = objs /\ pump' = pump /\ stuck' = stuck \cup (left \cap up) /\ found' = found
      /\ refusals' = refusals \/ refusals' = refusals + 1
  BY DEF DropRefused, Refuse
<1>2. Configured /\ Held /\ PumpOK /\ StandsOn /\ Phase /\ (found => vis > 1 \/ stuck # {})
  BY DEF ChainInv
<1>3. Configured' /\ vis' = vis /\ ids' = ids /\ chans' = chans
  BY <1>1, <1>2, Same
<1>4. (proc = "boot" /\ Failing) \/ (proc = "exit" /\ Exiting)
  BY <1>1, NextPhase
<1>5. /\ last \in Nat /\ last <= Len(todo)
      /\ \A k \in 1 .. last : todo[k].op = "drop" /\ todo[k].res \in Resources \ InProcess
  <2>1. /\ Head(todo).skip \in Nat /\ 1 + Head(todo).skip <= Len(todo)
        /\ \A k \in 1 .. 1 + Head(todo).skip : todo[k].op = "drop" /\ todo[k].res \in Resources \ InProcess
    BY <1>1, <1>4, StopsHere
  <2>2. 1 + Head(todo).skip = last /\ last \in Nat
    BY <2>1
  <2> QED BY <2>1, <2>2
<1>6. Standing' = Standing \ left /\ Touched' = Touched /\ left \subseteq Resources \ InProcess
  BY <1>1, <1>5 DEF Standing, Touched
<1>7. todo' = Rest(todo, last)
  BY <1>1 DEF Rest
<1>8. \A r \in Standing' : \A j \in 1 .. last : ~Removes(todo[j], r)
  BY <1>5, <1>6 DEF Removes
<1> HIDE DEF last, left
<1>9. Phase' /\ (proc = "boot" => \A r \in InProcess : IspOrphaned(r)')
  <2>1. \A j \in 1 .. last : todo[j].op \in {"drop", "stop"}
    BY <1>5
  <2>2. proc = "exit" => \A v \in 0 .. MaxVis - 1 : <<"isp", v>> \in up' => <<"ispRun", v>> \in up'
    BY <1>1, <1>4 DEF Exiting
  <2>3. up' \subseteq up /\ stuck \subseteq stuck' /\ "drop" \in {"drop", "stop"}
    BY <1>1
  <2> QED BY <1>1, <1>5, <1>7, <1>8, <2>1, <2>2, <2>3, GoesOn
<1>10. StandsOn'
  <2>1. ASSUME NEW r \in Standing' PROVE Needs(r) \subseteq up' \cup Touched' \/ IspOrphaned(r)'
    <3>1. r \in Standing
      BY <1>6
    <3>2. CASE proc = "boot" /\ r \in InProcess
      BY <1>9, <3>2
    <3>3. CASE ~(proc = "boot" /\ r \in InProcess)
      <4>1. Needs(r) \subseteq up \cup Touched
        BY <1>2, <3>1, <3>3 DEF StandsOn, IspOrphaned
      <4> QED BY <1>1, <1>6, <4>1
    <3> QED BY <3>2, <3>3
  <2> QED BY <2>1 DEF StandsOn
<1>11. Held' /\ PumpOK'
  <2>1. refusals' \in Nat /\ (refusals > 0 => refusals' > 0)
    BY <1>1, <1>2 DEF Held
  <2>2. Held'
    BY <1>1, <1>2, <1>3, <1>6, <2>1 DEF Held
  <2> QED BY <1>1, <1>2, <1>3, <2>1, <2>2 DEF PumpOK
<1> QED BY <1>1, <1>2, <1>3, <1>9, <1>10, <1>11 DEF ChainInv

\* An ISP is stopped.
LEMMA IspStoppedStep ==
  ASSUME ChainInv, IspStopped
  PROVE  ChainInv'
<1> DEFINE v == Res[2]
<1>1. /\ Next1("stop") /\ todo' = Tail(todo) /\ UNCHANGED config /\ proc' = proc
      /\ up' = IF <<"ispRun", v>> \in up THEN up \ {<<"isp", v>>, <<"ispRun", v>>} ELSE up
      /\ touched' = touched /\ objs' = objs /\ pump' = pump /\ stuck' = stuck /\ found' = found /\ refusals' = refusals
  BY DEF IspStopped, Done
<1>2. Configured /\ Held /\ PumpOK /\ StandsOn /\ Phase /\ (found => vis > 1 \/ stuck # {})
  BY DEF ChainInv
<1>3. Configured' /\ vis' = vis /\ ids' = ids /\ chans' = chans
  BY <1>1, <1>2, Same
<1>4. (proc = "boot" /\ Failing) \/ (proc = "exit" /\ Exiting)
  BY <1>1, NextPhase
<1>5. /\ Len(todo) \in Nat /\ 1 <= Len(todo) /\ DOMAIN todo = 1 .. Len(todo)
      /\ Tail(todo) = Rest(todo, 1) /\ todo[1].op = "stop" /\ todo[1].res[2] = v
  BY <1>1, <1>4, StopsHere
<1> HIDE DEF v
<1>6. up' \subseteq up /\ Standing' \subseteq Standing /\ Touched' = Touched
  BY <1>1 DEF Standing, Touched
<1>7. proc = "boot" => <<"ispRun", v>> \notin up
  <2>1. 1 \in DOMAIN todo
    BY <1>5
  <2> QED BY <1>4, <1>5, <2>1 DEF Failing
<1>8. proc = "exit" => <<"isp", v>> \notin up' /\ <<"ispRun", v>> \notin up'
  <2>1. ASSUME proc = "exit", <<"ispRun", v>> \notin up, <<"isp", v>> \in up PROVE FALSE
    <3>1. v \in 0 .. MaxVis - 1
      BY <1>2, <2>1 DEF Held, Resources
    <3> QED BY <1>4, <2>1, <3>1 DEF Exiting
  <2> QED BY <1>1, <2>1
<1>9. Phase' /\ (proc = "boot" => \A r \in InProcess : IspOrphaned(r)')
  <2>1. \A j \in 1 .. 1 : todo[j].op \in {"drop", "stop"}
    BY <1>5
  <2>2. \A r \in Standing' : (proc = "boot" /\ r \in InProcess) \/ \A j \in 1 .. 1 : ~Removes(todo[j], r)
    <3>1. ASSUME NEW r \in Standing', Removes(todo[1], r) PROVE proc = "boot" /\ r \in InProcess
      <4>1. r \in {<<"isp", v>>, <<"ispRun", v>>}
        BY <1>5, <3>1 DEF Removes
      <4>2. r \in up' /\ r \in Resources
        BY <1>2, <1>6, <3>1 DEF Held, Standing
      <4> QED BY <1>4, <1>8, <4>1, <4>2 DEF InProcess
    <3> QED BY <3>1
  <2>3. proc = "exit" => \A u \in 0 .. MaxVis - 1 : <<"isp", u>> \in up' => <<"ispRun", u>> \in up'
    <3>1. ASSUME proc = "exit", NEW u \in 0 .. MaxVis - 1, <<"isp", u>> \in up' PROVE <<"ispRun", u>> \in up'
      <4>1. <<"ispRun", u>> \in up
        BY <1>4, <1>6, <3>1 DEF Exiting
      <4>2. u # v
        BY <1>8, <3>1
      <4> QED BY <1>1, <4>1, <4>2
    <3> QED BY <3>1
  <2>4. todo' = Rest(todo, 1) /\ stuck \subseteq stuck' /\ "stop" \in {"drop", "stop"} /\ 1 \in Nat
    BY <1>1, <1>5
  <2> QED BY <1>1, <1>5, <1>6, <2>1, <2>2, <2>3, <2>4, GoesOn
<1>10. StandsOn'
  <2>1. ASSUME NEW r \in Standing' PROVE Needs(r) \subseteq up' \cup Touched' \/ IspOrphaned(r)'
    <3>1. r \in Standing /\ r \in Resources /\ r \in up'
      BY <1>2, <1>6 DEF Standing, Held
    <3>2. CASE proc = "boot" /\ r \in InProcess
      BY <1>9, <3>2
    <3>3. CASE ~(proc = "boot" /\ r \in InProcess)
      <4>1. Needs(r) \subseteq up \cup Touched
        BY <1>2, <3>1, <3>3 DEF StandsOn, IspOrphaned
      <4>2. CASE proc = "boot"
        BY <1>1, <1>6, <1>7, <4>1, <4>2
      <4>3. CASE proc = "exit"
        <5>1. ASSUME NEW q \in Needs(r), q \in {<<"isp", v>>, <<"ispRun", v>>}, q \in up PROVE FALSE
          <6>1. q \in InProcess
            BY <1>2, <5>1 DEF Held, InProcess
          <6>2. PICK u \in 0 .. MaxVis - 1 : q = <<"isp", u>> /\ r = <<"ispRun", u>>
            BY <3>1, <5>1, <6>1, NeedsOutside
          <6>3. u = v
            BY <5>1, <6>2
          <6> QED BY <1>8, <3>1, <4>3, <6>2, <6>3
        <5> QED BY <1>1, <1>6, <4>1, <5>1
      <4> QED BY <1>4, <4>2, <4>3
    <3> QED BY <3>2, <3>3
  <2> QED BY <2>1 DEF StandsOn
<1>11. Held' /\ PumpOK'
  BY <1>1, <1>2, <1>3, <1>6 DEF Held, PumpOK
<1> QED BY <1>1, <1>2, <1>3, <1>9, <1>10, <1>11 DEF ChainInv

\* An ISP is not stopped, and its thread is joined for ever.
LEMMA IspHangsStep ==
  ASSUME ChainInv, IspHangs
  PROVE  ChainInv'
<1>1. /\ Next1("stop") /\ <<"ispRun", Res[2]>> \in up /\ proc' = "hung" /\ UNCHANGED config
      /\ todo' = todo /\ up' = up /\ touched' = touched /\ stuck' = stuck /\ found' = found /\ objs' = objs /\ pump' = pump
      /\ refusals' = refusals + 1
  BY DEF IspHangs, Refuse
<1>2. Configured /\ Held /\ PumpOK /\ StandsOn /\ Phase /\ (found => vis > 1 \/ stuck # {})
  BY DEF ChainInv
<1>3. Configured' /\ vis' = vis /\ ids' = ids /\ chans' = chans
  BY <1>1, <1>2, Same
<1>4. proc = "exit" /\ Exiting
  <2>1. (proc = "boot" /\ Failing) \/ (proc = "exit" /\ Exiting)
    BY <1>1, NextPhase
  <2>2. todo[1].op = "stop" /\ todo[1].res = Res /\ 1 \in DOMAIN todo
    BY <1>1, <2>1, StopsHere
  <2> QED BY <1>1, <2>1, <2>2 DEF Failing
<1>5. Standing' = Standing /\ Touched' = Touched
  BY <1>1 DEF Standing, Touched
<1>6. Phase'
  <2>1. Exiting'
    BY <1>1, <1>3, <1>4, <1>5 DEF Exiting, Covers, Removes
  <2> QED BY <1>1, <2>1 DEF Phase
<1>7. StandsOn'
  BY <1>1, <1>2, <1>4, <1>5 DEF StandsOn, IspOrphaned
<1>8. Held' /\ PumpOK'
  BY <1>1, <1>2, <1>3 DEF Held, PumpOK
<1> QED BY <1>1, <1>2, <1>3, <1>6, <1>7, <1>8 DEF ChainInv

\* The object of an encoder is freed.
LEMMA FreeStep ==
  ASSUME ChainInv, Free
  PROVE  ChainInv'
<1>1. /\ Next1("free") /\ todo' = Tail(todo) /\ UNCHANGED config /\ proc' = proc /\ up' = up
      /\ touched' = touched /\ objs' \subseteq objs /\ pump' = pump
      /\ stuck' = stuck /\ found' = found /\ refusals' = refusals
  BY DEF Free
<1>2. Configured /\ Held /\ PumpOK /\ StandsOn /\ Phase /\ (found => vis > 1 \/ stuck # {})
  BY DEF ChainInv
<1>3. Configured' /\ vis' = vis /\ ids' = ids /\ chans' = chans
  BY <1>1, <1>2, Same
<1>4. proc = "exit" /\ Exiting
  BY <1>1, NextPhase
<1>5. /\ Len(todo) \in Nat /\ 1 <= Len(todo)
      /\ Tail(todo) = Rest(todo, 1) /\ todo[1].op = "free"
  BY <1>1, <1>4, StopsHere
<1>6. Standing' = Standing /\ Touched' = Touched
  BY <1>1 DEF Standing, Touched
<1>7. Phase'
  <2>1. \A r \in Standing' : \A j \in 1 .. 1 : ~Covers(todo[j], r)
    BY <1>5 DEF Covers, Removes
  <2>2. \A v \in 0 .. MaxVis - 1 : <<"isp", v>> \in up' => <<"ispRun", v>> \in up'
    BY <1>1, <1>4 DEF Exiting
  <2>3. Standing' \subseteq Standing /\ todo' = Rest(todo, 1) /\ 1 \in Nat
    BY <1>1, <1>5, <1>6
  <2>4. Exiting'
    BY <1>1, <1>3, <1>4, <1>5, <2>1, <2>2, <2>3, ExitGoesOn
  <2> QED BY <1>1, <1>4, <2>4 DEF Phase
<1>8. StandsOn'
  BY <1>1, <1>2, <1>4, <1>6 DEF StandsOn, IspOrphaned
<1>9. Held' /\ PumpOK'
  BY <1>1, <1>2, <1>3 DEF Held, PumpOK
<1> QED BY <1>1, <1>2, <1>3, <1>7, <1>8, <1>9 DEF ChainInv

\* What the driver releases, or not, with the system.
LEMMA ClearStep ==
  ASSUME ChainInv, Clear
  PROVE  ChainInv'
<1>1. /\ Next1("clear") /\ todo' = Tail(todo) /\ UNCHANGED config /\ proc' = proc /\ objs' = objs /\ pump' = pump
      /\ found' = found
      /\ \/ up' = up \cap Kept /\ stuck' = stuck \cap Kept /\ touched' = {} /\ refusals' = refusals
         \/ up' = up /\ stuck' = stuck \cup (up \ Kept) /\ touched' = touched /\ refusals' = refusals + 1
  BY DEF Clear, Refuse
<1>2. Configured /\ Held /\ PumpOK /\ StandsOn /\ Phase /\ (found => vis > 1 \/ stuck # {})
  BY DEF ChainInv
<1>3. Configured' /\ vis' = vis /\ ids' = ids /\ chans' = chans
  BY <1>1, <1>2, Same
<1>4. Kept \subseteq Idempotent \cup InProcess /\ Idempotent \subseteq Kept /\ InProcess \subseteq Kept
  BY DEF Kept
<1>5. Held' /\ PumpOK'
  <2>1. refusals' \in Nat /\ (refusals > 0 => refusals' > 0) /\ up' \subseteq up /\ touched' \subseteq touched
    BY <1>1, <1>2 DEF Held
  <2>2. stuck' \subseteq stuck \cup (up \ InProcess)
    BY <1>1, <1>4
  <2>3. Held'
    BY <1>1, <1>2, <1>3, <2>1, <2>2 DEF Held
  <2> QED BY <1>1, <1>2, <1>3, <2>1, <2>3 DEF PumpOK
<1>6. /\ up' \subseteq up /\ up' \ stuck' \subseteq (up \ stuck) \cap Kept
      /\ Standing' \subseteq (Standing \cup Touched) \cap (up \ stuck) \cap Kept
  <2>1. up' \subseteq up /\ up' \ stuck' \subseteq (up \ stuck) \cap Kept
    BY <1>1
  <2>2. Standing' \subseteq up' \ stuck' /\ up \ stuck \subseteq Standing \cup Touched
    BY DEF Standing
  <2> QED BY <2>1, <2>2
<1>7. Touched \cap Kept = {}
  BY DEF Touched, Kept, Idempotent, InProcess
<1>8. CASE proc = "boot"
  <2>1. PICK p \in 0 .. Len(Constructors) : BootAt(p)
    BY <1>1, <1>8, NextPhase
  <2> DEFINE n == Len(Constructors)
             c == Constructors
  <2>2. n \in Nat /\ n = Len(Constructors) /\ c = Constructors
    BY <1>2, BootLength
  <2>3. p \in Nat /\ p < n /\ Head(todo) = c[p + 1] /\ pump.at = "none" /\ todo # <<>> /\ Head(todo).op = "clear"
    BY <1>1, <2>1, <2>2, Booting DEF Next1
  <2>4. found = FALSE /\ (p = 0 => up \cap InProcess = {}) /\ (p > 0 => \A r \in up \ (stuck \cup Idempotent) : MadeBy(p, r))
    BY <2>1 DEF BootAt
  <2> HIDE DEF n, c
  <2>5. \A r : ~MadeBy(p + 1, r)
    BY <1>2, <2>2, <2>3, MadeNext
  <2>6. (up \ stuck) \cap InProcess = {}
    <3>1. ASSUME NEW r \in up, r \notin stuck, r \in InProcess PROVE FALSE
      <4>1. r \notin Idempotent /\ r # <<"vb", 0>> /\ r # <<"sys", 0>>
        BY <3>1 DEF Idempotent, InProcess
      <4>2. p > 0
        BY <2>3, <2>4, <3>1
      <4>3. MadeBy(p, r)
        BY <2>4, <3>1, <4>1, <4>2
      <4>4. p <= n
        BY <2>2, <2>3
      <4> QED BY <1>2, <2>2, <2>3, <4>1, <4>3, <4>4, MadeOwn
    <3> QED BY <3>1
  <2>7. up' \ stuck' \subseteq Idempotent
    BY <1>4, <1>6, <2>6
  <2>8. Phase'
    <3>1. \A r \in Resources : MadeBy(p + 1, r) => r \in up'
      BY <2>5
    <3>2. \A r \in up' \ (stuck' \cup Idempotent) : MadeBy(p + 1, r)
      BY <2>7
    <3>3. pump'.at # "none" => p + 1 = Len(Constructors)
      BY <1>1, <2>3
    <3>4. Head(todo).op # "make" /\ todo # <<>>
      BY <2>3
    <3> QED BY <1>1, <1>8, <2>1, <3>1, <3>2, <3>3, <3>4, BootNext
  <2>9. StandsOn'
    <3>1. \A r \in Idempotent : Needs(r) = {}
      BY DEF Idempotent, Needs
    <3>2. Standing' \subseteq up' \ stuck'
      BY DEF Standing
    <3> QED BY <2>7, <3>1, <3>2 DEF StandsOn
  <2> QED BY <1>1, <1>3, <1>5, <2>4, <2>8, <2>9 DEF ChainInv
<1>9. CASE proc = "exit"
  <2>1. Exiting
    BY <1>1, <1>9, NextPhase
  <2>2. /\ Len(todo) \in Nat /\ 1 <= Len(todo) /\ DOMAIN todo = 1 .. Len(todo)
        /\ Tail(todo) = Rest(todo, 1) /\ todo[1].op = "clear"
    BY <1>1, <1>9, <2>1, StopsHere
  <2>3. \A k \in DOMAIN todo : todo[k].op = "clear"
    <3>1. ASSUME NEW k \in DOMAIN todo PROVE todo[k].op = "clear"
      <4>1. k = 1 \/ 1 < k
        BY <2>2
      <4>2. 1 \in DOMAIN todo
        BY <2>2
      <4> QED BY <2>1, <2>2, <4>1, <4>2 DEF Exiting
    <3> QED BY <3>1
  <2>4. \A r \in Standing : r = <<"vb", 0>> \/ r = <<"sys", 0>>
    <3>1. ASSUME NEW r \in Standing PROVE r = <<"vb", 0>> \/ r = <<"sys", 0>>
      <4>1. PICK k \in DOMAIN todo : Covers(todo[k], r)
        BY <2>1 DEF Exiting
      <4>2. todo[k].op = "clear"
        BY <2>3
      <4> QED BY <4>1, <4>2 DEF Covers, Removes
    <3> QED BY <3>1
  <2>5. Standing' = {}
    <3>1. <<"vb", 0>> \notin Kept /\ <<"sys", 0>> \notin Kept
      BY DEF Kept, Idempotent, InProcess
    <3> QED BY <1>6, <1>7, <2>4, <3>1
  <2>6. Phase'
    <3>1. \A v \in 0 .. MaxVis - 1 : <<"isp", v>> \in up' => <<"ispRun", v>> \in up'
      <4>1. ASSUME NEW v \in 0 .. MaxVis - 1, <<"isp", v>> \in up' PROVE <<"ispRun", v>> \in up'
        <5>1. <<"ispRun", v>> \in up
          BY <1>6, <2>1, <4>1 DEF Exiting
        <5>2. <<"ispRun", v>> \in Kept
          BY <1>4 DEF InProcess, Resources
        <5> QED BY <1>1, <5>1, <5>2
      <4> QED BY <4>1
    <3>2. Standing' \subseteq Standing /\ todo' = Rest(todo, 1) /\ 1 \in Nat
      BY <1>1, <2>2, <2>5
    <3>3. \A r \in Standing' : \A j \in 1 .. 1 : ~Covers(todo[j], r)
      BY <2>5
    <3>4. Exiting'
      BY <1>1, <1>3, <2>1, <2>2, <3>1, <3>2, <3>3, ExitGoesOn
    <3> QED BY <1>1, <1>9, <3>4 DEF Phase
  <2>7. StandsOn'
    BY <2>5 DEF StandsOn
  <2>8. found = FALSE
    BY <2>1 DEF Exiting
  <2> QED BY <1>1, <1>3, <1>5, <2>6, <2>7, <2>8 DEF ChainInv
<1> QED BY <1>1, <1>8, <1>9 DEF Next1

\* Nothing is taken.
LEMMA RestNone ==
  ASSUME NEW s, s \in Seq(CallSet)
  PROVE  Rest(s, 0) = s
<1>1. Len(s) \in Nat /\ (Len(s) = 0 => s = <<>>)
  OBVIOUS
<1>2. CASE Len(s) = 0
  <2>1. s = <<>>
    BY <1>1, <1>2
  <2>2. 0 <= Len(s) /\ 0 \in Nat
    BY <1>2
  <2>3. Rest(s, 0) = <<>> <=> 0 = Len(s)
    BY <2>2, RestIs
  <2> QED BY <1>2, <2>1, <2>3
<1>3. CASE Len(s) # 0
  <2>1. 0 < Len(s) /\ 0 \in Nat
    BY <1>1, <1>3
  <2> QED BY <2>1, RestRest
<1> QED BY <1>2, <1>3

\* A request reconfigures a channel.
LEMMA ReconfiguredStep ==
  ASSUME ChainInv, NEW l \in Ls, Reconfigured(l) \/ ReconfigureRefused(l)
  PROVE  ChainInv'
<1> DEFINE r == <<"layer", l>>
<1>1. /\ proc \in {"up", "exit"} /\ proc' = proc /\ UNCHANGED config
      /\ todo' = todo /\ stuck' = stuck /\ found' = found /\ objs' = objs /\ pump' = pump
      /\ \/ /\ Needs(r) \subseteq up /\ up' = up \cup {r} /\ refusals' = refusals
            /\ (proc = "up" /\ touched' = touched \ {l}) \/ (proc = "exit" /\ touched' = touched \cup {l})
         \/ up' = up \ {r} /\ touched' = touched \cup {l} /\ refusals' = refusals + 1
  BY DEF Reconfigured, ReconfigureRefused, Refuse
<1>2. Configured /\ Held /\ PumpOK /\ StandsOn /\ Phase /\ (found => vis > 1 \/ stuck # {})
  BY DEF ChainInv
<1>3. Configured' /\ vis' = vis /\ ids' = ids /\ chans' = chans /\ Constructors' = Constructors /\ Own' = Own
  BY <1>1, <1>2, Same
<1>4. /\ r \in Resources /\ r \in Own /\ r \notin InProcess /\ r = <<"layer", l>>
      /\ \A v : r # <<"isp", v>> /\ r # <<"ispRun", v>>
  BY DEF Resources, Own, InProcess
<1>5. Touched' \subseteq Touched \cup {r} /\ Touched \subseteq Touched' \cup {r} /\ (r \in up' \/ r \in Touched')
  BY <1>1 DEF Touched
<1> HIDE DEF r
<1>6. Held' /\ PumpOK'
  <2>1. refusals' \in Nat /\ (refusals > 0 => refusals' > 0)
    BY <1>1, <1>2 DEF Held
  <2>2. Held'
    BY <1>1, <1>2, <1>3, <1>4, <2>1 DEF Held
  <2> QED BY <1>1, <1>2, <1>3, <2>1, <2>2 DEF PumpOK
<1>7. up \cup Touched \subseteq up' \cup Touched' /\ up' \subseteq up \cup {r}
  BY <1>1, <1>5
<1>8. \A q \in Standing : Needs(q) \subseteq up \cup Touched
  BY <1>1, <1>2 DEF StandsOn, IspOrphaned
<1>9. ASSUME r \in Standing' PROVE Needs(r) \subseteq up'
  <2>1. r \in up'
    BY <1>9 DEF Standing
  <2> QED BY <1>1, <2>1
<1>10. Standing' \subseteq Standing \cup {r}
  BY <1>5, <1>7, <1>1 DEF Standing
<1>11. StandsOn'
  <2>1. \A q \in Standing' : Needs(q) \subseteq up' \cup Touched'
    BY <1>7, <1>8, <1>9, <1>10
  <2> QED BY <2>1 DEF StandsOn
<1>12. CASE proc = "up"
  <2>1. UpOK
    BY <1>2, <1>12 DEF Phase
  <2>2. up' \ stuck' \subseteq Own'
    BY <1>1, <1>3, <1>4, <1>7, <2>1 DEF UpOK
  <2>3. \A c \in Calls(Constructors) : c.op = "make" => c.res \in up' \cup Touched'
    BY <1>7, <2>1 DEF UpOK
  <2>4. Calls(Constructors)' = Calls(Constructors) /\ Es' = Es
    BY <1>3 DEF Calls, Es
  <2>5. UpOK'
    BY <1>1, <1>3, <2>1, <2>2, <2>3, <2>4 DEF UpOK
  <2>6. Phase'
    BY <1>1, <1>12, <2>5 DEF Phase
  <2> QED BY <1>1, <1>2, <1>3, <1>6, <1>11, <2>6 DEF ChainInv
<1>13. CASE proc = "exit"
  <2>1. Exiting
    BY <1>2, <1>13 DEF Phase
  <2>2. r \in Touched'
    BY <1>1, <1>13 DEF Touched, r
  <2>3. Standing' \subseteq Standing
    BY <1>10, <2>2 DEF Standing
  <2>4. \A v \in 0 .. MaxVis - 1 : <<"isp", v>> \in up' => <<"ispRun", v>> \in up'
    BY <1>1, <1>4, <2>1 DEF Exiting
  <2>5. todo' = Rest(todo, 0) /\ 0 <= Len(todo)
    <3>1. todo \in Seq(CallSet)
      BY <2>1 DEF Exiting, Stops
    <3>2. Len(todo) \in Nat
      BY <3>1
    <3> QED BY <1>1, <3>1, <3>2, RestNone
  <2>6. Exiting'
    <3>1. \A q \in Standing' : \A j \in 1 .. 0 : ~Covers(todo[j], q)
      OBVIOUS
    <3> QED BY <1>1, <1>3, <2>1, <2>3, <2>4, <2>5, <3>1, ExitGoesOn
  <2>7. Phase'
    BY <1>1, <1>13, <2>6 DEF Phase
  <2> QED BY <1>1, <1>2, <1>3, <1>6, <1>11, <2>7 DEF ChainInv
<1> QED BY <1>1, <1>12, <1>13

\* What the pump asks for is there while the process boots and runs, when the encoders
\* are numbered as their objects.
LEMMA EncoderThere ==
  ASSUME ChainInv, proc \in {"boot", "up"}, pump.at # "none", NEW i \in Es, chans[i] = i
  PROVE  <<"enc", i>> \in up
<1> DEFINE n == Len(Constructors)
           m == SysCalls
<1>1. Configured /\ Phase
  BY DEF ChainInv
<1>2. n \in Nat /\ n = Len(Constructors) /\ m \in Nat /\ m = SysCalls
  BY <1>1, BootLength, CaptureAssumption DEF SysCalls
<1> HIDE DEF n, m
<1>3. BootShape(Constructors, m, n)
  BY <1>1, <1>2, BootIs
<1>4. PICK k \in m + 1 .. n - 1 : Constructors[k] = C("make", "enc", chans[i])
  BY <1>3 DEF BootShape
<1>5. k \in 1 .. n /\ Constructors[k].op = "make" /\ Constructors[k].res = <<"enc", i>>
  BY <1>2, <1>4 DEF C
<1>6. CASE proc = "boot"
  <2>1. ~Failing
    BY DEF Failing
  <2>2. PICK p \in 0 .. Len(Constructors) : BootAt(p)
    BY <1>1, <1>6, <2>1 DEF Phase
  <2>3. p = n /\ \A r \in Resources : MadeBy(p, r) => r \in up
    BY <1>2, <2>2 DEF BootAt
  <2>4. MadeBy(n, <<"enc", i>>)
    BY <1>1, <1>2, <1>5, MadeAll
  <2>5. <<"enc", i>> \in Resources
    BY <1>1, <1>2, <1>5, BootCall, OwnIn
  <2> QED BY <2>3, <2>4, <2>5
<1>7. CASE proc = "up"
  <2>1. UpOK
    BY <1>1, <1>7 DEF Phase
  <2>2. Constructors[k] \in Calls(Constructors)
    <3>1. Constructors \in Seq(CallSet)
      BY <1>1, BootLength
    <3>2. k \in DOMAIN Constructors
      BY <1>2, <1>5, <3>1
    <3> QED BY <3>2 DEF Calls
  <2>3. <<"enc", i>> \in up \cup Touched
    BY <1>5, <2>1, <2>2 DEF UpOK
  <2>4. <<"enc", i>> \notin Touched
    BY DEF Touched
  <2> QED BY <2>3, <2>4
<1> QED BY <1>6, <1>7

\* A step of the pump alone.
LEMMA PumpKeeps ==
  ASSUME ChainInv, PumpOnly, proc # "down", pump.at # "none",
         refusals' = refusals \/ refusals' = refusals + 1, PumpOK'
  PROVE  ChainInv'
<1>1. /\ UNCHANGED config /\ proc' = proc /\ todo' = todo /\ up' = up /\ touched' = touched /\ stuck' = stuck
      /\ found' = found /\ objs' = objs
  BY DEF PumpOnly
<1>2. Configured /\ Held /\ StandsOn /\ Phase /\ (found => vis > 1 \/ stuck # {})
  BY DEF ChainInv
<1>3. /\ Configured' /\ vis' = vis /\ Constructors' = Constructors /\ Own' = Own /\ Second' = Second
      /\ \A p, r : MadeBy(p, r)' <=> MadeBy(p, r)
  BY <1>1, <1>2, Same
<1>4. Held'
  <2>1. refusals' \in Nat
    BY <1>2 DEF Held
  <2> QED BY <1>1, <1>2, <2>1 DEF Held
<1>5. Standing' = Standing /\ Touched' = Touched
  BY <1>1 DEF Standing, Touched
<1>6. StandsOn'
  BY <1>1, <1>2, <1>5 DEF StandsOn, IspOrphaned, Calls
<1>7. CASE proc = "boot"
  <2>1. ~Failing
    BY DEF Failing
  <2>2. PICK p \in 0 .. Len(Constructors) : BootAt(p)
    BY <1>2, <1>7, <2>1 DEF Phase
  <2>3. BootAt(p)'
    BY <1>1, <1>3, <2>2 DEF BootAt
  <2>4. Phase'
    BY <1>1, <1>2, <1>3, <1>7, <2>3 DEF Phase, Es
  <2> QED BY <1>1, <1>2, <1>3, <1>4, <1>6, <2>4 DEF ChainInv
<1>8. CASE proc = "up"
  <2>1. UpOK'
    BY <1>1, <1>2, <1>3, <1>5, <1>8 DEF UpOK, Phase, Es, Calls
  <2> QED BY <1>1, <1>2, <1>3, <1>4, <1>6, <1>8, <2>1 DEF ChainInv, Phase
<1>9. CASE proc \in {"exit", "hung"}
  <2>1. Exiting'
    BY <1>1, <1>2, <1>3, <1>5, <1>9 DEF Exiting, Phase
  <2> QED BY <1>1, <1>2, <1>3, <1>4, <1>6, <1>9, <2>1 DEF ChainInv, Phase
<1> QED BY <1>2, <1>7, <1>8, <1>9 DEF Phase

\* The pump arms, ends, waits, takes and delivers.
LEMMA PumpStep ==
  ASSUME ChainInv, Armed \/ ArmRefused \/ Ready \/ Deliver \/ \E e \in Es : Take(e)
  PROVE  ChainInv'
<1> DEFINE Pumps == [at : {"none", "arm", "wait", "hold", "ended"}, i : 0 .. Encoders]
<1>1. /\ PumpOnly /\ proc # "down" /\ pump.at # "none" /\ pump.at # "ended"
      /\ refusals' = refusals \/ refusals' = refusals + 1
  BY DEF Armed, ArmRefused, Ready, Deliver, Take, Pumping, Running, Refuse
<1>2. Held /\ PumpOK /\ Configured
  BY DEF ChainInv
<1>3. objs \subseteq Es /\ Es \subseteq 0 .. Encoders - 1 /\ Encoders \in Nat /\ refusals \in Nat
  BY <1>2, CaptureAssumption DEF Held, Es
<1>4. pump' \in Pumps /\ (pump'.at = "ended" => ArmRefused)
  <2>1. pump \in Pumps
    BY <1>2 DEF PumpOK
  <2>2. CASE Armed
    <3>1. pump' = [pump EXCEPT !.i = @ + 1] /\ pump.i \in objs /\ pump.at = "arm"
      BY <2>2 DEF Armed, Pumping
    <3>2. pump.i + 1 \in 0 .. Encoders
      BY <1>3, <3>1
    <3> QED BY <2>1, <3>1, <3>2
  <2>3. CASE ArmRefused
    <3>1. pump' = [pump EXCEPT !.at = "ended"]
      BY <2>3 DEF ArmRefused
    <3> QED BY <2>1, <2>3, <3>1
  <2>4. CASE Ready \/ Deliver
    <3>1. pump' = [at |-> "wait", i |-> 0]
      BY <2>4 DEF Ready, Deliver
    <3> QED BY <1>3, <3>1
  <2>5. CASE \E e \in Es : Take(e)
    <3>1. PICK e \in Es : pump' = [at |-> "hold", i |-> e]
      BY <2>5 DEF Take
    <3> QED BY <1>3, <3>1
  <2> QED BY <2>2, <2>3, <2>4, <2>5
<1>5. ASSUME ArmRefused
      PROVE  refusals' > 0 \/ proc \notin {"boot", "up"} \/ \E e \in Es : {ids[e], chans[e]} # {e}
  <2>1. pump.i \in Es /\ (IF Asked(pump.i) THEN Refuse ELSE UNCHANGED refusals)
    BY <1>3, <1>5 DEF ArmRefused
  <2>2. CASE Refuse
    BY <1>3, <2>2 DEF Refuse
  <2>3. CASE ~Refuse
    <3>1. ASSUME proc \in {"boot", "up"}, \A e \in Es : {ids[e], chans[e]} = {e} PROVE FALSE
      <4>1. ids[pump.i] = pump.i /\ chans[pump.i] = pump.i
        BY <2>1, <3>1
      <4>2. <<"enc", pump.i>> \in up
        BY <1>1, <2>1, <3>1, <4>1, EncoderThere
      <4>3. Asked(pump.i)
        BY <4>1, <4>2 DEF Asked
      <4> QED BY <2>1, <2>3, <4>3
    <3> QED BY <3>1
  <2> QED BY <2>2, <2>3
<1>6. PumpOK'
  <2>1. ids' = ids /\ chans' = chans /\ proc' = proc
    BY <1>1 DEF PumpOnly, config
  <2>2. pump'.at = "ended" => refusals' > 0 \/ proc' \notin {"boot", "up"} \/ \E e \in Es : {ids'[e], chans'[e]} # {e}
    BY <1>4, <1>5, <2>1
  <2> QED BY <1>4, <2>2 DEF PumpOK, Es
<1> QED BY <1>1, <1>6, PumpKeeps

\* Nothing is there at first.
LEMMA ChainInvInit == Init => ChainInv
<1> SUFFICES ASSUME Init PROVE ChainInv
  OBVIOUS
<1>1. Configured
  BY DEF Init, Configured
<1>2. Held
  BY DEF Init, Held
<1>3. PumpOK
  BY CaptureAssumption DEF Init, PumpOK, None
<1>4. StandsOn
  BY DEF Init, StandsOn, Standing
<1>5. Phase
  BY DEF Init, Phase, None
<1> QED BY <1>1, <1>2, <1>3, <1>4, <1>5 DEF Init, ChainInv

\* A step that changes nothing.
LEMMA ChainStutter ==
  ASSUME ChainInv, UNCHANGED vars
  PROVE  ChainInv'
<1>1. /\ UNCHANGED config /\ proc' = proc /\ todo' = todo /\ up' = up /\ touched' = touched /\ stuck' = stuck
      /\ found' = found /\ objs' = objs /\ pump' = pump /\ refusals' = refusals
  BY DEF vars
<1>2. Configured /\ Held /\ PumpOK /\ StandsOn /\ Phase /\ (found => vis > 1 \/ stuck # {})
  BY DEF ChainInv
<1>3. /\ Configured' /\ vis' = vis /\ ids' = ids /\ chans' = chans
      /\ Constructors' = Constructors /\ Own' = Own /\ Second' = Second
      /\ \A p, r : MadeBy(p, r)' <=> MadeBy(p, r)
  BY <1>1, <1>2, Same
<1>4. Standing' = Standing /\ Touched' = Touched /\ Held' /\ PumpOK'
  BY <1>1, <1>2, <1>3 DEF Standing, Touched, Held, PumpOK
<1>5. StandsOn'
  BY <1>1, <1>2, <1>4 DEF StandsOn, IspOrphaned, Calls
<1>6. ASSUME NEW p, BootAt(p) PROVE BootAt(p)'
  BY <1>1, <1>3, <1>6 DEF BootAt
<1>7. Failing => Failing'
  BY <1>1, <1>4 DEF Failing
<1>8. UpOK => UpOK'
  BY <1>1, <1>3, <1>4 DEF UpOK, Es, Calls
<1>9. Exiting => Exiting'
  BY <1>1, <1>3, <1>4 DEF Exiting
<1>10. Phase'
  BY <1>1, <1>2, <1>3, <1>6, <1>7, <1>8, <1>9 DEF Phase, Es
<1> QED BY <1>1, <1>2, <1>3, <1>4, <1>5, <1>10 DEF ChainInv

\* Every action keeps the invariant.
LEMMA ChainInvNext == ChainInv /\ [Next]_vars => ChainInv'
<1> SUFFICES ASSUME ChainInv, [Next]_vars PROVE ChainInv'
  OBVIOUS
<1>1. CASE Start
  BY <1>1, StartStep
<1>2. CASE Main
  BY <1>2, MainStep
<1>3. CASE Exit
  BY <1>3, ExitStep
<1>4. CASE Exited \/ Kill \/ Abort \/ Segfault \/ Trample
  BY <1>4, DieStep DEF Exited, Kill, Abort, Segfault, Trample
<1>5. CASE Made
  BY <1>5, MadeStep
<1>6. CASE MakeRefused \/ ParamRefused
  BY <1>6, RefusedStep
<1>7. CASE Param \/ StartPump
  BY <1>7, ParamStep
<1>8. CASE Dropped
  BY <1>8, DroppedStep
<1>9. CASE DropRefused
  BY <1>9, DropRefusedStep
<1>10. CASE IspStopped
  BY <1>10, IspStoppedStep
<1>11. CASE IspHangs
  BY <1>11, IspHangsStep
<1>12. CASE Clear
  BY <1>12, ClearStep
<1>13. CASE Free
  BY <1>13, FreeStep
<1>14. CASE \E l \in Ls : Reconfigured(l) \/ ReconfigureRefused(l)
  <2>1. PICK l \in Ls : Reconfigured(l) \/ ReconfigureRefused(l)
    BY <1>14
  <2> QED BY <2>1, ReconfiguredStep
<1>15. CASE Armed \/ ArmRefused \/ Ready \/ Deliver \/ \E e \in Es : Take(e)
  BY <1>15, PumpStep
<1>16. CASE UNCHANGED vars
  BY <1>16, ChainStutter
<1> QED BY <1>1, <1>2, <1>3, <1>4, <1>5, <1>6, <1>7, <1>8, <1>9, <1>10, <1>11, <1>12, <1>13, <1>14, <1>15, <1>16 DEF Next

\* The invariant holds at all times.
LEMMA ChainInvAlways == Spec => []ChainInv
<1>1. ChainInv /\ [Next]_vars => ChainInv'
  BY ChainInvNext
<1> QED BY ChainInvInit, <1>1, PTL DEF Spec

\* The invariant types the state.
LEMMA ChainTypes ==
  ASSUME ChainInv
  PROVE  TypeOK
<1>1. Configured /\ Held /\ PumpOK /\ Phase
  BY DEF ChainInv
<1>2. \A c \in Calls(todo) : c.op \in {"make", "drop"} => c.res \in Resources
  <2>1. CASE todo = <<>>
    BY <2>1 DEF Calls
  <2>2. CASE \E ops, x : Stops(todo, ops, x) /\ "make" \notin ops
    BY <2>2 DEF Stops, Calls
  <2>3. CASE \E p \in 0 .. Len(Constructors) : BootAt(p)
    <3>1. PICK p \in 0 .. Len(Constructors) : BootAt(p)
      BY <2>3
    <3>2. \A i \in DOMAIN todo :
            todo[i].op \in {"make", "param", "clear", "pump"} /\ (todo[i].op = "make" => todo[i].res \in Own)
      BY <3>1, Booting
    <3> QED BY <1>1, <3>2, OwnIn DEF Calls
  <2>4. Failing => \E ops, x : Stops(todo, ops, x) /\ "make" \notin ops
    <3>1. Failing => Stops(todo, FailOps, Standing \ InProcess) /\ "make" \notin FailOps
      BY DEF Failing, Dies, FailOps
    <3> QED BY <3>1
  <2>5. Exiting => \E ops, x : Stops(todo, ops, x) /\ "make" \notin ops
    <3>1. Exiting => Stops(todo, ExitOps \cup {"clear"}, Standing) /\ "make" \notin ExitOps \cup {"clear"}
      BY DEF Exiting, ExitOps
    <3> QED BY <3>1
  <2> QED BY <1>1, <2>1, <2>2, <2>3, <2>4, <2>5 DEF Phase, UpOK
<1> QED BY <1>1, <1>2 DEF TypeOK, Phase, Held, PumpOK

\* Whatever the driver holds stands on what it needs, at boot, while running, at exit
\* and in what a dead process leaves, and a process that reached main has the whole
\* chain: for any number of objects, VIs, encoders, layers, starts and refusals.
THEOREM ChainStandsAlways == Spec => []ChainStands
<1>1. ChainInv => ChainStands
  <2> SUFFICES ASSUME ChainInv PROVE ChainStands
    OBVIOUS
  <2>1. Phase /\ StandsOn
    BY DEF ChainInv
  <2>2. proc = "up" => {c.res : c \in {d \in Calls(Constructors) : d.op = "make"}} \subseteq up \cup Touched
    BY <2>1 DEF Phase, UpOK
  <2> QED BY <2>1, <2>2, ChainTypes DEF ChainStands, StandsOn, Standing
<1> QED BY ChainInvAlways, <1>1, PTL

\* A process never finds what it makes already there, however the one before it ended,
\* unless a release was refused or a second VI object starts all VIs once more; and
\* with several of them it never reaches main.
THEOREM StartsCleanAlways == Spec => []StartsClean
<1>1. ChainInv => StartsClean
  BY DEF ChainInv, Phase, UpOK, StartsClean
<1> QED BY ChainInvAlways, <1>1, PTL

\* At any moment of an exit, whatever the driver holds is still to be stopped, unless a
\* refused call made a stop function leave it out or a request touched it.
THEOREM ExitStopsAllAlways == Spec => []ExitStopsAll
<1>1. ChainInv => ExitStopsAll
  <2> SUFFICES ASSUME ChainInv, proc \in {"exit", "hung"}, NEW r \in Standing
               PROVE  \E c \in Calls(todo) : \/ c.res = r
                                             \/ c.op = "stop" /\ r \in InProcess
                                             \/ c.op = "clear" /\ r \in {<<"vb", 0>>, <<"sys", 0>>}
    BY DEF ExitStopsAll, Standing
  <2>1. Exiting /\ r \in Resources
    BY DEF ChainInv, Phase, Held, Standing
  <2>2. PICK i \in DOMAIN todo : Covers(todo[i], r)
    BY <2>1 DEF Exiting
  <2>3. todo[i] \in Calls(todo)
    BY DEF Calls
  <2> QED BY <2>1, <2>2, <2>3 DEF Covers, Removes, InProcess
<1> QED BY ChainInvAlways, <1>1, PTL

\* The pump of a process ends only for a refused call or a numbering of the encoders
\* that is not theirs, and reads a freed object only while the process exits.
THEOREM PumpEndsForCauseAlways == Spec => []PumpEndsForCause
<1>1. ChainInv => PumpEndsForCause
  BY DEF ChainInv, PumpOK, Phase, UpOK, PumpEndsForCause
<1> QED BY ChainInvAlways, <1>1, PTL
=============================================================================
