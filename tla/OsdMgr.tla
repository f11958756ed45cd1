------------------------------- MODULE OsdMgr -------------------------------
(***************************************************************************)
(* What the vsf process draws over the video: the set and trigger requests *)
(* of mod/vsf/src/interface/osd_mgr.c, which runs on the thread that serves*)
(* requests, and the regions of mod/vsf-hi3516d/src/hal/rgn.c that it      *)
(* keeps in the driver.  A mask is a cover over the captured picture; texts*)
(* and objects are drawn pixel by pixel into the canvas of an overlay.     *)
(*                                                                         *)
(* A request is one step: nobody else uses regions.  A driver call that    *)
(* fails makes an assert of the message handler fail, which ends the       *)
(* process.  Colours, glyphs and the corners of masks are left out, a text *)
(* is one character long.                                                  *)
(***************************************************************************)
EXTENDS Integers, FiniteSets

CONSTANTS Regions,   \* the regions
          Width,     \* the size of a canvas, in pixels
          Height,
          Pitch,     \* the distance of its rows: u32Stride, in pixels
          Unit,      \* the range of the coordinates in a request: 8192
          Word,      \* unsigned integers are below Word: 2^32
          Glyph,     \* the width and the height of a character, in pixels
          Margin,    \* how far left of its object a label begins: 34
          Boxes,     \* the rectangles of objects in requests
          Points     \* the places of texts in requests

ASSUME OsdAssumption ==
  /\ Unit \in Nat \ {0} /\ Glyph \in Nat /\ Margin \in Nat
  /\ Width \in Nat \ {0} /\ Height \in Nat \ {0} /\ Pitch \in Nat /\ Pitch >= Width
  /\ Word \in Nat /\ Word > 2 * Pitch * Height /\ Word > Unit * Width /\ Word > Unit * Height
  /\ \A b \in Boxes : b.x \in Int /\ b.y \in Int /\ b.w \in Nat /\ b.h \in Nat
  /\ \A p \in Points : p.x \in Int /\ p.y \in Int

VARIABLES cfg,       \* cfg[id]: the condition and the flag of cfgs[id], once it has been set
          rgn,       \* rgn[id]: the region in the driver, and how it was attached
          canvas,    \* canvas[id]: the pixels of its canvas that have a colour
          drawn,     \* history: the last request that drew into the canvas of id
          retouched, \* history: region id was triggered since it was set
          fault      \* what ended the process

osdVars == <<cfg, rgn, canvas, drawn, retouched, fault>>

Conditions == {"mask", "texts", "objs", "other"}
Requests ==
  [cond : {"mask", "other"}, enable : BOOLEAN, boxes : {{}}, points : {{}}]
    \cup [cond : {"texts"}, enable : BOOLEAN, boxes : {{}}, points : {{}} \cup {{p} : p \in Points}]
    \cup [cond : {"objs"}, enable : BOOLEAN, boxes : {{}} \cup {{b} : b \in Boxes}, points : {{}}]

Nothing == [cond |-> "other", enable |-> FALSE, boxes |-> {}, points |-> {}]
Stored(r) == [cond |-> r.cond, enable |-> r.enable]
Detached == [kind |-> "none", layer |-> 0, shown |-> FALSE]

OsdInit ==
  /\ cfg = [id \in Regions |-> Stored(Nothing)]
  /\ rgn = [id \in Regions |-> Detached]
  /\ canvas = [id \in Regions |-> {}]
  /\ drawn = [id \in Regions |-> Nothing]
  /\ retouched = [id \in Regions |-> FALSE]
  /\ fault = "none"
-----------------------------------------------------------------------------
(***************************************************************************)
(* Drawing.  A pixel is its place in the memory of the canvas.             *)
(***************************************************************************)
Least(a, b) == IF a < b THEN a ELSE b
Range(v, low, high) == IF v > high THEN high ELSE IF v < low THEN low ELSE v
Wrap(n) == n % Word

\* n rows further, computed from a stride in bytes; and a pixel.
Rows(n) == Wrap(n * 2 * Pitch) \div 2
Pixel(i, j) == Rows(j) + i
Pixels == 0 .. (Pitch * Height - 1)

\* A coordinate or a length of a request in pixels of a canvas of that size.
Scale(v, size) == (v * size) \div Unit
Place(v, size) == Scale(Range(v, 0, Unit - 1), size)

\* The rectangle of an object.  A length is unsigned: the room that is left
\* for it is compared as an unsigned number, too.  The mutant lets a rectangle
\* be as long as the picture, wherever it starts.
RectLoose(b) ==
  [x |-> Place(b.x, Width), y |-> Place(b.y, Height),
   w |-> Wrap(Least(b.w, Unit) * Width) \div Unit,
   h |-> Wrap(Least(b.h, Unit) * Height) \div Unit]
Rect(b) ==
  [x |-> Place(b.x, Width), y |-> Place(b.y, Height),
   w |-> Wrap(Least(b.w, Wrap(Unit - b.x)) * Width) \div Unit,
   h |-> Wrap(Least(b.h, Wrap(Unit - b.y)) * Height) \div Unit]

\* __draw_char: what is outside of the picture is skipped.
CharAt(x, y) ==
  {Pixel(i, j) : i \in (x .. x + Glyph - 1) \cap (0 .. Width - 1),
                 j \in (y .. y + Glyph - 1) \cap (0 .. Height - 1)}

\* __draw_text: the characters stand on the line through the point.
TextAt(p) == CharAt(Place(p.x, Width), Place(p.y, Height) - Glyph)

\* The border of __draw_obj, four pixels wide, counted from both ends in
\* unsigned numbers.
Border(r) ==
  LET begin == Rows(r.y) + r.x
      Ends(n) == (0 .. 3) \cup {n - l : l \in 1 .. 4}
  IN  {begin + Wrap(Rows(Wrap(k)) + i) : k \in Ends(r.h), i \in 0 .. r.w - 1}
        \cup {begin + Wrap(Rows(i) + Wrap(k)) : k \in Ends(r.w), i \in 0 .. r.h - 1}

ObjAt(b) ==
  LET r == Rect(b) IN
  IF Wrap(r.w * r.h) = 0 THEN {} ELSE Border(r) \cup TextAt([x |-> b.x - Margin, y |-> b.y])

\* What a request draws into a canvas that was cleared.
Drawing(r) == UNION ({ObjAt(b) : b \in r.boxes} \cup {TextAt(p) : p \in r.points})
-----------------------------------------------------------------------------
(***************************************************************************)
(* __vsf_osd_ctrl, and the two kinds of regions it controls.               *)
(***************************************************************************)
KindOf(cond) == IF cond = "mask" THEN "cover" ELSE "overlay"
LayerOf(cond) == CASE cond = "mask" -> 4 [] cond = "texts" -> 1 [] cond = "objs" -> 0

\* The driver attaches a region once, as a cover or as an overlay.
Accepts(id, kind) == rgn[id].kind \in {"none", kind}

\* __rgn_ctrl_cover: every request sets what is displayed.  The mutant does so
\* only when the region is attached.
CoverOnce(id, r) ==
  /\ rgn' = [rgn EXCEPT ![id] = IF @.kind = "cover" THEN @
                                ELSE [kind |-> "cover", layer |-> LayerOf(r.cond),
                                      shown |-> r.enable]]
  /\ UNCHANGED <<canvas, drawn, fault>>
Cover(id, r) ==
  /\ rgn' = [rgn EXCEPT ![id] = [kind |-> "cover", layer |-> LayerOf(r.cond), shown |-> r.enable]]
  /\ UNCHANGED <<canvas, drawn, fault>>

\* __rgn_ctrl_bitmap: shown from when it is attached, whatever the request
\* enables, in the layer of the first request.
Overlay(id, r) ==
  /\ rgn' = [rgn EXCEPT ![id] = [kind |-> "overlay", shown |-> TRUE,
                                 layer |-> IF @.kind = "none" THEN LayerOf(r.cond) ELSE @.layer]]
  /\ canvas' = [canvas EXCEPT ![id] = Drawing(r)]
  /\ drawn' = [drawn EXCEPT ![id] = r]
  /\ fault' = IF canvas'[id] \subseteq Pixels THEN "none" ELSE "draw"

\* A condition nobody knows is no error.  Any call of the driver may fail, and
\* one for a region that is attached otherwise always does.
Ctrl(id, r) ==
  \/ r.cond = "other" /\ UNCHANGED <<rgn, canvas, drawn, fault>>
  \/ r.cond # "other" /\ fault' = "driver" /\ UNCHANGED <<rgn, canvas, drawn>>
  \/ r.cond = "mask" /\ Accepts(id, "cover") /\ Cover(id, r)
  \/ r.cond \in {"texts", "objs"} /\ Accepts(id, "overlay") /\ Overlay(id, r)

\* msgbox_osd_set stores the configuration when the assert has held.
Set(id, r) ==
  /\ Ctrl(id, r)
  /\ cfg' = IF fault' = "none" THEN [cfg EXCEPT ![id] = Stored(r)] ELSE cfg
  /\ retouched' = [retouched EXCEPT ![id] = FALSE]

\* msgbox_osd_tgr does not.
Trigger(id, r) ==
  /\ Ctrl(id, r)
  /\ retouched' = [retouched EXCEPT ![id] = TRUE]
  /\ UNCHANGED cfg

OsdNext ==
  /\ fault = "none"
  /\ \E id \in Regions, r \in Requests : Set(id, r) \/ Trigger(id, r)

OsdSpec == OsdInit /\ [][OsdNext]_osdVars
-----------------------------------------------------------------------------
\* Every variable has its type, and covers are in a layer of their own.
OsdTypeOK ==
  /\ cfg \in [Regions -> [cond : Conditions, enable : BOOLEAN]]
  /\ rgn \in [Regions -> [kind : {"none", "cover", "overlay"}, layer : {0, 1, 4}, shown : BOOLEAN]]
  /\ \A id \in Regions : rgn[id].kind # "none" => (rgn[id].kind = "cover" <=> rgn[id].layer = 4)
  /\ drawn \in [Regions -> Requests]
  /\ retouched \in [Regions -> BOOLEAN]
  /\ fault \in {"none", "driver", "draw"}

\* A box of a request starts in the picture, and is at least as wide and as
\* high as its border.
InPicture(b) == b.x \in 0 .. Unit - 1 /\ b.y \in 0 .. Unit - 1
Thin(b) == Rect(b).w \in 1 .. 3 \/ Rect(b).h \in 1 .. 3

\* The border of a rectangle, pixel by pixel.
Frame(r) ==
  {Pixel(q[1], q[2]) : q \in {p \in (r.x .. r.x + r.w - 1) \X (r.y .. r.y + r.h - 1) :
       \/ p[1] < r.x + 4 \/ p[1] >= r.x + r.w - 4
       \/ p[2] < r.y + 4 \/ p[2] >= r.y + r.h - 4}}

\* A canvas shows the border and the label of each object, or the texts, of the
\* last request that drew into it, and nothing of an earlier one.  No pixel is
\* outside of the picture, also of what reaches over its edge, unless an object
\* starts outside of the picture or is thinner than the border: only those
\* make the drawing code leave the memory of the canvas.
CanvasIsLast ==
  \A id \in Regions :
    (\A b \in drawn[id].boxes : InPicture(b) /\ ~Thin(b)) =>
      /\ canvas[id] \subseteq {Pixel(i, j) : i \in 0 .. Width - 1, j \in 0 .. Height - 1}
      /\ canvas[id] =
           UNION ({TextAt(p) : p \in drawn[id].points} \cup
                  {Frame(Rect(b)) \cup TextAt([x |-> b.x - Margin, y |-> b.y]) :
                     b \in {o \in drawn[id].boxes : Rect(o).w > 0 /\ Rect(o).h > 0}})

\* The state is well formed, and while the process lives the driver shows what
\* the stored configuration says, whatever was set and triggered before: a mask
\* exactly when it is enabled, unless it was triggered since; texts and objects
\* always, because disabling them has no effect.
RegionAsConfigured ==
  /\ OsdTypeOK
  /\ fault = "none" =>
       \A id \in Regions : cfg[id].cond # "other" =>
         /\ rgn[id].kind = KindOf(cfg[id].cond)
         /\ rgn[id].kind = "overlay" => rgn[id].shown
         /\ (rgn[id].kind = "cover" /\ ~retouched[id]) => rgn[id].shown = cfg[id].enable
=============================================================================
