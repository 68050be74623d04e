------------------------------ MODULE ScrollSync ------------------------------
(***************************************************************************)
(* index.js, the two panes of the markdown demo that scroll together: a map from  *)
(* the rows of the source to places in the result, built when it is needed and     *)
(* dropped when what it was built from changes.  A pane is listened to while the    *)
(* mouse is over it; what it scrolls to, the other is brought to by an animation.    *)
(***************************************************************************)
EXTENDS Integers, Sequences, FiniteSetsExt

CONSTANTS Drafts,       \* texts: for each width of the window, rows and places
          Widths,
          LineHeight,   \* of a row of the source
          PaneHeight,   \* what a pane shows of its content
          ScrollBound   \* how often the reader scrolls

(* What the browser makes of a text: lines of one row or more, and blocks from above,    *)
(* each at the line it begins with, within the height of them all.                   *)
LaidOut(layout) ==
  /\ layout.rows \in Seq(Nat \ {0}) /\ layout.rows # <<>> /\ layout.height \in Nat
  /\ layout.blocks \in Seq([line : 0..(Len(layout.rows) - 1), top : 0..layout.height])
  /\ \A i, j \in DOMAIN layout.blocks :
       i < j => /\ layout.blocks[i].line < layout.blocks[j].line
                /\ layout.blocks[i].top <= layout.blocks[j].top

ASSUME ScrollAssumption ==
  /\ LineHeight \in Nat \ {0} /\ PaneHeight \in Nat \ {0} /\ ScrollBound \in Nat
  /\ Drafts # {} /\ Widths # {}
  /\ \A d \in Drafts : DOMAIN d = Widths /\ \A w \in Widths : LaidOut(d[w])

VARIABLE sc

scrollVars == <<sc>>

Panes == {"source", "result"}
other(p) == IF p = "source" THEN "result" ELSE "source"
NoMap == <<>>
Gap == -2          \* undefined, or not a number
Still == -1        \* no animation

ScrollOf(d, w) ==
  [draft |-> d, shown |-> d, width |-> w, map |-> NoMap, update |-> FALSE,
   top |-> [p \in Panes |-> 0], target |-> [p \in Panes |-> Still],
   heard |-> {}, due |-> {}, scrolls |-> 0,
   calm |-> "none", at |-> 0, together |-> FALSE]

ScrollInit == \E d \in Drafts, w \in Widths : sc = ScrollOf(d, w)

source == sc.draft[sc.width]     \* its lines: how many rows each takes
result == sc.shown[sc.width]     \* its blocks: the line and the place of each

-----------------------------------------------------------------------------
(* buildScrollMap: lines of the source to rows, blocks of the result at their rows, and   *)
(* places between for the rest.  (The source and the result are not always of one text.) *)
lineHeightMap(src) ==
  LET acc[n \in 0..Len(src.rows)] == IF n = 0 THEN 0 ELSE acc[n - 1] + src.rows[n]
  IN  acc
rowOf(src, line) == IF line <= Len(src.rows) THEN lineHeightMap(src)[line] ELSE Gap
linesCount(src) == rowOf(src, Len(src.rows))

blockRow(src, res, n) == rowOf(src, res.blocks[n].line)

nonEmptyList_twice(src, res) ==
  <<0>> \o [n \in DOMAIN res.blocks |-> blockRow(src, res, n)] \o <<linesCount(src)>>

nonEmptyList(src, res) ==
  LET upTo[n \in 0..Len(res.blocks)] ==
        IF n = 0 THEN <<0>>
        ELSE IF blockRow(src, res, n) = 0 THEN upTo[n - 1]
        ELSE Append(upTo[n - 1], blockRow(src, res, n))
  IN  Append(upTo[Len(res.blocks)], linesCount(src))

(* What is known of row i, -1 if nothing. *)
blocksAt(src, res, i) == {n \in DOMAIN res.blocks : blockRow(src, res, n) = i}
known(src, res, i) ==
  CASE i = linesCount(src) -> res.height
    [] i # linesCount(src) /\ blocksAt(src, res, i) # {} ->
         res.blocks[CHOOSE n \in blocksAt(src, res, i) : TRUE].top
    [] i = 0 /\ i # linesCount(src) /\ blocksAt(src, res, i) = {} -> 0
    [] OTHER -> -1

round(x, y) == (2 * x + y) \div (2 * y)

between(src, res, i) ==
  LET pos == Cardinality({j \in 1..(i - 1) : known(src, res, j) # -1})
      a == nonEmptyList(src, res)[pos + 1]
      b == nonEmptyList(src, res)[pos + 2]
  IN  IF a = Gap \/ b = Gap \/ a = b THEN Gap
      ELSE round(known(src, res, b) * (i - a) + known(src, res, a) * (b - i), b - a)

buildScrollMap(src, res) ==
  [i \in 0..linesCount(src) |->
     IF known(src, res, i) = -1 THEN between(src, res, i) ELSE known(src, res, i)]

mapNow == IF sc.map = NoMap THEN buildScrollMap(source, result) ELSE sc.map

-----------------------------------------------------------------------------
(* What the content allows a pane to be scrolled to, and that it scrolled is heard.      *)
least(a, b) == IF a < b THEN a ELSE b
most(s, p) ==
  LET content == IF p = "result" THEN s.shown[s.width].height
                 ELSE LineHeight * linesCount(s.draft[s.width])
  IN  IF content > PaneHeight THEN content - PaneHeight ELSE 0

scrolled(s, p, x) ==
  LET to == least(x, most(s, p))
  IN  IF to = s.top[p] THEN s
      ELSE [s EXCEPT !.top[p] = to,
                     !.due = IF p \in s.heard THEN @ \cup {other(p)} ELSE @]

clipped(s) == scrolled(scrolled(s, "source", s.top["source"]), "result", s.top["result"])

(* animate: stops what is under way, and scrolls step by step; from nothing to the top.  *)
animated_after(p, x) == IF sc.target[p] # Still THEN sc.target[p] ELSE IF x = Gap THEN 0 ELSE x
animated(p, x) == IF x = Gap THEN 0 ELSE x

Step ==
  \E p \in Panes :
    /\ sc.target[p] # Still
    /\ LET to == least(sc.target[p], most(sc, p))
       IN  \E x \in {to, (to + sc.top[p]) \div 2} :
             sc' = [scrolled(sc, p, x) EXCEPT !.target[p] = IF x = to THEN Still ELSE @]

(* A map of the text before an edit may have no place for a row. *)
placeOf(map, row) == IF row \in DOMAIN map THEN map[row] ELSE Gap

syncResultScroll ==
  /\ "result" \in sc.due
  /\ sc' = [sc EXCEPT !.due = @ \ {"result"}, !.map = mapNow,
              !.target["result"] = animated("result", placeOf(mapNow, sc.top["source"] \div LineHeight))]

(* The last row before the first whose place is not above the top of the result. *)
rowAt(map, top) ==
  LET below == {i \in DOMAIN map \ {0} : map[i] = Gap \/ map[i] >= top}
  IN  IF below = {} THEN Max(DOMAIN map) ELSE Min(below) - 1

syncSrcScroll ==
  /\ "source" \in sc.due
  /\ sc' = [sc EXCEPT !.due = @ \ {"source"}, !.map = mapNow,
              !.target["source"] = animated("source",
                                     LineHeight * rowAt(mapNow, sc.top["result"]))]

(* The mouse comes over a pane: this one is listened to, the other no more. *)
listening_both(s, p) == s.heard \cup {p}
listening(s, p) == {p}

MouseOver(p) ==
  sc' = [sc EXCEPT !.heard = listening(sc, p), !.calm = IF p = @ THEN @ ELSE "none",
                   !.together = @ /\ (sc.heard = {p} \/ \A q \in Panes : sc.target[q] = Still)]

(* The reader scrolls a pane, with the mouse over it or not. *)
Scroll(p, x) ==
  /\ sc.scrolls < ScrollBound /\ x # sc.top[p] /\ x <= most(sc, p)
  /\ LET quiet == sc.target[p] = Still /\ p \notin sc.due
     IN  sc' = [scrolled(sc, p, x) EXCEPT
                  !.scrolls = @ + 1, !.at = x,
                  !.calm = IF p \in sc.heard /\ quiet THEN p ELSE "none",
                  !.together = p \in sc.heard /\ sc.target[p] = Still]

(* updateResult is due after an edit; both it and a resize drop the map. *)
EditDraft ==
  \E d \in Drafts \ {sc.draft} :
    sc' = clipped([sc EXCEPT !.draft = d, !.update = TRUE, !.calm = "none", !.together = FALSE])

Rendered(s) ==
  [s EXCEPT !.shown = s.draft, !.update = FALSE, !.map = NoMap, !.calm = "none",
            !.together = FALSE]
UpdatePane == sc.update /\ sc' = clipped(Rendered(sc))

Resize ==
  \E w \in Widths \ {sc.width} :
    sc' = clipped([sc EXCEPT !.width = w, !.map = NoMap, !.calm = "none", !.together = FALSE])

ScrollNext ==
  \/ Step \/ syncResultScroll \/ syncSrcScroll
  \/ \E p \in Panes : MouseOver(p) \/ \E x \in 0..most(sc, p) : Scroll(p, x)
  \/ EditDraft \/ UpdatePane \/ Resize

-----------------------------------------------------------------------------
ScrollTypeOK ==
  /\ sc.heard \subseteq Panes /\ sc.due \subseteq Panes
  /\ \A p \in Panes : sc.top[p] \in 0..most(sc, p) /\ sc.target[p] >= Still

(* The map in use, once the result is of the text, has a place for each row, in order;    *)
(* rows where a block begins are at its place, however lines are wrapped.                *)
MapFits ==
  sc.map # NoMap /\ ~sc.update =>
    /\ DOMAIN sc.map = 0..linesCount(source)
    /\ \A i \in 1..linesCount(source) : sc.map[i] # Gap /\ sc.map[i - 1] <= sc.map[i]
    /\ \A n \in DOMAIN result.blocks :
         sc.map[blockRow(source, result, n)] = result.blocks[n].top

settled == sc.due = {} /\ \A p \in Panes : sc.target[p] = Still

(* When all has come to rest the panes show the same: the result is where the map has the   *)
(* row of the source, or the source is at the last row above the result.                 *)
PanesTogether ==
  settled /\ sc.together /\ ~sc.update =>
    LET map == mapNow
    IN  \/ sc.top["result"] = least(placeOf(map, sc.top["source"] \div LineHeight), most(sc, "result"))
        \/ sc.top["source"] = least(LineHeight * rowAt(map, sc.top["result"]), most(sc, "source"))

(* Where the reader has scrolled a pane to, it stays, as long as the mouse does: bringing   *)
(* the other pane after it does not move it in turn.                                 *)
StaysPut == sc.calm # "none" => sc.top[sc.calm] = sc.at

(* The panes go together, by a map of the lines that fits, and leave the reader alone.  *)
PanesSound == ScrollTypeOK /\ MapFits /\ PanesTogether /\ StaysPut
=============================================================================
