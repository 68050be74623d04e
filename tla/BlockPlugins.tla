----------------------------- MODULE BlockPlugins -----------------------------
(***************************************************************************)
(* index.js, the plugins for containers (:::) and definition lists: blocks      *)
(* that hold other blocks.  A rule changes what the parser knows of its lines,    *)
(* has it read the inner blocks, and puts everything back.  The parser's own       *)
(* rules, paragraphs and code, and its loop over the lines are external.         *)
(***************************************************************************)
EXTENDS Integers, SequencesExt

CONSTANT Pages   \* sequences of lines

(* A line: its indent, the widths of the marks of definitions, and what follows them.     *)
PageLines ==
  [indent : Nat, marks : Seq(Nat \ {0, 1}), body : {"empty", "text", "warning"}, markers : Nat]

(* A mark has a blank behind it, and there are no empty definitions (skipMarker).          *)
ASSUME PagesAssumption ==
  \A p \in Pages :
    /\ p \in Seq(PageLines)
    /\ \A i \in DOMAIN p : p[i].marks # <<>> => p[i].body # "empty" \/ p[i].markers > 0

VARIABLE bl

blockVars == <<bl>>

(* A frame is a rule at work, with the state of the loop that reads its inner blocks. *)
frameFor(rule, endLine) == [rule |-> rule, endLine |-> endLine, hasEmpty |-> FALSE]

PageOf(p) ==
  [page |-> p, line |-> 1, lineMax |-> Len(p) + 1, blkIndent |-> 0, ddIndent |-> -1,
   at |-> [i \in DOMAIN p |-> [indent |-> p[i].indent, marks |-> p[i].marks]],
   tight |-> FALSE, level |-> 0, tokens |-> <<>>,
   frames |-> <<frameFor("page", Len(p) + 1)>>]

BlocksInit == bl \in {PageOf(p) : p \in Pages}

-----------------------------------------------------------------------------
(* What the state says of line l; a mark is as wide as the blanks behind it make it. *)
isEmpty(b, l) ==
  l \in DOMAIN b.page =>
    b.page[l].body = "empty" /\ b.page[l].markers = 0 /\ b.at[l].marks = <<>>
hasMark(b, l) == l \in DOMAIN b.page /\ b.at[l].marks # <<>>
sCount(b, l) == IF l \in DOMAIN b.page THEN b.at[l].indent ELSE 0
fenceLength(b, l) ==
  IF l \in DOMAIN b.page /\ b.at[l].marks = <<>> THEN b.page[l].markers ELSE 0

min_markers == 3

(* container, asked silently: enough markers, and the container's name behind them. *)
opensContainer(b, l) == fenceLength(b, l) >= min_markers /\ b.page[l].body = "warning"

(* deflist, asked silently: a definition, and only within a definition. *)
continuesList(b, l) == b.ddIndent >= 0 /\ hasMark(b, l)

(* push: a token with the lines it is of, on its level. *)
tokenOf(type, level, from, to) ==
  [type |-> type, level |-> level, from |-> from, to |-> to, hidden |-> FALSE]
opened(b, type, from, to) ==
  [b EXCEPT !.tokens = Append(@, tokenOf(type, b.level, from, to)), !.level = @ + 1]
closed(b, type, from, to) ==
  [b EXCEPT !.tokens = Append(@, tokenOf(type, b.level - 1, from, to)), !.level = @ - 1]
leaf(b, type, from, to) ==
  [b EXCEPT !.tokens = Append(@, tokenOf(type, b.level, from, to))]

frameOn == Last(bl.frames)

(* tokenize, after a rule has read a block: were there empty lines before it? *)
after(b) ==
  LET f == Last(b.frames)
      empty == b.line < f.endLine /\ isEmpty(b, b.line)
  IN  [b EXCEPT !.tight = ~f.hasEmpty,
                !.line = IF empty THEN @ + 1 ELSE @,
                !.frames = Append(Front(@), [f EXCEPT !.hasEmpty = @ \/ empty
                                                                \/ isEmpty(b, b.line - 1)])]

(* The next line that is not empty, and whether the loop ends there. *)
start ==
  CHOOSE l \in bl.line..(Len(bl.page) + 1) :
    /\ l >= bl.lineMax \/ ~isEmpty(bl, l)
    /\ \A k \in bl.line..(l - 1) : k < bl.lineMax /\ isEmpty(bl, k)

ends == start >= frameOn.endLine \/ sCount(bl, start) < bl.blkIndent
reads == bl.frames # <<>> /\ ~ends
isCode(l) == sCount(bl, l) - bl.blkIndent >= 4

-----------------------------------------------------------------------------
(* The parser's code blocks and paragraphs. *)
Code ==
  /\ reads /\ isCode(start)
  /\ LET end == CHOOSE l \in (start + 1)..frameOn.endLine :
                  /\ \A k \in start..(l - 1) : isEmpty(bl, k) \/ isCode(k)
                  /\ ~isEmpty(bl, l - 1)
                  /\ \A k \in l..(frameOn.endLine - 1) :
                       (\A j \in l..k : isEmpty(bl, j) \/ isCode(j)) => isEmpty(bl, k)
     IN  bl' = after([leaf(bl, "code", start, end) EXCEPT !.line = end])

startsList(l) ==
  LET next == IF isEmpty(bl, l + 1) THEN l + 2 ELSE l + 1
  IN  /\ next <= frameOn.endLine /\ sCount(bl, next) >= bl.blkIndent /\ hasMark(bl, next)

BlockParagraph ==
  /\ reads /\ ~isCode(start) /\ ~opensContainer(bl, start) /\ ~startsList(start)
  /\ LET continues(l) == /\ ~isEmpty(bl, l)
                         /\ sCount(bl, l) - bl.blkIndent <= 3 =>
                              ~opensContainer(bl, l) /\ ~continuesList(bl, l)
         end == CHOOSE l \in (start + 1)..bl.lineMax :
                  /\ \A k \in (start + 1)..(l - 1) : continues(k)
                  /\ l = bl.lineMax \/ ~continues(l)
     IN  bl' = after([closed(leaf(opened(bl, "paragraph_open", start, end),
                                  "inline", start, end),
                             "paragraph_close", start, end) EXCEPT !.line = end])

-----------------------------------------------------------------------------
(* container: the end is a line of at least as many markers, and nothing else; or    *)
(* that of what the container is in.                                            *)
closesContainer_any(l, markers) == fenceLength(bl, l) >= min_markers /\ bl.page[l].body = "empty"

closesContainer(l, markers) ==
  /\ fenceLength(bl, l) >= markers /\ bl.page[l].body = "empty"
  /\ sCount(bl, l) - bl.blkIndent < 4

containerEnd_past(l) ==
  CHOOSE k \in (l + 1)..frameOn.endLine :
    /\ k = frameOn.endLine \/ closesContainer(k, fenceLength(bl, l))
    /\ \A j \in (l + 1)..(k - 1) : ~closesContainer(j, fenceLength(bl, l))

containerEnd(l) ==
  LET outside(k) == ~isEmpty(bl, k) /\ sCount(bl, k) < bl.blkIndent
      stops(k) == outside(k) \/ closesContainer(k, fenceLength(bl, l))
  IN  CHOOSE k \in (l + 1)..frameOn.endLine :
        /\ k = frameOn.endLine \/ stops(k)
        /\ \A j \in (l + 1)..(k - 1) : ~stops(j)

(* The container from line l to end: its inner blocks are read to there and no further.  *)
containerOf_lazy(l, end, found) ==
  [opened(bl, "container_open", l, end) EXCEPT
     !.line = l + 1,
     !.frames = Append(@, [rule |-> "container", endLine |-> end, hasEmpty |-> FALSE,
                           auto_closed |-> found, lineMax |-> bl.lineMax])]

containerOf(l, end, found) ==
  [opened(bl, "container_open", l, end) EXCEPT
     !.lineMax = end, !.line = l + 1,
     !.frames = Append(@, [rule |-> "container", endLine |-> end, hasEmpty |-> FALSE,
                           auto_closed |-> found, lineMax |-> bl.lineMax])]

Container ==
  /\ reads /\ ~isCode(start) /\ opensContainer(bl, start)
  /\ LET end == containerEnd(start)
         found == end < frameOn.endLine /\ closesContainer(end, fenceLength(bl, start))
                    /\ ~(sCount(bl, end) < bl.blkIndent)
     IN  bl' = containerOf(start, end, found)

lineBehind_over(f) == f.endLine + 1
lineBehind(f) == IF f.auto_closed THEN f.endLine + 1 ELSE f.endLine

CloseContainer ==
  /\ bl.frames # <<>> /\ ends /\ frameOn.rule = "container"
  /\ LET f == frameOn
         next == lineBehind(f)
     IN  bl' = after([closed(bl, "container_close", f.endLine, next) EXCEPT
                        !.lineMax = f.lineMax, !.line = next, !.frames = Front(@)])

-----------------------------------------------------------------------------
(* deflist: an item of the list b, f being its frame: the definition on line l. *)
itemOf(b, f, l) ==
  LET state == b.at[l]
      saved == [tight |-> b.tight, ddIndent |-> b.ddIndent, blkIndent |-> b.blkIndent, at |-> state]
  IN  [opened(b, "dd_open", l, l) EXCEPT
         !.frames = Append(@, [f EXCEPT !.ddLine = l, !.hasEmpty = FALSE, !.saved = saved]),
         !.blkIndent = state.indent + 2, !.ddIndent = state.indent + 2,
         !.at[l] = [indent |-> state.indent + Head(state.marks), marks |-> Tail(state.marks)],
         !.tight = TRUE, !.line = l]

termOf(b, l) ==
  closed(leaf(opened(b, "dt_open", l, l + 1), "inline", l, l + 1), "dt_close", l, l + 1)

Deflist ==
  /\ reads /\ ~isCode(start) /\ ~opensContainer(bl, start) /\ startsList(start)
  /\ LET l == IF isEmpty(bl, start + 1) THEN start + 2 ELSE start + 1
         f == [rule |-> "deflist", endLine |-> frameOn.endLine, hasEmpty |-> FALSE,
               ddLine |-> l, listTok |-> Len(bl.tokens) + 1, tight |-> TRUE,
               prevEmptyEnd |-> FALSE, saved |-> <<>>]
     IN  bl' = itemOf(termOf(opened(bl, "dl_open", start, start), start), f, l)

(* A definition has been read: the item is closed, its line as it was. *)
itemClosed_kept(f) ==
  closed([bl EXCEPT !.tight = f.saved.tight, !.blkIndent = f.saved.blkIndent,
                    !.ddIndent = f.saved.ddIndent, !.line = start, !.frames = Front(@)],
         "dd_close", start, start)

itemClosed(f) ==
  closed([bl EXCEPT !.tight = f.saved.tight, !.blkIndent = f.saved.blkIndent,
                    !.ddIndent = f.saved.ddIndent, !.at[f.ddLine] = f.saved.at,
                    !.line = start, !.frames = Front(@)],
         "dd_close", start, start)

(* Loose if its blocks are, or if the one before ended in empty lines. *)
judged(f) ==
  [f EXCEPT !.tight = @ /\ bl.tight /\ ~f.prevEmptyEnd,
            !.prevEmptyEnd = start - f.ddLine > 1 /\ isEmpty(bl, start - 1)]

itemEnds == bl.frames # <<>> /\ ends /\ frameOn.rule = "deflist"
goesOn == start < frameOn.endLine /\ sCount(bl, start) >= frameOn.saved.blkIndent

NextDefinition ==
  /\ itemEnds /\ goesOn /\ hasMark(bl, start)
  /\ bl' = itemOf(itemClosed(frameOn), judged(frameOn), start)

definitionLine == IF isEmpty(bl, start + 1) THEN start + 2 ELSE start + 1
isTerm == /\ goesOn /\ ~hasMark(bl, start)
          /\ definitionLine < frameOn.endLine
          /\ sCount(bl, definitionLine) >= frameOn.saved.blkIndent
          /\ hasMark(bl, definitionLine)

NextTerm ==
  /\ itemEnds /\ isTerm
  /\ bl' = itemOf(termOf(itemClosed(frameOn), start),
                  [judged(frameOn) EXCEPT !.prevEmptyEnd = FALSE], definitionLine)

(* markTightParagraphs: those right in the definitions of the list. *)
markTightParagraphs_deep(b, idx) ==
  [b EXCEPT !.tokens = [i \in DOMAIN @ |->
     IF i > idx + 1 /\ @[i].type \in {"paragraph_open", "paragraph_close"}
     THEN [@[i] EXCEPT !.hidden = TRUE] ELSE @[i]]]

markTightParagraphs(b, idx) ==
  [b EXCEPT !.tokens = [i \in DOMAIN @ |->
     IF i > idx + 1 /\ @[i].level = b.level + 2 /\ @[i].type \in {"paragraph_open", "paragraph_close"}
     THEN [@[i] EXCEPT !.hidden = TRUE] ELSE @[i]]]

EndList ==
  /\ itemEnds /\ ~isTerm /\ ~(goesOn /\ hasMark(bl, start))
  /\ LET f == judged(frameOn)
         b == closed(itemClosed(frameOn), "dl_close", start, start)
     IN  bl' = after(IF f.tight THEN markTightParagraphs(b, f.listTok) ELSE b)

EndPage ==
  /\ bl.frames # <<>> /\ ends /\ frameOn.rule = "page"
  /\ bl' = [bl EXCEPT !.line = start, !.frames = <<>>]

BlocksNext ==
  \/ Code \/ BlockParagraph \/ Container \/ CloseContainer \/ Deflist
  \/ NextDefinition \/ NextTerm \/ EndList \/ EndPage

BlocksSpec == BlocksInit /\ [][BlocksNext]_blockVars

-----------------------------------------------------------------------------
BlocksTypeOK ==
  /\ bl.line \in 1..(Len(bl.page) + 1) /\ bl.lineMax \in 1..(Len(bl.page) + 1)
  /\ bl.blkIndent \in Nat /\ bl.ddIndent \in Nat \cup {-1} /\ bl.level \in Nat
  /\ \A i \in DOMAIN bl.frames : bl.frames[i].rule \in {"page", "container", "deflist"}

isLeaf(t) == t.type \in {"inline", "code"}
isFence(t) == t.type \in {"container_open", "container_close"}

(* Each line that is not empty is in one block and in one only, be it as the fence of   *)
(* a container: nothing that a list or container looks ahead to is lost or read twice,   *)
(* however they are nested and whatever ends them.                                 *)
EachLineOnce ==
  bl.frames = <<>> =>
    \A l \in DOMAIN bl.page : ~isEmpty(bl, l) =>
      Cardinality({i \in DOMAIN bl.tokens :
        LET t == bl.tokens[i]
        IN  \/ isLeaf(t) /\ l \in t.from..(t.to - 1)
            \/ t.type = "container_open" /\ l = t.from
            \/ t.type = "container_close" /\ l \in t.from..(t.to - 1)}) = 1

(* What a rule changes for its inner blocks is as it was when it is done: the marks and  *)
(* indents of the lines, the indent to keep, the last line.                         *)
StateRestored ==
  /\ \A l \in DOMAIN bl.page :
       bl.at[l] # [indent |-> bl.page[l].indent, marks |-> bl.page[l].marks] =>
         \E f \in ToSet(bl.frames) : f.rule = "deflist" /\ f.ddLine = l
  /\ Len(bl.frames) <= 1 =>
       bl.blkIndent = 0 /\ bl.ddIndent = -1 /\ bl.level = 0 /\ bl.lineMax = Len(bl.page) + 1

Ending == [container_close |-> "container_open", dl_close |-> "dl_open", dt_close |-> "dt_open",
           dd_close |-> "dd_open", paragraph_close |-> "paragraph_open"]
Openers == {Ending[c] : c \in DOMAIN Ending}

(* The next token on the level of token i: the one that closes it, if anything does.      *)
onLevel(i) == {j \in (i + 1)..Len(bl.tokens) : bl.tokens[j].level = bl.tokens[i].level}
closer(i) == CHOOSE j \in onLevel(i) : \A k \in onLevel(i) : j <= k

(* Blocks are closed in the order they were opened, on the level they were opened, and a *)
(* container has the lines of its inner blocks between its fences.                  *)
BlocksNested ==
  bl.frames = <<>> =>
    \A i \in {o \in DOMAIN bl.tokens : bl.tokens[o].type \in Openers} :
      /\ onLevel(i) # {}
      /\ bl.tokens[closer(i)].type \in DOMAIN Ending
      /\ Ending[bl.tokens[closer(i)].type] = bl.tokens[i].type
      /\ bl.tokens[i].type = "container_open" =>
           \A k \in (i + 1)..(closer(i) - 1) : isLeaf(bl.tokens[k]) =>
             bl.tokens[k].from > bl.tokens[i].from
               /\ bl.tokens[k].to <= bl.tokens[closer(i)].from

(* A container ends at the first fence that is long enough for it, and at no shorter one: *)
(* those with more markers hold those with fewer.                                  *)
FencesMatch ==
  bl.frames = <<>> =>
    \A i \in DOMAIN bl.tokens :
      LET t == bl.tokens[i]
          end == bl.tokens[closer(i)]
          bare(l) == bl.page[l].body = "empty" /\ bl.page[l].marks = <<>> /\ bl.page[l].indent <= 3
      IN  t.type = "container_open" =>
            /\ \A l \in (t.from + 1)..(t.to - 1) :
                 bare(l) => bl.page[l].markers < bl.page[t.from].markers
            /\ end.to > end.from => bl.page[end.from].markers >= bl.page[t.from].markers

(* The paragraphs right in the definitions of a list are shown without their tags as     *)
(* long as no empty line parts two blocks of a definition, nor two definitions of a term; *)
(* what the lists and containers within it look like does not matter.                *)
TightTogether ==
  bl.frames = <<>> =>
    \A i \in DOMAIN bl.tokens :
      bl.tokens[i].type = "dl_open" =>
        LET on(d) == {k \in i..closer(i) : bl.tokens[k].level = bl.tokens[i].level + d}
            begins(k) == isLeaf(bl.tokens[k]) \/ bl.tokens[k].type \in Openers
            apart(k) == isEmpty(bl, bl.tokens[k].from - 1)
            loose == \/ \E k \in on(2) : /\ begins(k) /\ apart(k)
                                         /\ bl.tokens[k - 1].type # "dd_open"
                                         /\ bl.tokens[k - 1].type # "dt_open"
                     \/ \E k \in on(1) : /\ bl.tokens[k].type = "dd_open" /\ apart(k)
                                         /\ bl.tokens[k - 1].type = "dd_close"
        IN  \A k \in on(2) : bl.tokens[k].type = "paragraph_open" =>
              bl.tokens[k].hidden = ~loose

(* Containers and definition lists divide the lines among nested blocks, leave the      *)
(* parser's state as it was, and tell tight from loose.                             *)
BlocksRead ==
  /\ BlocksTypeOK /\ EachLineOnce /\ StateRestored
  /\ BlocksNested /\ FencesMatch /\ TightTogether
=============================================================================
