------------------------- MODULE BlockPlugins_proofs -------------------------
(***************************************************************************)
(* What a page of containers and definition lists is read as, for every page: *)
(* BlocksAlwaysRead, from the invariant BlocksInv.                          *)
(***************************************************************************)
EXTENDS BlockPlugins, FiniteSetTheorems, WellFoundedInduction, TLAPS

-----------------------------------------------------------------------------
(* The states and their fields. *)
Ats == [indent : Nat, marks : Seq(Nat \ {0, 1})]

(* The types of tokens. *)
TokenTypes == Openers \cup DOMAIN Ending \cup {"inline", "code"}

(* A token with its lines. *)
BlockTokens == [type : TokenTypes, level : Nat, from : Nat, to : Nat, hidden : BOOLEAN]

(* What a list keeps of the state for the time that a definition is read. *)
Saved == [tight : BOOLEAN, ddIndent : Nat \cup {-1}, blkIndent : Nat, at : Ats]

(* The frame of the page. *)
PageFrames == [rule : {"page"}, endLine : Nat, hasEmpty : BOOLEAN]

(* A container knows whether its end was found, and the last line of what it is in. *)
ContainerFrames ==
  [rule : {"container"}, endLine : Nat, hasEmpty : BOOLEAN, auto_closed : BOOLEAN, lineMax : Nat]

(* A list knows the line of its definition, its first token, and what it is to put back. *)
ListFrames ==
  [rule : {"deflist"}, endLine : Nat, hasEmpty : BOOLEAN, ddLine : Nat, listTok : Nat,
   tight : BOOLEAN, prevEmptyEnd : BOOLEAN, saved : Saved]

(* A frame is of one of the three. *)
Frames == PageFrames \cup ContainerFrames \cup ListFrames

(* A page as PagesAssumption has it. *)
GoodPage(p) ==
  /\ p \in Seq(PageLines)
  /\ \A i \in DOMAIN p : p[i].marks # <<>> => p[i].body # "empty" \/ p[i].markers > 0

(* The state with these fields. *)
StateOf(p, line, lm, blk, dd, at, tight, lev, T, F) ==
  [page |-> p, line |-> line, lineMax |-> lm, blkIndent |-> blk, ddIndent |-> dd, at |-> at,
   tight |-> tight, level |-> lev, tokens |-> T, frames |-> F]

(* The states all fields of which are of their types. *)
BlockStates ==
  [page : Seq(PageLines), line : Nat, lineMax : Nat, blkIndent : Nat, ddIndent : Nat \cup {-1},
   at : Seq(Ats), tight : BOOLEAN, level : Nat, tokens : Seq(BlockTokens), frames : Seq(Frames)]

(* A state has no other fields. *)
LEMMA StateIsOfFields ==
  ASSUME NEW b \in BlockStates
  PROVE  b = StateOf(b.page, b.line, b.lineMax, b.blkIndent, b.ddIndent, b.at, b.tight,
                     b.level, b.tokens, b.frames)
BY DEF BlockStates, StateOf

(* One field after the other. *)
LEMMA Field_line ==
  ASSUME NEW p, NEW line, NEW lm, NEW blk, NEW dd,
         NEW at, NEW tight, NEW lev, NEW T, NEW F, NEW x
  PROVE  [StateOf(p, line, lm, blk, dd, at, tight, lev, T, F) EXCEPT !.line = x]
           = StateOf(p, x, lm, blk, dd, at, tight, lev, T, F)
BY DEF StateOf

(* The last line alone changes. *)
LEMMA Field_lineMax ==
  ASSUME NEW p, NEW line, NEW lm, NEW blk, NEW dd,
         NEW at, NEW tight, NEW lev, NEW T, NEW F, NEW x
  PROVE  [StateOf(p, line, lm, blk, dd, at, tight, lev, T, F) EXCEPT !.lineMax = x]
           = StateOf(p, line, x, blk, dd, at, tight, lev, T, F)
BY DEF StateOf

(* The indent to keep alone changes. *)
LEMMA Field_blkIndent ==
  ASSUME NEW p, NEW line, NEW lm, NEW blk, NEW dd,
         NEW at, NEW tight, NEW lev, NEW T, NEW F, NEW x
  PROVE  [StateOf(p, line, lm, blk, dd, at, tight, lev, T, F) EXCEPT !.blkIndent = x]
           = StateOf(p, line, lm, x, dd, at, tight, lev, T, F)
BY DEF StateOf

(* The indent of the definition alone changes. *)
LEMMA Field_ddIndent ==
  ASSUME NEW p, NEW line, NEW lm, NEW blk, NEW dd,
         NEW at, NEW tight, NEW lev, NEW T, NEW F, NEW x
  PROVE  [StateOf(p, line, lm, blk, dd, at, tight, lev, T, F) EXCEPT !.ddIndent = x]
           = StateOf(p, line, lm, blk, x, at, tight, lev, T, F)
BY DEF StateOf

(* What is on the lines alone changes. *)
LEMMA Field_at ==
  ASSUME NEW p, NEW line, NEW lm, NEW blk, NEW dd,
         NEW at, NEW tight, NEW lev, NEW T, NEW F, NEW x
  PROVE  [StateOf(p, line, lm, blk, dd, at, tight, lev, T, F) EXCEPT !.at = x]
           = StateOf(p, line, lm, blk, dd, x, tight, lev, T, F)
BY DEF StateOf

(* Whether the state is tight alone changes. *)
LEMMA Field_tight ==
  ASSUME NEW p, NEW line, NEW lm, NEW blk, NEW dd,
         NEW at, NEW tight, NEW lev, NEW T, NEW F, NEW x
  PROVE  [StateOf(p, line, lm, blk, dd, at, tight, lev, T, F) EXCEPT !.tight = x]
           = StateOf(p, line, lm, blk, dd, at, x, lev, T, F)
BY DEF StateOf

(* The level alone changes. *)
LEMMA Field_level ==
  ASSUME NEW p, NEW line, NEW lm, NEW blk, NEW dd,
         NEW at, NEW tight, NEW lev, NEW T, NEW F, NEW x
  PROVE  [StateOf(p, line, lm, blk, dd, at, tight, lev, T, F) EXCEPT !.level = x]
           = StateOf(p, line, lm, blk, dd, at, tight, x, T, F)
BY DEF StateOf

(* The tokens alone change. *)
LEMMA Field_tokens ==
  ASSUME NEW p, NEW line, NEW lm, NEW blk, NEW dd,
         NEW at, NEW tight, NEW lev, NEW T, NEW F, NEW x
  PROVE  [StateOf(p, line, lm, blk, dd, at, tight, lev, T, F) EXCEPT !.tokens = x]
           = StateOf(p, line, lm, blk, dd, at, tight, lev, x, F)
BY DEF StateOf

(* The frames alone change. *)
LEMMA Field_frames ==
  ASSUME NEW p, NEW line, NEW lm, NEW blk, NEW dd,
         NEW at, NEW tight, NEW lev, NEW T, NEW F, NEW x
  PROVE  [StateOf(p, line, lm, blk, dd, at, tight, lev, T, F) EXCEPT !.frames = x]
           = StateOf(p, line, lm, blk, dd, at, tight, lev, T, x)
BY DEF StateOf

(* A token that opens a block, field by field. *)
LEMMA OpenedFields ==
  ASSUME NEW p, NEW line, NEW lm, NEW blk, NEW dd,
         NEW at, NEW tight, NEW lev, NEW T, NEW F,
         NEW type, NEW x, NEW y
  PROVE  opened(StateOf(p, line, lm, blk, dd, at, tight, lev, T, F), type, x, y)
           = StateOf(p, line, lm, blk, dd, at, tight, lev + 1, Append(T, tokenOf(type, lev, x, y)), F)
<1> DEFINE b == StateOf(p, line, lm, blk, dd, at, tight, lev, T, F)
<1>1. PICK T2, lev2 : T2 = Append(T, tokenOf(type, lev, x, y)) /\ lev2 = lev + 1
  OBVIOUS
<1>2. b.tokens = T /\ b.level = lev
  BY DEF StateOf
<1>3. opened(b, type, x, y) = [b EXCEPT !.tokens = T2, !.level = lev2]
  BY <1>1, <1>2 DEF opened
<1>4. [b EXCEPT !.tokens = T2] = StateOf(p, line, lm, blk, dd, at, tight, lev, T2, F)
  BY Field_tokens
<1>5. [StateOf(p, line, lm, blk, dd, at, tight, lev, T2, F) EXCEPT !.level = lev2]
        = StateOf(p, line, lm, blk, dd, at, tight, lev2, T2, F)
  BY Field_level
<1> HIDE DEF b
<1>6. [b EXCEPT !.tokens = T2, !.level = lev2] = [[b EXCEPT !.tokens = T2] EXCEPT !.level = lev2]
  OBVIOUS
<1> QED BY <1>1, <1>3, <1>4, <1>5, <1>6 DEF b

(* A token that closes a block, field by field. *)
LEMMA ClosedFields ==
  ASSUME NEW p, NEW line, NEW lm, NEW blk, NEW dd,
         NEW at, NEW tight, NEW lev, NEW T, NEW F,
         NEW type, NEW x, NEW y
  PROVE  closed(StateOf(p, line, lm, blk, dd, at, tight, lev, T, F), type, x, y)
           = StateOf(p, line, lm, blk, dd, at, tight, lev - 1, Append(T, tokenOf(type, lev - 1, x, y)), F)
<1> DEFINE b == StateOf(p, line, lm, blk, dd, at, tight, lev, T, F)
<1>1. PICK T2, lev2 : T2 = Append(T, tokenOf(type, lev - 1, x, y)) /\ lev2 = lev - 1
  OBVIOUS
<1>2. b.tokens = T /\ b.level = lev
  BY DEF StateOf
<1>3. closed(b, type, x, y) = [b EXCEPT !.tokens = T2, !.level = lev2]
  BY <1>1, <1>2 DEF closed
<1>4. [b EXCEPT !.tokens = T2] = StateOf(p, line, lm, blk, dd, at, tight, lev, T2, F)
  BY Field_tokens
<1>5. [StateOf(p, line, lm, blk, dd, at, tight, lev, T2, F) EXCEPT !.level = lev2]
        = StateOf(p, line, lm, blk, dd, at, tight, lev2, T2, F)
  BY Field_level
<1> HIDE DEF b
<1>6. [b EXCEPT !.tokens = T2, !.level = lev2] = [[b EXCEPT !.tokens = T2] EXCEPT !.level = lev2]
  OBVIOUS
<1> QED BY <1>1, <1>3, <1>4, <1>5, <1>6 DEF b

(* A token of text or code, field by field. *)
LEMMA LeafFields ==
  ASSUME NEW p, NEW line, NEW lm, NEW blk, NEW dd, NEW at, NEW tight, NEW lev, NEW T, NEW F,
         NEW type, NEW x, NEW y
  PROVE  leaf(StateOf(p, line, lm, blk, dd, at, tight, lev, T, F), type, x, y)
           = StateOf(p, line, lm, blk, dd, at, tight, lev,
                     Append(T, tokenOf(type, lev, x, y)), F)
BY DEF leaf, StateOf

-----------------------------------------------------------------------------
(* What is on a line, in the page and in the state. *)
Origin(p, l) == [indent |-> p[l].indent, marks |-> p[l].marks]

(* Line l without the mark of the definition that is being read. *)
Entered(p, l) == [indent |-> p[l].indent + Head(p[l].marks), marks |-> Tail(p[l].marks)]

(* Line l has nothing on it, or is none. *)
Blank(p, l) == l \in DOMAIN p => p[l].body = "empty" /\ p[l].markers = 0

(* The state has a line as the page has it, or without its first mark. *)
IsAt(p, at) ==
  /\ at \in Seq(Ats) /\ DOMAIN at = DOMAIN p
  /\ \A l \in DOMAIN p : at[l] = Origin(p, l) \/ (p[l].marks # <<>> /\ at[l] = Entered(p, l))

(* Taking a mark off a line does not make it empty: there is something behind a mark. *)
LEMMA EmptyIsBlank ==
  ASSUME NEW b, GoodPage(b.page), IsAt(b.page, b.at), NEW l
  PROVE  isEmpty(b, l) <=> Blank(b.page, l)
<1>1. ASSUME l \in DOMAIN b.page, b.page[l].body = "empty", b.page[l].markers = 0
      PROVE  b.at[l].marks = <<>>
  <2>1. b.page[l].marks = <<>>
    BY <1>1 DEF GoodPage
  <2>2. b.at[l] = Origin(b.page, l)
    BY <1>1, <2>1 DEF IsAt
  <2> QED BY <2>1, <2>2 DEF Origin
<1> QED BY <1>1 DEF isEmpty, Blank

(* What the parser's loop does behind a block, field by field. *)
LEMMA AfterFields ==
  ASSUME NEW p, GoodPage(p), NEW line \in Nat, NEW lm, NEW blk, NEW dd, NEW at, IsAt(p, at),
         NEW tight, NEW lev, NEW T, NEW F0 \in Seq(Frames), NEW f \in Frames
  PROVE  LET empty == line < f.endLine /\ Blank(p, line)
         IN  after(StateOf(p, line, lm, blk, dd, at, tight, lev, T, Append(F0, f)))
               = StateOf(p, IF empty THEN line + 1 ELSE line, lm, blk, dd, at, ~f.hasEmpty, lev, T,
                         Append(F0, [f EXCEPT !.hasEmpty = @ \/ empty \/ Blank(p, line - 1)]))
<1> DEFINE b == StateOf(p, line, lm, blk, dd, at, tight, lev, T, Append(F0, f))
           empty == line < f.endLine /\ Blank(p, line)
<1>1. Last(Append(F0, f)) = f /\ Front(Append(F0, f)) = F0
  BY DEF Last, Front
<1>2. b.page = p /\ b.at = at /\ b.line = line /\ b.frames = Append(F0, f)
  BY DEF StateOf
<1>3. \A l : isEmpty(b, l) <=> Blank(p, l)
  BY <1>2, EmptyIsBlank
<1>4. after(b) = [b EXCEPT !.tight = ~f.hasEmpty,
                !.line = IF empty THEN @ + 1 ELSE @,
                !.frames = Append(Front(@), [f EXCEPT !.hasEmpty = @ \/ empty
                                                                \/ Blank(p, line - 1)])]
  BY <1>1, <1>2, <1>3 DEF after
<1> DEFINE g == [f EXCEPT !.hasEmpty = @ \/ empty \/ Blank(p, line - 1)]
           ln == IF empty THEN line + 1 ELSE line
<1>5. after(b) = [b EXCEPT !.tight = ~f.hasEmpty, !.line = ln, !.frames = Append(F0, g)]
  BY <1>1, <1>2, <1>4
<1>6. PICK h, k, t : h = g /\ k = ln /\ t = ~f.hasEmpty
  OBVIOUS
<1>7. after(b) = [b EXCEPT !.tight = t, !.line = k, !.frames = Append(F0, h)]
  BY <1>5, <1>6
<1>8. PICK q, q2 : q = Append(F0, f) /\ q2 = Append(F0, h)
  OBVIOUS
<1> DEFINE c == StateOf(p, line, lm, blk, dd, at, tight, lev, T, q)
<1>9. b = c
  BY <1>8
<1>10. [c EXCEPT !.tight = t] = StateOf(p, line, lm, blk, dd, at, t, lev, T, q)
  BY Field_tight
<1>11. [StateOf(p, line, lm, blk, dd, at, t, lev, T, q) EXCEPT !.line = k]
         = StateOf(p, k, lm, blk, dd, at, t, lev, T, q)
  BY Field_line
<1>12. [StateOf(p, k, lm, blk, dd, at, t, lev, T, q) EXCEPT !.frames = q2]
         = StateOf(p, k, lm, blk, dd, at, t, lev, T, q2)
  BY Field_frames
<1>13. [b EXCEPT !.tight = t, !.line = k, !.frames = q2]
         = [[[c EXCEPT !.tight = t] EXCEPT !.line = k] EXCEPT !.frames = q2]
  <2> HIDE DEF b, c
  <2> QED BY <1>9
<1>14. after(b) = StateOf(p, k, lm, blk, dd, at, t, lev, T, q2)
  BY <1>7, <1>8, <1>10, <1>11, <1>12, <1>13
<1> QED BY <1>6, <1>8, <1>14
(* The state within a new item of a list. *)
SavedOf(blk, dd, at, tight, l) ==
  [tight |-> tight, ddIndent |-> dd, blkIndent |-> blk, at |-> at[l]]

(* The lines with the mark taken off line l. *)
EnteredAt(at, l) ==
  [at EXCEPT ![l] = [indent |-> at[l].indent + Head(at[l].marks), marks |-> Tail(at[l].marks)]]

(* The frame f of a list in a new definition, on line l. *)
ItemFrame(f, blk, dd, at, tight, l) ==
  [f EXCEPT !.ddLine = l, !.hasEmpty = FALSE, !.saved = SavedOf(blk, dd, at, tight, l)]

(* The state in the definition on line l. *)
EnteredState(p, lm, blk, dd, at, tight, lev, T, F, f, l) ==
  StateOf(p, l, lm, at[l].indent + 2, at[l].indent + 2, EnteredAt(at, l), TRUE, lev + 1,
          Append(T, tokenOf("dd_open", lev, l, l)),
          Append(F, ItemFrame(f, blk, dd, at, tight, l)))

(* A new definition, field by field. *)
LEMMA ItemOfFields ==
  ASSUME NEW p, NEW line, NEW lm, NEW blk, NEW dd,
         NEW at, NEW tight, NEW lev, NEW T, NEW F,
         NEW f, NEW l
  PROVE  itemOf(StateOf(p, line, lm, blk, dd, at, tight, lev, T, F), f, l)
           = EnteredState(p, lm, blk, dd, at, tight, lev, T, F, f, l)
<1> DEFINE c == StateOf(p, line, lm, blk, dd, at, tight, lev, T, F)
<1>1. PICK T2, lev2, F2, ni, at2, tr :
        /\ T2 = Append(T, tokenOf("dd_open", lev, l, l)) /\ lev2 = lev + 1
        /\ F2 = Append(F, ItemFrame(f, blk, dd, at, tight, l))
        /\ ni = at[l].indent + 2 /\ at2 = EnteredAt(at, l) /\ tr = TRUE
  OBVIOUS
<1>2. c.at = at /\ c.tight = tight /\ c.ddIndent = dd /\ c.blkIndent = blk
  BY DEF StateOf
<1> DEFINE b == StateOf(p, line, lm, blk, dd, at, tight, lev2, T2, F)
<1>3. opened(c, "dd_open", l, l) = b
  BY <1>1, OpenedFields
<1>4. b.at = at /\ b.frames = F
  BY DEF StateOf
<1>5. [b EXCEPT !.frames = F2]
        = StateOf(p, line, lm, blk, dd, at, tight, lev2, T2, F2)
  <2>1. [StateOf(p, line, lm, blk, dd, at, tight, lev2, T2, F) EXCEPT !.frames = F2]
          = StateOf(p, line, lm, blk, dd, at, tight, lev2, T2, F2)
    BY Field_frames
  <2>2. b = StateOf(p, line, lm, blk, dd, at, tight, lev2, T2, F)
    OBVIOUS
  <2> HIDE DEF b
  <2> QED BY <2>1, <2>2
<1>6. [[b EXCEPT !.frames = F2] EXCEPT !.blkIndent = ni]
        = StateOf(p, line, lm, ni, dd, at, tight, lev2, T2, F2)
  <2>1. [StateOf(p, line, lm, blk, dd, at, tight, lev2, T2, F2) EXCEPT !.blkIndent = ni]
          = StateOf(p, line, lm, ni, dd, at, tight, lev2, T2, F2)
    BY Field_blkIndent
  <2>2. [b EXCEPT !.frames = F2] = StateOf(p, line, lm, blk, dd, at, tight, lev2, T2, F2)
    BY <1>5
  <2> HIDE DEF b
  <2> QED BY <2>1, <2>2
<1>7. [[[b EXCEPT !.frames = F2] EXCEPT !.blkIndent = ni] EXCEPT !.ddIndent = ni]
        = StateOf(p, line, lm, ni, ni, at, tight, lev2, T2, F2)
  <2>1. [StateOf(p, line, lm, ni, dd, at, tight, lev2, T2, F2) EXCEPT !.ddIndent = ni]
          = StateOf(p, line, lm, ni, ni, at, tight, lev2, T2, F2)
    BY Field_ddIndent
  <2>2. [[b EXCEPT !.frames = F2] EXCEPT !.blkIndent = ni] = StateOf(p, line, lm, ni, dd, at, tight, lev2, T2, F2)
    BY <1>6
  <2> HIDE DEF b
  <2> QED BY <2>1, <2>2
<1>8. [[[[b EXCEPT !.frames = F2] EXCEPT !.blkIndent = ni] EXCEPT !.ddIndent = ni] EXCEPT !.at = at2]
        = StateOf(p, line, lm, ni, ni, at2, tight, lev2, T2, F2)
  <2>1. [StateOf(p, line, lm, ni, ni, at, tight, lev2, T2, F2) EXCEPT !.at = at2]
          = StateOf(p, line, lm, ni, ni, at2, tight, lev2, T2, F2)
    BY Field_at
  <2>2. [[[b EXCEPT !.frames = F2] EXCEPT !.blkIndent = ni] EXCEPT !.ddIndent = ni] = StateOf(p, line, lm, ni, ni, at, tight, lev2, T2, F2)
    BY <1>7
  <2> HIDE DEF b
  <2> QED BY <2>1, <2>2
<1>9. [[[[[b EXCEPT !.frames = F2] EXCEPT !.blkIndent = ni] EXCEPT !.ddIndent = ni] EXCEPT !.at = at2] EXCEPT !.tight = tr]
        = StateOf(p, line, lm, ni, ni, at2, tr, lev2, T2, F2)
  <2>1. [StateOf(p, line, lm, ni, ni, at2, tight, lev2, T2, F2) EXCEPT !.tight = tr]
          = StateOf(p, line, lm, ni, ni, at2, tr, lev2, T2, F2)
    BY Field_tight
  <2>2. [[[[b EXCEPT !.frames = F2] EXCEPT !.blkIndent = ni] EXCEPT !.ddIndent = ni] EXCEPT !.at = at2] = StateOf(p, line, lm, ni, ni, at2, tight, lev2, T2, F2)
    BY <1>8
  <2> HIDE DEF b
  <2> QED BY <2>1, <2>2
<1>10. [[[[[[b EXCEPT !.frames = F2] EXCEPT !.blkIndent = ni] EXCEPT !.ddIndent = ni] EXCEPT !.at = at2] EXCEPT !.tight = tr] EXCEPT !.line = l]
        = StateOf(p, l, lm, ni, ni, at2, tr, lev2, T2, F2)
  <2>1. [StateOf(p, line, lm, ni, ni, at2, tr, lev2, T2, F2) EXCEPT !.line = l]
          = StateOf(p, l, lm, ni, ni, at2, tr, lev2, T2, F2)
    BY Field_line
  <2>2. [[[[[b EXCEPT !.frames = F2] EXCEPT !.blkIndent = ni] EXCEPT !.ddIndent = ni] EXCEPT !.at = at2] EXCEPT !.tight = tr] = StateOf(p, line, lm, ni, ni, at2, tr, lev2, T2, F2)
    BY <1>9
  <2> HIDE DEF b
  <2> QED BY <2>1, <2>2
<1>11. itemOf(c, f, l) =
        [b EXCEPT !.frames = Append(@, ItemFrame(f, blk, dd, at, tight, l)),
         !.blkIndent = at[l].indent + 2, !.ddIndent = at[l].indent + 2,
         !.at[l] = [indent |-> at[l].indent + Head(at[l].marks), marks |-> Tail(at[l].marks)],
         !.tight = TRUE, !.line = l]
  <2> HIDE DEF b, c
  <2> QED BY <1>2, <1>3 DEF itemOf, SavedOf, ItemFrame
<1>12. itemOf(c, f, l) = [b EXCEPT !.frames = F2, !.blkIndent = ni, !.ddIndent = ni, !.at = at2, !.tight = tr, !.line = l]
  <2> HIDE DEF b, c
  <2> DEFINE x == [indent |-> at[l].indent + Head(at[l].marks), marks |-> Tail(at[l].marks)]
             c1 == [[[b EXCEPT !.frames = F2] EXCEPT !.blkIndent = ni] EXCEPT !.ddIndent = ni]
  <2>1. [b EXCEPT !.frames = Append(@, ItemFrame(f, blk, dd, at, tight, l)),
         !.blkIndent = at[l].indent + 2, !.ddIndent = at[l].indent + 2,
         !.at[l] = x, !.tight = TRUE, !.line = l]
         = [b EXCEPT !.frames = F2, !.blkIndent = ni, !.ddIndent = ni,
             !.at[l] = x, !.tight = tr, !.line = l]
    <3> HIDE DEF x
    <3> QED BY <1>1, <1>4
  <2>2. [b EXCEPT !.frames = F2, !.blkIndent = ni, !.ddIndent = ni,
             !.at[l] = x, !.tight = tr, !.line = l]
         = [[[c1 EXCEPT !.at[l] = x] EXCEPT !.tight = tr] EXCEPT !.line = l]
    <3> HIDE DEF x
    <3> QED OBVIOUS
  <2>3. c1.at = at
    BY <1>4
  <2>4. [c1 EXCEPT !.at[l] = x] = [c1 EXCEPT !.at = [c1.at EXCEPT ![l] = x]]
    <3> HIDE DEF x, c1
    <3> QED OBVIOUS
  <2>5. [c1.at EXCEPT ![l] = x] = at2
    BY <1>1, <2>3 DEF EnteredAt
  <2>6. [b EXCEPT !.frames = F2, !.blkIndent = ni, !.ddIndent = ni, !.at = at2, !.tight = tr, !.line = l]
         = [[[c1 EXCEPT !.at = at2] EXCEPT !.tight = tr] EXCEPT !.line = l]
    <3> QED OBVIOUS
  <2> QED BY <1>11, <2>1, <2>2, <2>4, <2>5, <2>6
<1>13. [b EXCEPT !.frames = F2, !.blkIndent = ni, !.ddIndent = ni, !.at = at2, !.tight = tr, !.line = l]
         = [[[[[[b EXCEPT !.frames = F2] EXCEPT !.blkIndent = ni] EXCEPT !.ddIndent = ni] EXCEPT !.at = at2] EXCEPT !.tight = tr] EXCEPT !.line = l]
  <2> HIDE DEF b
  <2> QED OBVIOUS
<1>14. [[[[[[b EXCEPT !.frames = F2] EXCEPT !.blkIndent = ni] EXCEPT !.ddIndent = ni] EXCEPT !.at = at2] EXCEPT !.tight = tr] EXCEPT !.line = l]
         = StateOf(p, l, lm, ni, ni, at2, tr, lev2, T2, F2)
  BY <1>10
<1> HIDE DEF b, c
<1>15. itemOf(c, f, l) = StateOf(p, l, lm, ni, ni, at2, tr, lev2, T2, F2)
  BY <1>12, <1>13, <1>14
<1> QED BY <1>1, <1>15 DEF c, EnteredState
(* The state behind a definition, which ends before line s. *)
LeftState(p, lm, at, lev, T, F, f, s) ==
  StateOf(p, s, lm, f.saved.blkIndent, f.saved.ddIndent,
          [at EXCEPT ![f.ddLine] = f.saved.at], f.saved.tight, lev - 1,
          Append(T, tokenOf("dd_close", lev - 1, s, s)), Front(F))

(* The end of a definition, field by field. *)
LEMMA ItemClosedFields ==
  ASSUME NEW p, NEW line, NEW lm, NEW blk, NEW dd,
         NEW at, NEW tight, NEW lev, NEW T, NEW F,
         NEW f, bl = StateOf(p, line, lm, blk, dd, at, tight, lev, T, F)
  PROVE  itemClosed(f) = LeftState(p, lm, at, lev, T, F, f, start)
<1> DEFINE b == StateOf(p, line, lm, blk, dd, at, tight, lev, T, F)
<1>1. PICK t2, blk2, dd2, at2, s2, F2, l, x :
        /\ t2 = f.saved.tight /\ blk2 = f.saved.blkIndent /\ dd2 = f.saved.ddIndent
        /\ at2 = [at EXCEPT ![f.ddLine] = f.saved.at] /\ s2 = start /\ F2 = Front(F)
        /\ l = f.ddLine /\ x = f.saved.at
  OBVIOUS
<1>2. b.at = at /\ b.frames = F
  BY DEF StateOf
<1>3. itemClosed(f) =
        closed([b EXCEPT !.tight = t2, !.blkIndent = blk2, !.ddIndent = dd2, !.at[l] = x,
                         !.line = s2, !.frames = F2], "dd_close", s2, s2)
  <2>1. [bl EXCEPT !.tight = f.saved.tight, !.blkIndent = f.saved.blkIndent,
                   !.ddIndent = f.saved.ddIndent, !.at[f.ddLine] = f.saved.at,
                   !.line = start, !.frames = Front(@)]
        = [bl EXCEPT !.tight = t2, !.blkIndent = blk2, !.ddIndent = dd2, !.at[l] = x,
                     !.line = s2, !.frames = F2]
    <3>1. bl.frames = F
      BY <1>2
    <3> QED BY <1>1, <3>1
  <2>2. itemClosed(f) =
          closed([bl EXCEPT !.tight = t2, !.blkIndent = blk2, !.ddIndent = dd2, !.at[l] = x,
                            !.line = s2, !.frames = F2], "dd_close", s2, s2)
    BY ONLY <2>1, <1>1 DEF itemClosed
  <2>3. bl = b
    OBVIOUS
  <2> HIDE DEF b
  <2> QED BY ONLY <2>2, <2>3
<1>4. [b EXCEPT !.tight = t2]
        = StateOf(p, line, lm, blk, dd, at, t2, lev, T, F)
  <2>1. [StateOf(p, line, lm, blk, dd, at, tight, lev, T, F) EXCEPT !.tight = t2]
          = StateOf(p, line, lm, blk, dd, at, t2, lev, T, F)
    BY Field_tight
  <2>2. b = StateOf(p, line, lm, blk, dd, at, tight, lev, T, F)
    OBVIOUS
  <2> HIDE DEF b
  <2> QED BY <2>1, <2>2
<1>5. [[b EXCEPT !.tight = t2] EXCEPT !.blkIndent = blk2]
        = StateOf(p, line, lm, blk2, dd, at, t2, lev, T, F)
  <2>1. [StateOf(p, line, lm, blk, dd, at, t2, lev, T, F) EXCEPT !.blkIndent = blk2]
          = StateOf(p, line, lm, blk2, dd, at, t2, lev, T, F)
    BY Field_blkIndent
  <2>2. [b EXCEPT !.tight = t2] = StateOf(p, line, lm, blk, dd, at, t2, lev, T, F)
    BY <1>4
  <2> HIDE DEF b
  <2> QED BY <2>1, <2>2
<1>6. [[[b EXCEPT !.tight = t2] EXCEPT !.blkIndent = blk2] EXCEPT !.ddIndent = dd2]
        = StateOf(p, line, lm, blk2, dd2, at, t2, lev, T, F)
  <2>1. [StateOf(p, line, lm, blk2, dd, at, t2, lev, T, F) EXCEPT !.ddIndent = dd2]
          = StateOf(p, line, lm, blk2, dd2, at, t2, lev, T, F)
    BY Field_ddIndent
  <2>2. [[b EXCEPT !.tight = t2] EXCEPT !.blkIndent = blk2] = StateOf(p, line, lm, blk2, dd, at, t2, lev, T, F)
    BY <1>5
  <2> HIDE DEF b
  <2> QED BY <2>1, <2>2
<1>7. [[[[b EXCEPT !.tight = t2] EXCEPT !.blkIndent = blk2] EXCEPT !.ddIndent = dd2] EXCEPT !.at = at2]
        = StateOf(p, line, lm, blk2, dd2, at2, t2, lev, T, F)
  <2>1. [StateOf(p, line, lm, blk2, dd2, at, t2, lev, T, F) EXCEPT !.at = at2]
          = StateOf(p, line, lm, blk2, dd2, at2, t2, lev, T, F)
    BY Field_at
  <2>2. [[[b EXCEPT !.tight = t2] EXCEPT !.blkIndent = blk2] EXCEPT !.ddIndent = dd2] = StateOf(p, line, lm, blk2, dd2, at, t2, lev, T, F)
    BY <1>6
  <2> HIDE DEF b
  <2> QED BY <2>1, <2>2
<1>8. [[[[[b EXCEPT !.tight = t2] EXCEPT !.blkIndent = blk2] EXCEPT !.ddIndent = dd2] EXCEPT !.at = at2] EXCEPT !.line = s2]
        = StateOf(p, s2, lm, blk2, dd2, at2, t2, lev, T, F)
  <2>1. [StateOf(p, line, lm, blk2, dd2, at2, t2, lev, T, F) EXCEPT !.line = s2]
          = StateOf(p, s2, lm, blk2, dd2, at2, t2, lev, T, F)
    BY Field_line
  <2>2. [[[[b EXCEPT !.tight = t2] EXCEPT !.blkIndent = blk2] EXCEPT !.ddIndent = dd2] EXCEPT !.at = at2] = StateOf(p, line, lm, blk2, dd2, at2, t2, lev, T, F)
    BY <1>7
  <2> HIDE DEF b
  <2> QED BY <2>1, <2>2
<1>9. [[[[[[b EXCEPT !.tight = t2] EXCEPT !.blkIndent = blk2] EXCEPT !.ddIndent = dd2] EXCEPT !.at = at2] EXCEPT !.line = s2] EXCEPT !.frames = F2]
        = StateOf(p, s2, lm, blk2, dd2, at2, t2, lev, T, F2)
  <2>1. [StateOf(p, s2, lm, blk2, dd2, at2, t2, lev, T, F) EXCEPT !.frames = F2]
          = StateOf(p, s2, lm, blk2, dd2, at2, t2, lev, T, F2)
    BY Field_frames
  <2>2. [[[[[b EXCEPT !.tight = t2] EXCEPT !.blkIndent = blk2] EXCEPT !.ddIndent = dd2] EXCEPT !.at = at2] EXCEPT !.line = s2] = StateOf(p, s2, lm, blk2, dd2, at2, t2, lev, T, F)
    BY <1>8
  <2> HIDE DEF b
  <2> QED BY <2>1, <2>2
<1>10. [b EXCEPT !.tight = t2, !.blkIndent = blk2, !.ddIndent = dd2, !.at[l] = x,
              !.line = s2, !.frames = F2]
         = [[[[[[b EXCEPT !.tight = t2] EXCEPT !.blkIndent = blk2] EXCEPT !.ddIndent = dd2] EXCEPT !.at = at2] EXCEPT !.line = s2] EXCEPT !.frames = F2]
  <2> DEFINE c1 == [[[b EXCEPT !.tight = t2] EXCEPT !.blkIndent = blk2] EXCEPT !.ddIndent = dd2]
  <2> HIDE DEF b
  <2>1. [b EXCEPT !.tight = t2, !.blkIndent = blk2, !.ddIndent = dd2, !.at[l] = x,
                  !.line = s2, !.frames = F2]
          = [[[c1 EXCEPT !.at[l] = x] EXCEPT !.line = s2] EXCEPT !.frames = F2]
    OBVIOUS
  <2>2. c1.at = at
    BY <1>2
  <2>3. [c1 EXCEPT !.at[l] = x] = [c1 EXCEPT !.at = [c1.at EXCEPT ![l] = x]]
    <3> HIDE DEF c1
    <3> QED OBVIOUS
  <2>4. [c1.at EXCEPT ![l] = x] = at2
    BY <1>1, <2>2
  <2> QED BY <2>1, <2>3, <2>4
<1>11. itemClosed(f) = closed(StateOf(p, s2, lm, blk2, dd2, at2, t2, lev, T, F2), "dd_close", s2, s2)
  <2> HIDE DEF b
  <2> QED BY <1>3, <1>9, <1>10
<1>12. closed(StateOf(p, s2, lm, blk2, dd2, at2, t2, lev, T, F2), "dd_close", s2, s2)
         = StateOf(p, s2, lm, blk2, dd2, at2, t2, lev - 1, Append(T, tokenOf("dd_close", lev - 1, s2, s2)), F2)
  BY ClosedFields
<1> HIDE DEF b
<1> QED BY <1>1, <1>11, <1>12 DEF LeftState

(* The beginning of a container, field by field. *)
LEMMA ContainerOfFields ==
  ASSUME NEW p, NEW line, NEW lm, NEW blk, NEW dd,
         NEW at, NEW tight, NEW lev, NEW T, NEW F,
         NEW l, NEW end, NEW found, bl = StateOf(p, line, lm, blk, dd, at, tight, lev, T, F)
  PROVE  containerOf(l, end, found)
           = StateOf(p, l + 1, end, blk, dd, at, tight, lev + 1,
                     Append(T, tokenOf("container_open", lev, l, end)),
                     Append(F, [rule |-> "container", endLine |-> end, hasEmpty |-> FALSE,
                                auto_closed |-> found, lineMax |-> lm]))
<1>1. PICK T2, lev2, l2, F2 :
        /\ T2 = Append(T, tokenOf("container_open", lev, l, end)) /\ lev2 = lev + 1 /\ l2 = l + 1
        /\ F2 = Append(F, [rule |-> "container", endLine |-> end, hasEmpty |-> FALSE,
                            auto_closed |-> found, lineMax |-> lm])
  OBVIOUS
<1> DEFINE b == StateOf(p, line, lm, blk, dd, at, tight, lev2, T2, F)
<1>2. opened(bl, "container_open", l, end) = b /\ bl.lineMax = lm /\ b.frames = F
  <2>1. opened(StateOf(p, line, lm, blk, dd, at, tight, lev, T, F), "container_open", l, end) = b
    BY <1>1, OpenedFields
  <2>2. bl.lineMax = lm /\ b.frames = F
    BY DEF StateOf
  <2> QED BY <2>1, <2>2
<1>3. containerOf(l, end, found) = [b EXCEPT !.lineMax = end, !.line = l2, !.frames = F2]
  <2> HIDE DEF b
  <2> QED BY <1>1, <1>2 DEF containerOf
<1>4. [b EXCEPT !.lineMax = end]
        = StateOf(p, line, end, blk, dd, at, tight, lev2, T2, F)
  <2>1. [StateOf(p, line, lm, blk, dd, at, tight, lev2, T2, F) EXCEPT !.lineMax = end]
          = StateOf(p, line, end, blk, dd, at, tight, lev2, T2, F)
    BY Field_lineMax
  <2>2. b = StateOf(p, line, lm, blk, dd, at, tight, lev2, T2, F)
    OBVIOUS
  <2> HIDE DEF b
  <2> QED BY <2>1, <2>2
<1>5. [[b EXCEPT !.lineMax = end] EXCEPT !.line = l2]
        = StateOf(p, l2, end, blk, dd, at, tight, lev2, T2, F)
  <2>1. [StateOf(p, line, end, blk, dd, at, tight, lev2, T2, F) EXCEPT !.line = l2]
          = StateOf(p, l2, end, blk, dd, at, tight, lev2, T2, F)
    BY Field_line
  <2>2. [b EXCEPT !.lineMax = end] = StateOf(p, line, end, blk, dd, at, tight, lev2, T2, F)
    BY <1>4
  <2> HIDE DEF b
  <2> QED BY <2>1, <2>2
<1>6. [[[b EXCEPT !.lineMax = end] EXCEPT !.line = l2] EXCEPT !.frames = F2]
        = StateOf(p, l2, end, blk, dd, at, tight, lev2, T2, F2)
  <2>1. [StateOf(p, l2, end, blk, dd, at, tight, lev2, T2, F) EXCEPT !.frames = F2]
          = StateOf(p, l2, end, blk, dd, at, tight, lev2, T2, F2)
    BY Field_frames
  <2>2. [[b EXCEPT !.lineMax = end] EXCEPT !.line = l2] = StateOf(p, l2, end, blk, dd, at, tight, lev2, T2, F)
    BY <1>5
  <2> HIDE DEF b
  <2> QED BY <2>1, <2>2
<1>7. [b EXCEPT !.lineMax = end, !.line = l2, !.frames = F2]
         = [[[b EXCEPT !.lineMax = end] EXCEPT !.line = l2] EXCEPT !.frames = F2]
  <2> HIDE DEF b
  <2> QED OBVIOUS
<1> HIDE DEF b
<1> QED BY <1>1, <1>3, <1>6, <1>7

(* A container is closed, and what it is in goes on at line nx. *)
ContainerLeft(c, lm2, nx) == [c EXCEPT !.lineMax = lm2, !.line = nx, !.frames = Front(@)]

(* The end of a container, field by field. *)
LEMMA ContainerClosedFields ==
  ASSUME NEW p, NEW line, NEW lm, NEW blk, NEW dd,
         NEW at, NEW tight, NEW lev, NEW T, NEW F,
         NEW x, NEW nx, NEW lm2,
         NEW c, c = closed(StateOf(p, line, lm, blk, dd, at, tight, lev, T, F), "container_close", x, nx)
  PROVE  ContainerLeft(c, lm2, nx)
           = StateOf(p, nx, lm2, blk, dd, at, tight, lev - 1,
                     Append(T, tokenOf("container_close", lev - 1, x, nx)), Front(F))
<1>1. PICK T2, lev2, F2 :
        /\ T2 = Append(T, tokenOf("container_close", lev - 1, x, nx)) /\ lev2 = lev - 1
        /\ F2 = Front(F)
  OBVIOUS
<1> DEFINE b == StateOf(p, line, lm, blk, dd, at, tight, lev2, T2, F)
<1>2. c = b /\ b.frames = F
  <2>1. closed(StateOf(p, line, lm, blk, dd, at, tight, lev, T, F), "container_close", x, nx) = b
    BY <1>1, ClosedFields
  <2>2. b.frames = F
    BY DEF StateOf
  <2> QED BY <2>1, <2>2
<1>3. [c EXCEPT !.lineMax = lm2, !.line = nx, !.frames = Front(@)]
         = [b EXCEPT !.lineMax = lm2, !.line = nx, !.frames = F2]
  <2> HIDE DEF b
  <2> QED BY <1>1, <1>2
<1>4. [b EXCEPT !.lineMax = lm2]
        = StateOf(p, line, lm2, blk, dd, at, tight, lev2, T2, F)
  <2>1. [StateOf(p, line, lm, blk, dd, at, tight, lev2, T2, F) EXCEPT !.lineMax = lm2]
          = StateOf(p, line, lm2, blk, dd, at, tight, lev2, T2, F)
    BY Field_lineMax
  <2>2. b = StateOf(p, line, lm, blk, dd, at, tight, lev2, T2, F)
    OBVIOUS
  <2> HIDE DEF b
  <2> QED BY <2>1, <2>2
<1>5. [[b EXCEPT !.lineMax = lm2] EXCEPT !.line = nx]
        = StateOf(p, nx, lm2, blk, dd, at, tight, lev2, T2, F)
  <2>1. [StateOf(p, line, lm2, blk, dd, at, tight, lev2, T2, F) EXCEPT !.line = nx]
          = StateOf(p, nx, lm2, blk, dd, at, tight, lev2, T2, F)
    BY Field_line
  <2>2. [b EXCEPT !.lineMax = lm2] = StateOf(p, line, lm2, blk, dd, at, tight, lev2, T2, F)
    BY <1>4
  <2> HIDE DEF b
  <2> QED BY <2>1, <2>2
<1>6. [[[b EXCEPT !.lineMax = lm2] EXCEPT !.line = nx] EXCEPT !.frames = F2]
        = StateOf(p, nx, lm2, blk, dd, at, tight, lev2, T2, F2)
  <2>1. [StateOf(p, nx, lm2, blk, dd, at, tight, lev2, T2, F) EXCEPT !.frames = F2]
          = StateOf(p, nx, lm2, blk, dd, at, tight, lev2, T2, F2)
    BY Field_frames
  <2>2. [[b EXCEPT !.lineMax = lm2] EXCEPT !.line = nx] = StateOf(p, nx, lm2, blk, dd, at, tight, lev2, T2, F)
    BY <1>5
  <2> HIDE DEF b
  <2> QED BY <2>1, <2>2
<1>7. [b EXCEPT !.lineMax = lm2, !.line = nx, !.frames = F2]
         = [[[b EXCEPT !.lineMax = lm2] EXCEPT !.line = nx] EXCEPT !.frames = F2]
  <2> HIDE DEF b
  <2> QED OBVIOUS
<1> HIDE DEF b
<1> QED BY <1>1, <1>3, <1>6, <1>7 DEF ContainerLeft

(* The tokens with the paragraphs of a list hidden. *)
Tightened(T, lev, idx) ==
  [i \in DOMAIN T |->
     IF i > idx + 1 /\ T[i].level = lev + 2 /\ T[i].type \in {"paragraph_open", "paragraph_close"}
     THEN [T[i] EXCEPT !.hidden = TRUE] ELSE T[i]]

(* The paragraphs of a list are hidden, and nothing else changes. *)
LEMMA TightenedFields ==
  ASSUME NEW p, NEW line, NEW lm, NEW blk, NEW dd,
         NEW at, NEW tight, NEW lev, NEW T, NEW F,
         NEW idx
  PROVE  markTightParagraphs(StateOf(p, line, lm, blk, dd, at, tight, lev, T, F), idx)
           = StateOf(p, line, lm, blk, dd, at, tight, lev, Tightened(T, lev, idx), F)
<1> DEFINE b == StateOf(p, line, lm, blk, dd, at, tight, lev, T, F)
<1>1. b.tokens = T /\ b.level = lev
  BY DEF StateOf
<1>2. markTightParagraphs(b, idx) = [b EXCEPT !.tokens = Tightened(T, lev, idx)]
  <2> HIDE DEF b
  <2> QED BY <1>1 DEF markTightParagraphs, Tightened
<1>3. [b EXCEPT !.tokens = Tightened(T, lev, idx)] = StateOf(p, line, lm, blk, dd, at, tight, lev, Tightened(T, lev, idx), F)
  <2>1. PICK T2 : T2 = Tightened(T, lev, idx)
    OBVIOUS
  <2>2. [b EXCEPT !.tokens = T2] = StateOf(p, line, lm, blk, dd, at, tight, lev, T2, F)
    BY Field_tokens
  <2> QED BY <2>1, <2>2
<1> QED BY <1>2, <1>3

-----------------------------------------------------------------------------
(* A set of numbers has a least one, and a greatest one if it is bounded. *)
LEMMA LeastOf ==
  ASSUME NEW S, S \subseteq Nat, S # {}
  PROVE  \E i \in S : \A j \in S : i <= j
<1> DEFINE R == {ss \in Nat \X Nat : ss[1] < ss[2]}
<1>1. IsWellFoundedOn(R, Nat)
  BY NatLessThanWellFounded DEF OpToRel
<1>2. \A i, j \in Nat : <<i, j>> \in R <=> i < j
  OBVIOUS
<1> HIDE DEF R
<1>3. PICK i \in S : \A j \in S : ~ (<<j, i>> \in R)
  BY <1>1, WFMin
<1>4. \A j \in S : ~ (j < i)
  BY <1>2, <1>3
<1>5. \A j \in S : i \in Nat /\ j \in Nat
  OBVIOUS
<1> QED BY ONLY i \in S, <1>4, <1>5

(* The greatest one. *)
LEMMA GreatestOf ==
  ASSUME NEW n \in Nat, NEW S, S \subseteq 0..n, S # {}
  PROVE  \E i \in S : \A j \in S : j <= i
<1> DEFINE U == {m \in Nat : n - m \in S}
<1>1. U \subseteq Nat /\ U # {}
  <2>1. PICK i \in S : TRUE
    OBVIOUS
  <2>2. i \in 0..n
    BY <2>1
  <2>3. n - i \in Nat /\ n - (n - i) = i
    BY <2>2
  <2>4. n - i \in U
    BY <2>1, <2>3
  <2> QED BY <2>4
<1>2. \A m \in U : m \in Nat /\ n - m \in S
  OBVIOUS
<1>3. \A m \in Nat : n - m \in S => m \in U
  OBVIOUS
<1> HIDE DEF U
<1>4. PICK m \in U : \A k \in U : m <= k
  BY <1>1, LeastOf
<1>5. m \in Nat /\ n - m \in S
  BY <1>2, <1>4
<1>6. ASSUME NEW j \in S
      PROVE  j <= n - m
  <2>1. j \in 0..n
    OBVIOUS
  <2>2. n - j \in Nat /\ n - (n - j) = j
    BY <2>1
  <2>3. n - j \in U
    BY <1>3, <2>2
  <2>4. m <= n - j
    BY <1>4, <2>3
  <2> QED BY <1>5, <2>1, <2>4
<1> QED BY <1>5, <1>6

-----------------------------------------------------------------------------
(* What a rule may take for granted: frame f, on top of those of F0, reads up to the   *)
(* last line.                                                                *)
Ready(b, F0, f) ==
  /\ b \in BlockStates /\ GoodPage(b.page) /\ IsAt(b.page, b.at)
  /\ b.line \in 1..b.lineMax /\ b.lineMax \in 1..(Len(b.page) + 1)
  /\ F0 \in Seq(Frames) /\ f \in Frames /\ b.frames = Append(F0, f) /\ f.endLine = b.lineMax

(* s is the next line that is not empty, or the last one. *)
IsStart(p, line, lm, s) ==
  /\ s \in line..lm /\ (s = lm \/ ~Blank(p, s))
  /\ \A k \in line..(s - 1) : Blank(p, k)

(* The next line that is not empty, or the last one. *)
LEMMA StartFound ==
  ASSUME NEW F0, NEW f, Ready(bl, F0, f)
  PROVE  IsStart(bl.page, bl.line, bl.lineMax, start)
<1>0. /\ bl.line \in Nat /\ bl.lineMax \in Nat /\ bl.line <= bl.lineMax /\ 1 <= bl.line
      /\ bl.lineMax <= Len(bl.page) + 1 /\ Len(bl.page) \in Nat
  BY DEF Ready, GoodPage
<1>1. \A l : isEmpty(bl, l) <=> Blank(bl.page, l)
  BY EmptyIsBlank DEF Ready
<1> DEFINE line == bl.line
           lm == bl.lineMax
           P(l) == /\ l >= lm \/ ~Blank(bl.page, l)
                   /\ \A k \in line..(l - 1) : k < lm /\ Blank(bl.page, k)
           S == {l \in line..lm : l = lm \/ ~Blank(bl.page, l)}
<1>2. start = CHOOSE l \in line..(Len(bl.page) + 1) : P(l)
  BY <1>1 DEF start
<1>3. PICK s \in S : \A j \in S : s <= j
  <2>1. lm \in S /\ S \subseteq Nat
    BY <1>0
  <2> HIDE DEF S
  <2> QED BY <2>1, LeastOf
<1>4. s \in line..lm /\ (s = lm \/ ~Blank(bl.page, s))
  BY <1>3
<1>5. \A k \in line..(s - 1) : k < lm /\ Blank(bl.page, k)
  <2> SUFFICES ASSUME NEW k \in line..(s - 1)
               PROVE  k < lm /\ Blank(bl.page, k)
    OBVIOUS
  <2>1. k \in line..lm /\ k < lm /\ ~ (s <= k)
    BY <1>0, <1>4
  <2>2. k \notin S
    BY <1>3, <2>1
  <2> QED BY <2>1, <2>2
<1>6. s \in line..(Len(bl.page) + 1) /\ P(s)
  BY <1>0, <1>4, <1>5
<1>7. start \in line..(Len(bl.page) + 1) /\ P(start)
  <2> HIDE DEF P
  <2> QED BY <1>2, <1>6
<1>8. start <= lm
  <2>1. CASE start = line
    BY <1>0, <2>1
  <2>2. CASE start # line
    <3>1. start - 1 \in line..(start - 1)
      BY <1>0, <1>7, <2>2
    <3>2. start - 1 < lm
      BY <1>7, <3>1
    <3> QED BY <1>0, <1>7, <3>2
  <2> QED BY <2>1, <2>2
<1>9. start \in line..lm /\ (start = lm \/ ~Blank(bl.page, start))
  BY <1>0, <1>7, <1>8
<1> QED BY <1>7, <1>9 DEF IsStart

(* A rule reads on a line that is not empty. *)
LEMMA ReadsThere ==
  ASSUME NEW F0, NEW f, Ready(bl, F0, f), reads
  PROVE  /\ IsStart(bl.page, bl.line, bl.lineMax, start)
         /\ start \in DOMAIN bl.page /\ start < bl.lineMax /\ ~Blank(bl.page, start)
         /\ bl.at[start].indent >= bl.blkIndent
         /\ frameOn = f
<1>1. IsStart(bl.page, bl.line, bl.lineMax, start)
  BY StartFound
<1>2. frameOn = f
  BY DEF Ready, frameOn, Last
<1>3. start < bl.lineMax /\ ~ (sCount(bl, start) < bl.blkIndent)
  BY <1>1, <1>2 DEF reads, ends, Ready, IsStart, BlockStates
<1>4. start \in DOMAIN bl.page
  BY <1>1, <1>3 DEF IsStart, Ready, BlockStates
<1>5. bl.at[start].indent \in Nat /\ bl.blkIndent \in Nat
  <2>1. bl.at \in Seq(Ats) /\ start \in DOMAIN bl.at /\ bl.blkIndent \in Nat
    BY <1>4 DEF Ready, BlockStates, IsAt
  <2>2. bl.at[start] \in Ats
    BY <2>1
  <2> QED BY <2>1, <2>2 DEF Ats
<1> QED BY <1>1, <1>2, <1>3, <1>4, <1>5 DEF IsStart, sCount

(* A frame has nothing more to read. *)
LEMMA EndsThere ==
  ASSUME NEW F0, NEW f, Ready(bl, F0, f), ends
  PROVE  /\ IsStart(bl.page, bl.line, bl.lineMax, start)
         /\ frameOn = f
         /\ \/ start = bl.lineMax
            \/ /\ start \in DOMAIN bl.page /\ start < bl.lineMax /\ ~Blank(bl.page, start)
               /\ bl.at[start].indent < bl.blkIndent
<1>1. IsStart(bl.page, bl.line, bl.lineMax, start)
  BY StartFound
<1>2. frameOn = f
  BY DEF Ready, frameOn, Last
<1>3. start = bl.lineMax \/ (start < bl.lineMax /\ sCount(bl, start) < bl.blkIndent)
  BY <1>1, <1>2 DEF ends, Ready, IsStart, BlockStates
<1>4. start < bl.lineMax => start \in DOMAIN bl.page /\ ~Blank(bl.page, start)
  BY <1>1 DEF IsStart, Ready, BlockStates
<1> QED BY <1>1, <1>2, <1>3, <1>4 DEF sCount

(* Where a frame goes on when a block ends before line x, and what it makes of it. *)
Behind(p, f, x) == IF x < f.endLine /\ Blank(p, x) THEN x + 1 ELSE x

(* A frame has had empty lines if there is one behind the block, or at its end. *)
Marked(p, f, x) ==
  [f EXCEPT !.hasEmpty = @ \/ (x < f.endLine /\ Blank(p, x)) \/ Blank(p, x - 1)]

(* What the parser's loop does behind a block. *)
LEMMA AfterBlock ==
  ASSUME NEW p, GoodPage(p), NEW line \in Nat, NEW lm, NEW blk, NEW dd, NEW at, IsAt(p, at),
         NEW tight, NEW lev, NEW T, NEW F0 \in Seq(Frames), NEW f \in Frames
  PROVE  after(StateOf(p, line, lm, blk, dd, at, tight, lev, T, Append(F0, f)))
           = StateOf(p, Behind(p, f, line), lm, blk, dd, at, ~f.hasEmpty, lev, T,
                     Append(F0, Marked(p, f, line)))
BY AfterFields DEF Behind, Marked

(* What Code does to the state. *)
LEMMA CodeStep ==
  ASSUME NEW F0, NEW f, Ready(bl, F0, f), Code
  PROVE  /\ reads
         /\ \E end \in (start + 1)..bl.lineMax :
           /\ ~Blank(bl.page, end - 1)
           /\ bl' = StateOf(bl.page, Behind(bl.page, f, end), bl.lineMax, bl.blkIndent, bl.ddIndent,
                            bl.at, ~f.hasEmpty, bl.level,
                            Append(bl.tokens, tokenOf("code", bl.level, start, end)),
                            Append(F0, Marked(bl.page, f, end)))
<1>1. reads /\ isCode(start)
  BY DEF Code
<1>2. /\ IsStart(bl.page, bl.line, bl.lineMax, start) /\ start < bl.lineMax
      /\ ~Blank(bl.page, start) /\ frameOn = f
  BY <1>1, ReadsThere
<1>3. start \in Nat /\ bl.lineMax \in Nat /\ f.endLine = bl.lineMax
  BY <1>2 DEF IsStart, Ready, BlockStates
<1>4. \A l : isEmpty(bl, l) <=> Blank(bl.page, l)
  BY EmptyIsBlank DEF Ready
<1> DEFINE first(l) == \A k \in start..(l - 1) : isEmpty(bl, k) \/ isCode(k)
           C(l) == /\ first(l)
                   /\ ~isEmpty(bl, l - 1)
                   /\ \A k \in l..(f.endLine - 1) :
                        (\A j \in l..k : isEmpty(bl, j) \/ isCode(j)) => isEmpty(bl, k)
           S == {l \in (start + 1)..bl.lineMax : first(l) /\ ~isEmpty(bl, l - 1)}
           end == CHOOSE l \in (start + 1)..f.endLine : C(l)
<1>5. bl' = after([leaf(bl, "code", start, end) EXCEPT !.line = end])
  BY <1>2 DEF Code
<1>6. start + 1 \in S
  BY <1>1, <1>2, <1>3, <1>4
<1>7. PICK m \in S : \A j \in S : j <= m
  <2>1. S \subseteq 0..bl.lineMax
    BY <1>3
  <2> HIDE DEF S
  <2> QED BY <1>3, <1>6, <2>1, GreatestOf
<1>8. m \in (start + 1)..bl.lineMax /\ first(m) /\ ~isEmpty(bl, m - 1)
  BY <1>7
<1>9. \A k \in m..(f.endLine - 1) :
        (\A j \in m..k : isEmpty(bl, j) \/ isCode(j)) => isEmpty(bl, k)
  <2> SUFFICES ASSUME NEW k \in m..(f.endLine - 1), \A j \in m..k : isEmpty(bl, j) \/ isCode(j),
                      ~isEmpty(bl, k)
               PROVE  FALSE
    OBVIOUS
  <2>1. k + 1 \in (start + 1)..bl.lineMax /\ ~ (k + 1 <= m) /\ (k + 1) - 1 = k
    BY <1>3, <1>8
  <2>2. first(k + 1)
    <3> SUFFICES ASSUME NEW j \in start..((k + 1) - 1)
                 PROVE  isEmpty(bl, j) \/ isCode(j)
      OBVIOUS
    <3>1. j \in start..(m - 1) \/ j \in m..k
      BY <1>3, <1>8
    <3> QED BY <1>8, <3>1
  <2>3. k + 1 \in S
    BY <2>1, <2>2
  <2> QED BY <1>7, <2>1, <2>3
<1>10. m \in (start + 1)..f.endLine /\ C(m)
  BY <1>3, <1>8, <1>9
<1>11. end \in (start + 1)..f.endLine /\ C(end)
  <2> HIDE DEF C
  <2> QED BY <1>10
<1> HIDE DEF end, S
<1>12. end \in (start + 1)..bl.lineMax /\ ~Blank(bl.page, end - 1) /\ end \in Nat
  BY <1>3, <1>4, <1>11
<1>13. [leaf(bl, "code", start, end) EXCEPT !.line = end]
         = StateOf(bl.page, end, bl.lineMax, bl.blkIndent, bl.ddIndent, bl.at, bl.tight, bl.level,
                   Append(bl.tokens, tokenOf("code", bl.level, start, end)), Append(F0, f))
  <2>1. bl = StateOf(bl.page, bl.line, bl.lineMax, bl.blkIndent, bl.ddIndent, bl.at, bl.tight,
                     bl.level, bl.tokens, Append(F0, f))
    BY StateIsOfFields DEF Ready
  <2>2. leaf(bl, "code", start, end)
          = StateOf(bl.page, bl.line, bl.lineMax, bl.blkIndent, bl.ddIndent, bl.at, bl.tight, bl.level,
                    Append(bl.tokens, tokenOf("code", bl.level, start, end)), Append(F0, f))
    BY <2>1, LeafFields
  <2> QED BY <2>2, Field_line
<1>14. after(StateOf(bl.page, end, bl.lineMax, bl.blkIndent, bl.ddIndent, bl.at, bl.tight, bl.level,
                   Append(bl.tokens, tokenOf("code", bl.level, start, end)), Append(F0, f)))
         = StateOf(bl.page, Behind(bl.page, f, end), bl.lineMax, bl.blkIndent, bl.ddIndent,
                            bl.at, ~f.hasEmpty, bl.level,
                            Append(bl.tokens, tokenOf("code", bl.level, start, end)),
                            Append(F0, Marked(bl.page, f, end)))
  BY <1>12, AfterBlock DEF Ready
<1> QED BY <1>1, <1>5, <1>12, <1>13, <1>14

(* The tokens of a paragraph. *)
WithParagraph(T, lev, x, y) ==
  Append(Append(Append(T, tokenOf("paragraph_open", lev, x, y)),
                tokenOf("inline", lev + 1, x, y)),
         tokenOf("paragraph_close", lev, x, y))

(* The tokens of a paragraph leave the other fields as they are. *)
LEMMA ParagraphFields ==
  ASSUME NEW p, NEW line, NEW lm, NEW blk, NEW dd, NEW at, NEW tight, NEW lev \in Nat, NEW T, NEW F,
         NEW x, NEW y
  PROVE  closed(leaf(opened(StateOf(p, line, lm, blk, dd, at, tight, lev, T, F),
                            "paragraph_open", x, y), "inline", x, y), "paragraph_close", x, y)
           = StateOf(p, line, lm, blk, dd, at, tight, lev, WithParagraph(T, lev, x, y), F)
<1>1. PICK T1, T2, l1 :
        /\ T1 = Append(T, tokenOf("paragraph_open", lev, x, y)) /\ l1 = lev + 1
        /\ T2 = Append(T1, tokenOf("inline", l1, x, y))
  OBVIOUS
<1>2. opened(StateOf(p, line, lm, blk, dd, at, tight, lev, T, F), "paragraph_open", x, y)
        = StateOf(p, line, lm, blk, dd, at, tight, l1, T1, F)
  BY <1>1, OpenedFields
<1>3. leaf(StateOf(p, line, lm, blk, dd, at, tight, l1, T1, F), "inline", x, y)
        = StateOf(p, line, lm, blk, dd, at, tight, l1, T2, F)
  BY <1>1, LeafFields
<1>4. closed(StateOf(p, line, lm, blk, dd, at, tight, l1, T2, F), "paragraph_close", x, y)
        = StateOf(p, line, lm, blk, dd, at, tight, l1 - 1,
                  Append(T2, tokenOf("paragraph_close", l1 - 1, x, y)), F)
  BY ClosedFields
<1>5. l1 - 1 = lev
  BY <1>1
<1> QED BY <1>1, <1>2, <1>3, <1>4, <1>5 DEF WithParagraph

(* What BlockParagraph does to the state. *)
LEMMA ParagraphStep ==
  ASSUME NEW F0, NEW f, Ready(bl, F0, f), BlockParagraph
  PROVE  /\ reads
         /\ \E end \in (start + 1)..bl.lineMax :
           /\ \A k \in start..(end - 1) : ~Blank(bl.page, k)
           /\ bl' = StateOf(bl.page, Behind(bl.page, f, end), bl.lineMax, bl.blkIndent, bl.ddIndent,
                            bl.at, ~f.hasEmpty, bl.level,
                            WithParagraph(bl.tokens, bl.level, start, end),
                            Append(F0, Marked(bl.page, f, end)))
<1>1. reads
  BY DEF BlockParagraph
<1>2. /\ IsStart(bl.page, bl.line, bl.lineMax, start) /\ start < bl.lineMax
      /\ ~Blank(bl.page, start) /\ frameOn = f
  BY <1>1, ReadsThere
<1>3. start \in Nat /\ bl.lineMax \in Nat /\ bl.level \in Nat
  BY <1>2 DEF IsStart, Ready, BlockStates
<1>4. \A l : isEmpty(bl, l) <=> Blank(bl.page, l)
  BY EmptyIsBlank DEF Ready
<1> DEFINE continues(l) == /\ ~isEmpty(bl, l)
                           /\ sCount(bl, l) - bl.blkIndent <= 3 =>
                                ~opensContainer(bl, l) /\ ~continuesList(bl, l)
           C(l) == /\ \A k \in (start + 1)..(l - 1) : continues(k)
                   /\ l = bl.lineMax \/ ~continues(l)
           S == {l \in (start + 1)..bl.lineMax : l = bl.lineMax \/ ~continues(l)}
           end == CHOOSE l \in (start + 1)..bl.lineMax : C(l)
<1>5. bl' = after([closed(leaf(opened(bl, "paragraph_open", start, end), "inline", start, end),
                          "paragraph_close", start, end) EXCEPT !.line = end])
  BY DEF BlockParagraph
<1>6. \A l : continues(l) => ~Blank(bl.page, l)
  BY <1>4
<1> HIDE DEF continues
<1>7. PICK m \in S : \A j \in S : m <= j
  <2>1. bl.lineMax \in S /\ S \subseteq Nat
    BY <1>2, <1>3
  <2> HIDE DEF S
  <2> QED BY <2>1, LeastOf
<1>8. m \in (start + 1)..bl.lineMax /\ C(m)
  <2>1. m \in (start + 1)..bl.lineMax /\ (m = bl.lineMax \/ ~continues(m))
    BY <1>7
  <2>2. ASSUME NEW k \in (start + 1)..(m - 1)
        PROVE  continues(k)
    <3>1. k \in (start + 1)..bl.lineMax /\ ~ (m <= k)
      BY <1>3, <2>1
    <3>2. k \notin S
      BY <1>7, <3>1
    <3> QED BY <3>1, <3>2
  <2> QED BY <2>1, <2>2
<1>9. end \in (start + 1)..bl.lineMax /\ C(end)
  <2> HIDE DEF C
  <2> QED BY <1>8
<1> HIDE DEF end, S
<1>10. \A k \in start..(end - 1) : ~Blank(bl.page, k)
  <2> SUFFICES ASSUME NEW k \in start..(end - 1)
               PROVE  ~Blank(bl.page, k)
    OBVIOUS
  <2>1. k = start \/ k \in (start + 1)..(end - 1)
    BY <1>3, <1>9
  <2> QED BY <1>2, <1>6, <1>9, <2>1
<1>11. end \in Nat
  BY <1>3, <1>9
<1>12. [closed(leaf(opened(bl, "paragraph_open", start, end), "inline", start, end),
                          "paragraph_close", start, end) EXCEPT !.line = end]
         = StateOf(bl.page, end, bl.lineMax, bl.blkIndent, bl.ddIndent, bl.at, bl.tight, bl.level,
                   WithParagraph(bl.tokens, bl.level, start, end), Append(F0, f))
  <2>1. bl = StateOf(bl.page, bl.line, bl.lineMax, bl.blkIndent, bl.ddIndent, bl.at, bl.tight,
                     bl.level, bl.tokens, Append(F0, f))
    BY StateIsOfFields DEF Ready
  <2>2. closed(leaf(opened(bl, "paragraph_open", start, end), "inline", start, end),
                          "paragraph_close", start, end)
          = StateOf(bl.page, bl.line, bl.lineMax, bl.blkIndent, bl.ddIndent, bl.at, bl.tight, bl.level,
                    WithParagraph(bl.tokens, bl.level, start, end), Append(F0, f))
    BY <1>3, <2>1, ParagraphFields
  <2> QED BY <2>2, Field_line
<1>13. after(StateOf(bl.page, end, bl.lineMax, bl.blkIndent, bl.ddIndent, bl.at, bl.tight, bl.level,
                   WithParagraph(bl.tokens, bl.level, start, end), Append(F0, f)))
         = StateOf(bl.page, Behind(bl.page, f, end), bl.lineMax, bl.blkIndent, bl.ddIndent,
                            bl.at, ~f.hasEmpty, bl.level,
                            WithParagraph(bl.tokens, bl.level, start, end),
                            Append(F0, Marked(bl.page, f, end)))
  BY <1>11, AfterBlock DEF Ready
<1> QED BY <1>1, <1>5, <1>9, <1>10, <1>12, <1>13

-----------------------------------------------------------------------------
(* A line that may be the end of a container. *)
Bare(p, l) == p[l].body = "empty" /\ p[l].marks = <<>> /\ p[l].indent <= 3

(* The frame of a new container. *)
ContainerFrame(end, found, lm) ==
  [rule |-> "container", endLine |-> end, hasEmpty |-> FALSE, auto_closed |-> found, lineMax |-> lm]

(* How far a container goes. *)
ContainerGoes(p, at, blk, lm, s, end, found) ==
  /\ end \in (s + 1)..lm /\ found \in BOOLEAN
  /\ \A k \in (s + 1)..(end - 1) :
       /\ k \in DOMAIN p
       /\ ~Blank(p, k) => at[k].indent >= blk
       /\ Bare(p, k) => p[k].markers < p[s].markers
  /\ end = lm \/ (end \in DOMAIN p /\ (at[end].marks = <<>> \/ at[end].indent < blk))
  /\ found => end < lm /\ end \in DOMAIN p /\ p[end].markers >= p[s].markers

(* What Container does to the state. *)
LEMMA ContainerStep ==
  ASSUME NEW F0, NEW f, Ready(bl, F0, f), Container
  PROVE  /\ reads /\ bl.at[start].marks = <<>>
         /\ \E end, found :
           /\ ContainerGoes(bl.page, bl.at, bl.blkIndent, bl.lineMax, start, end, found)
           /\ bl' = StateOf(bl.page, start + 1, end, bl.blkIndent, bl.ddIndent,
                            bl.at, bl.tight, bl.level + 1,
                            Append(bl.tokens, tokenOf("container_open", bl.level, start, end)),
                            Append(Append(F0, f), ContainerFrame(end, found, bl.lineMax)))
<1>1. reads /\ opensContainer(bl, start)
  BY DEF Container
<1>2. /\ IsStart(bl.page, bl.line, bl.lineMax, start) /\ start < bl.lineMax
      /\ start \in DOMAIN bl.page
      /\ ~Blank(bl.page, start) /\ frameOn = f
  BY <1>1, ReadsThere
<1>3. start \in Nat /\ bl.lineMax \in Nat /\ bl.level \in Nat /\ 1 <= start
      /\ f.endLine = bl.lineMax /\ bl.blkIndent \in Nat
  BY <1>2 DEF IsStart, Ready, BlockStates
<1>4. \A l : isEmpty(bl, l) <=> Blank(bl.page, l)
  BY EmptyIsBlank DEF Ready
<1>5. bl.at[start].marks = <<>> /\ fenceLength(bl, start) = bl.page[start].markers
      /\ bl.page[start].markers >= 3
  BY <1>1, <1>2 DEF opensContainer, fenceLength, min_markers
<1>6. \A k \in DOMAIN bl.page :
        /\ bl.page[k].markers \in Nat /\ bl.page[k].indent \in Nat
        /\ bl.at[k].indent \in Nat
        /\ bl.page[k].marks = <<>> => bl.at[k] = Origin(bl.page, k)
  <2> SUFFICES ASSUME NEW k \in DOMAIN bl.page
               PROVE  /\ bl.page[k].markers \in Nat /\ bl.page[k].indent \in Nat
                      /\ bl.at[k].indent \in Nat
                      /\ bl.page[k].marks = <<>> => bl.at[k] = Origin(bl.page, k)
    OBVIOUS
  <2>1. bl.page \in Seq(PageLines) /\ bl.at \in Seq(Ats) /\ k \in DOMAIN bl.at
    BY DEF Ready, GoodPage, IsAt
  <2>2. bl.page[k] \in PageLines /\ bl.at[k] \in Ats
    BY <2>1
  <2>3. bl.page[k].marks = <<>> => bl.at[k] = Origin(bl.page, k)
    BY DEF Ready, IsAt
  <2> QED BY <2>2, <2>3 DEF PageLines, Ats
<1> DEFINE n == bl.page[start].markers
           outside(k) == ~isEmpty(bl, k) /\ sCount(bl, k) < bl.blkIndent
           stops(k) == outside(k) \/ closesContainer(k, fenceLength(bl, start))
           C(k) == /\ k = f.endLine \/ stops(k)
                   /\ \A j \in (start + 1)..(k - 1) : ~stops(j)
           S == {k \in (start + 1)..f.endLine : k = f.endLine \/ stops(k)}
           end == CHOOSE k \in (start + 1)..f.endLine : C(k)
<1>21. n \in Nat /\ n >= 3
  BY <1>2, <1>5, <1>6
<1>7. containerEnd(start) = end
  BY <1>2 DEF containerEnd
<1> DEFINE found == end < f.endLine /\ closesContainer(end, fenceLength(bl, start))
                      /\ ~(sCount(bl, end) < bl.blkIndent)
<1>8. bl' = containerOf(start, end, found)
  BY <1>2, <1>7 DEF Container
<1> HIDE DEF stops
<1>9. PICK m \in S : \A j \in S : m <= j
  <2>1. f.endLine \in S /\ S \subseteq Nat
    BY <1>2, <1>3
  <2> HIDE DEF S
  <2> QED BY <2>1, LeastOf
<1>10. m \in (start + 1)..f.endLine /\ C(m)
  <2>1. m \in (start + 1)..f.endLine /\ (m = f.endLine \/ stops(m))
    BY <1>9
  <2>2. ASSUME NEW k \in (start + 1)..(m - 1)
        PROVE  ~stops(k)
    <3>1. k \in (start + 1)..f.endLine /\ ~ (m <= k)
      BY <1>3, <2>1
    <3>2. k \notin S
      BY <1>9, <3>1
    <3> QED BY <3>1, <3>2
  <2> QED BY <2>1, <2>2
<1>11. end \in (start + 1)..f.endLine /\ C(end)
  <2> HIDE DEF C
  <2> QED BY <1>10
<1>12. PICK fd : fd = found
  OBVIOUS
<1>13. fd \in BOOLEAN
  BY <1>12
<1> HIDE DEF end, S
<1>14. \A k : closesContainer(k, fenceLength(bl, start)) <=>
                /\ fenceLength(bl, k) >= n /\ bl.page[k].body = "empty"
                /\ sCount(bl, k) - bl.blkIndent < 4
  BY <1>5 DEF closesContainer
<1>15. end < f.endLine => end \in DOMAIN bl.page
  BY <1>2, <1>3, <1>11 DEF Ready, BlockStates
<1>16. \A k \in (start + 1)..(end - 1) :
       /\ k \in DOMAIN bl.page
       /\ ~Blank(bl.page, k) => bl.at[k].indent >= bl.blkIndent
       /\ Bare(bl.page, k) => bl.page[k].markers < n
  <2> SUFFICES ASSUME NEW k \in (start + 1)..(end - 1)
               PROVE  /\ k \in DOMAIN bl.page
                      /\ ~Blank(bl.page, k) => bl.at[k].indent >= bl.blkIndent
                      /\ Bare(bl.page, k) => bl.page[k].markers < n
    OBVIOUS
  <2>1. k \in DOMAIN bl.page
    BY <1>2, <1>3, <1>11 DEF Ready, BlockStates
  <2>2. ~stops(k)
    BY <1>11
  <2>3. ~Blank(bl.page, k) => bl.at[k].indent >= bl.blkIndent
    BY <1>3, <1>4, <1>6, <2>1, <2>2 DEF stops, sCount
  <2>4. ASSUME Bare(bl.page, k)
        PROVE  bl.page[k].markers < n
    <3>1. /\ bl.at[k] = Origin(bl.page, k) /\ bl.page[k].body = "empty" /\ bl.page[k].indent <= 3
          /\ bl.page[k].marks = <<>>
      BY <1>6, <2>1, <2>4 DEF Bare
    <3>2. fenceLength(bl, k) = bl.page[k].markers /\ sCount(bl, k) = bl.page[k].indent
      BY <2>1, <3>1 DEF fenceLength, sCount, Origin
    <3>3. sCount(bl, k) - bl.blkIndent < 4
      BY <1>3, <1>6, <2>1, <3>1, <3>2
    <3>4. ~ (fenceLength(bl, k) >= n)
      BY <1>14, <2>2, <3>1, <3>3 DEF stops
    <3> QED BY <1>2, <1>6, <2>1, <3>2, <3>4
  <2> QED BY <2>1, <2>3, <2>4
<1>17. ASSUME end # bl.lineMax
       PROVE  end \in DOMAIN bl.page /\ (bl.at[end].marks = <<>> \/ bl.at[end].indent < bl.blkIndent)
  <2>1. end \in DOMAIN bl.page
    BY <1>3, <1>11, <1>15, <1>17
  <2>2. stops(end)
    BY <1>3, <1>11, <1>17
  <2>3. CASE sCount(bl, end) < bl.blkIndent
    BY <2>1, <2>3 DEF sCount
  <2>4. CASE closesContainer(end, fenceLength(bl, start))
    <3>1. fenceLength(bl, end) >= n
      BY <1>14, <2>4
    <3>2. bl.at[end].marks = <<>>
      BY <1>21, <2>1, <3>1 DEF fenceLength
    <3> QED BY <2>1, <3>2
  <2> QED BY <2>2, <2>3, <2>4 DEF stops
<1>18. fd => end < bl.lineMax /\ end \in DOMAIN bl.page /\ bl.page[end].markers >= n
  <2>1. fd => end < f.endLine /\ closesContainer(end, fenceLength(bl, start))
    BY <1>12
  <2>2. fd => end \in DOMAIN bl.page /\ fenceLength(bl, end) >= n
    BY <1>14, <1>15, <2>1
  <2>3. ASSUME fd
        PROVE  bl.page[end].markers >= n
    <3>1. end \in DOMAIN bl.page /\ fenceLength(bl, end) >= n
      BY <2>2, <2>3
    <3> QED BY <1>21, <3>1 DEF fenceLength
  <2> QED BY <1>3, <2>1, <2>2, <2>3
<1>19. ContainerGoes(bl.page, bl.at, bl.blkIndent, bl.lineMax, start, end, fd)
  BY <1>3, <1>11, <1>13, <1>16, <1>17, <1>18 DEF ContainerGoes
<1> HIDE DEF found
<1>20. bl' = StateOf(bl.page, start + 1, end, bl.blkIndent, bl.ddIndent,
                            bl.at, bl.tight, bl.level + 1,
                            Append(bl.tokens, tokenOf("container_open", bl.level, start, end)),
                            Append(Append(F0, f), ContainerFrame(end, fd, bl.lineMax)))
  <2>1. bl = StateOf(bl.page, bl.line, bl.lineMax, bl.blkIndent, bl.ddIndent, bl.at, bl.tight,
                     bl.level, bl.tokens, Append(F0, f))
    BY StateIsOfFields DEF Ready
  <2> QED BY <1>8, <1>12, <2>1, ContainerOfFields DEF ContainerFrame
<1> QED BY <1>1, <1>5, <1>19, <1>20

(* What CloseContainer does to the state: frame g goes on. *)
LEMMA CloseContainerStep ==
  ASSUME NEW F1 \in Seq(Frames), NEW g \in Frames, NEW f, Ready(bl, Append(F1, g), f), CloseContainer
  PROVE  /\ ends /\ f \in ContainerFrames
         /\ LET nx == lineBehind(f)
            IN  /\ nx \in {f.endLine, f.endLine + 1} /\ (nx > f.endLine <=> f.auto_closed)
                /\ bl' = StateOf(bl.page, Behind(bl.page, g, nx), f.lineMax, bl.blkIndent,
                     bl.ddIndent, bl.at, ~g.hasEmpty, bl.level - 1,
                     Append(bl.tokens, tokenOf("container_close", bl.level - 1, f.endLine, nx)),
                     Append(F1, Marked(bl.page, g, nx)))
<1>1. /\ ends /\ frameOn.rule = "container"
      /\ bl' = after([closed(bl, "container_close", frameOn.endLine, lineBehind(frameOn)) EXCEPT
                        !.lineMax = frameOn.lineMax, !.line = lineBehind(frameOn), !.frames = Front(@)])
  BY DEF CloseContainer
<1>2. frameOn = f
  BY <1>1, EndsThere
<1>3. f \in ContainerFrames
  BY <1>1, <1>2 DEF Ready, Frames, PageFrames, ListFrames
<1>4. PICK nx : nx = lineBehind(f)
  OBVIOUS
<1>5. nx \in Nat /\ nx \in {f.endLine, f.endLine + 1} /\ (nx > f.endLine <=> f.auto_closed)
  BY <1>3, <1>4 DEF ContainerFrames, lineBehind
<1>6. Append(F1, g) \in Seq(Frames) /\ Front(Append(Append(F1, g), f)) = Append(F1, g)
  BY DEF Ready, Front
<1>7. bl = StateOf(bl.page, bl.line, bl.lineMax, bl.blkIndent, bl.ddIndent, bl.at, bl.tight,
                   bl.level, bl.tokens, Append(Append(F1, g), f))
  BY StateIsOfFields DEF Ready
<1>8. [closed(bl, "container_close", f.endLine, nx) EXCEPT
                        !.lineMax = f.lineMax, !.line = nx, !.frames = Front(@)]
        = StateOf(bl.page, nx, f.lineMax, bl.blkIndent, bl.ddIndent, bl.at, bl.tight, bl.level - 1,
                     Append(bl.tokens, tokenOf("container_close", bl.level - 1, f.endLine, nx)),
                     Append(F1, g))
  <2>1. PICK p, line, lm, blk, dd, at, tight, lev, T, F, x, lm2 :
          /\ p = bl.page /\ line = bl.line /\ lm = bl.lineMax /\ blk = bl.blkIndent
          /\ dd = bl.ddIndent /\ at = bl.at /\ tight = bl.tight /\ lev = bl.level
          /\ T = bl.tokens /\ F = Append(Append(F1, g), f) /\ x = f.endLine /\ lm2 = f.lineMax
    OBVIOUS
  <2>6. PICK c : c = closed(StateOf(p, line, lm, blk, dd, at, tight, lev, T, F), "container_close", x, nx)
    OBVIOUS
  <2>2. ContainerLeft(c, lm2, nx)
           = StateOf(p, nx, lm2, blk, dd, at, tight, lev - 1,
                     Append(T, tokenOf("container_close", lev - 1, x, nx)), Front(F))
    BY ONLY <2>6, ContainerClosedFields
  <2>3. bl = StateOf(p, line, lm, blk, dd, at, tight, lev, T, F)
    BY <1>7, <2>1
  <2>4. Front(F) = Append(F1, g)
    BY <1>6, <2>1
  <2>5. [closed(bl, "container_close", x, nx)
            EXCEPT !.lineMax = lm2, !.line = nx, !.frames = Front(@)]
           = StateOf(p, nx, lm2, blk, dd, at, tight, lev - 1,
                     Append(T, tokenOf("container_close", lev - 1, x, nx)), Append(F1, g))
    BY ONLY <2>2, <2>3, <2>4, <2>6 DEF ContainerLeft
  <2> QED BY <2>1, <2>5
<1>9. bl' = after(StateOf(bl.page, nx, f.lineMax, bl.blkIndent, bl.ddIndent, bl.at, bl.tight,
                     bl.level - 1,
                     Append(bl.tokens, tokenOf("container_close", bl.level - 1, f.endLine, nx)),
                     Append(F1, g)))
  BY <1>1, <1>2, <1>4, <1>8
<1>10. GoodPage(bl.page) /\ IsAt(bl.page, bl.at)
  BY DEF Ready
<1>11. bl' = StateOf(bl.page, Behind(bl.page, g, nx), f.lineMax, bl.blkIndent,
                     bl.ddIndent, bl.at, ~g.hasEmpty, bl.level - 1,
                     Append(bl.tokens, tokenOf("container_close", bl.level - 1, f.endLine, nx)),
                     Append(F1, Marked(bl.page, g, nx)))
  BY <1>5, <1>9, <1>10, AfterBlock
<1> QED BY <1>1, <1>3, <1>4, <1>5, <1>11

-----------------------------------------------------------------------------
(* The tokens of a term, and the line of its definition. *)
WithTerm(T, lev, l) ==
  Append(Append(Append(T, tokenOf("dt_open", lev, l, l + 1)),
                tokenOf("inline", lev + 1, l, l + 1)),
         tokenOf("dt_close", lev, l, l + 1))

(* The line behind that of the term, or the one behind an empty line. *)
DefLine(p, s) == IF Blank(p, s + 1) THEN s + 2 ELSE s + 1

(* The tokens of a term leave the other fields as they are. *)
LEMMA TermOfFields ==
  ASSUME NEW p, NEW line, NEW lm, NEW blk, NEW dd, NEW at, NEW tight, NEW lev \in Int, NEW T, NEW F,
         NEW l
  PROVE  termOf(StateOf(p, line, lm, blk, dd, at, tight, lev, T, F), l)
           = StateOf(p, line, lm, blk, dd, at, tight, lev, WithTerm(T, lev, l), F)
<1>1. PICK T1, T2, l1, y :
        /\ T1 = Append(T, tokenOf("dt_open", lev, l, y)) /\ l1 = lev + 1
        /\ T2 = Append(T1, tokenOf("inline", l1, l, y)) /\ y = l + 1
  OBVIOUS
<1>2. opened(StateOf(p, line, lm, blk, dd, at, tight, lev, T, F), "dt_open", l, y)
        = StateOf(p, line, lm, blk, dd, at, tight, l1, T1, F)
  BY <1>1, OpenedFields
<1>3. leaf(StateOf(p, line, lm, blk, dd, at, tight, l1, T1, F), "inline", l, y)
        = StateOf(p, line, lm, blk, dd, at, tight, l1, T2, F)
  BY <1>1, LeafFields
<1>4. closed(StateOf(p, line, lm, blk, dd, at, tight, l1, T2, F), "dt_close", l, y)
        = StateOf(p, line, lm, blk, dd, at, tight, l1 - 1,
                  Append(T2, tokenOf("dt_close", l1 - 1, l, y)), F)
  BY ClosedFields
<1>5. l1 - 1 = lev
  BY <1>1
<1> QED BY <1>1, <1>2, <1>3, <1>4, <1>5 DEF WithTerm, termOf

(* The frame of a list, and what a new item makes of it. *)
ListFrame(x, h, d, i, t, q, z) ==
  [rule |-> "deflist", endLine |-> x, hasEmpty |-> h, ddLine |-> d, listTok |-> i,
   tight |-> t, prevEmptyEnd |-> q, saved |-> z]

(* A frame in a new definition. *)
Renewed(f, l, no, sv) == [f EXCEPT !.ddLine = l, !.hasEmpty = no, !.saved = sv]

(* Only these fields of it change. *)
LEMMA ListFrameFields ==
  ASSUME NEW x, NEW h, NEW d, NEW i, NEW t, NEW q, NEW z, NEW l, NEW sv, NEW no
  PROVE  Renewed(ListFrame(x, h, d, i, t, q, z), l, no, sv) = ListFrame(x, no, l, i, t, q, sv)
<1>1. \A ha, di, za : [ListFrame(x, ha, di, i, t, q, za) EXCEPT !.ddLine = l] = ListFrame(x, ha, l, i, t, q, za)
  BY DEF ListFrame
<1>2. \A ha, di, za : [ListFrame(x, ha, di, i, t, q, za) EXCEPT !.hasEmpty = no] = ListFrame(x, no, di, i, t, q, za)
  BY DEF ListFrame
<1>3. \A ha, di, za : [ListFrame(x, ha, di, i, t, q, za) EXCEPT !.saved = sv] = ListFrame(x, ha, di, i, t, q, sv)
  BY DEF ListFrame
<1>4. PICK f : f = ListFrame(x, h, d, i, t, q, z)
  OBVIOUS
<1>5. [f EXCEPT !.ddLine = l, !.hasEmpty = no, !.saved = sv]
        = [[[f EXCEPT !.ddLine = l] EXCEPT !.hasEmpty = no] EXCEPT !.saved = sv]
  OBVIOUS
<1>6. PICK f1 : f1 = [f EXCEPT !.ddLine = l]
  OBVIOUS
<1>7. PICK f2 : f2 = [f1 EXCEPT !.hasEmpty = no]
  OBVIOUS
<1>8. f1 = ListFrame(x, h, l, i, t, q, z)
  BY ONLY <1>1, <1>4, <1>6
<1>9. f2 = ListFrame(x, no, l, i, t, q, z)
  BY ONLY <1>2, <1>7, <1>8
<1>10. [f2 EXCEPT !.saved = sv] = ListFrame(x, no, l, i, t, q, sv)
  BY ONLY <1>3, <1>9
<1> QED BY ONLY <1>4, <1>5, <1>6, <1>7, <1>10 DEF Renewed

(* The line of a definition, and what is on it. *)
DefinesAt(p, at, blk, l) == l \in DOMAIN p /\ at[l].marks # <<>> /\ at[l].indent >= blk

(* The state within the first definition of a list, whose term is on line s. *)
ListState(b, F0, f, s, l) ==
  StateOf(b.page, l, b.lineMax, b.at[l].indent + 2, b.at[l].indent + 2, EnteredAt(b.at, l), TRUE, b.level + 2,
          Append(WithTerm(Append(b.tokens, tokenOf("dl_open", b.level, s, s)), b.level + 1, s),
                 tokenOf("dd_open", b.level + 1, l, l)),
          Append(Append(F0, f),
                 ListFrame(b.lineMax, FALSE, l, Len(b.tokens) + 1, TRUE, FALSE,
                           SavedOf(b.blkIndent, b.ddIndent, b.at, b.tight, l))))

(* What Deflist does to the state. *)
LEMMA DeflistStep ==
  ASSUME NEW F0, NEW f, Ready(bl, F0, f), Deflist
  PROVE  /\ reads
         /\ \E l : /\ l = DefLine(bl.page, start)
                   /\ DefinesAt(bl.page, bl.at, bl.blkIndent, l) /\ l <= bl.lineMax
                   /\ bl' = ListState(bl, F0, f, start, l)
<1>1. reads /\ startsList(start)
  BY DEF Deflist
<1>2. frameOn = f
  BY <1>1, ReadsThere
<1>3. start \in Nat /\ bl.lineMax \in Nat /\ bl.level \in Nat /\ f.endLine = bl.lineMax
      /\ bl.blkIndent \in Nat
  BY <1>1, ReadsThere DEF IsStart, Ready, BlockStates
<1>4. \A k : isEmpty(bl, k) <=> Blank(bl.page, k)
  BY EmptyIsBlank DEF Ready
<1>5. PICK l : l = DefLine(bl.page, start)
  OBVIOUS
<1>6. PICK f2 : f2 = [rule |-> "deflist", endLine |-> frameOn.endLine, hasEmpty |-> FALSE,
               ddLine |-> l, listTok |-> Len(bl.tokens) + 1, tight |-> TRUE,
               prevEmptyEnd |-> FALSE, saved |-> <<>>]
  OBVIOUS
<1>7. (IF isEmpty(bl, start + 1) THEN start + 2 ELSE start + 1) = l
  BY <1>4, <1>5 DEF DefLine
<1>8. bl' = itemOf(termOf(opened(bl, "dl_open", start, start), start), f2, l)
  BY <1>6, <1>7 DEF Deflist
<1>9. l <= f.endLine /\ sCount(bl, l) >= bl.blkIndent /\ hasMark(bl, l)
  BY <1>1, <1>2, <1>7 DEF startsList
<1>10. DefinesAt(bl.page, bl.at, bl.blkIndent, l) /\ l <= bl.lineMax
  BY <1>3, <1>9 DEF DefinesAt, hasMark, sCount
<1>11. bl = StateOf(bl.page, bl.line, bl.lineMax, bl.blkIndent, bl.ddIndent, bl.at, bl.tight,
                   bl.level, bl.tokens, Append(F0, f))
  BY StateIsOfFields DEF Ready
<1>12. PICK p, line, lm, blk, dd, at, tight, lev, T, F, s :
          /\ p = bl.page /\ line = bl.line /\ lm = bl.lineMax /\ blk = bl.blkIndent
          /\ dd = bl.ddIndent /\ at = bl.at /\ tight = bl.tight /\ lev = bl.level
          /\ T = bl.tokens /\ F = Append(F0, f) /\ s = start
  OBVIOUS
<1>13. bl = StateOf(p, line, lm, blk, dd, at, tight, lev, T, F)
  BY <1>11, <1>12
<1>14. PICK T1, l1 : T1 = Append(T, tokenOf("dl_open", lev, s, s)) /\ l1 = lev + 1
  OBVIOUS
<1>15. opened(bl, "dl_open", s, s) = StateOf(p, line, lm, blk, dd, at, tight, l1, T1, F)
  BY ONLY <1>13, <1>14, OpenedFields
<1>16. l1 \in Int /\ l1 + 1 = lev + 2
  BY <1>3, <1>12, <1>14
<1>17. PICK T2 : T2 = WithTerm(T1, l1, s)
  OBVIOUS
<1>18. termOf(StateOf(p, line, lm, blk, dd, at, tight, l1, T1, F), s)
         = StateOf(p, line, lm, blk, dd, at, tight, l1, T2, F)
  BY ONLY <1>16, <1>17, TermOfFields
<1>19. itemOf(StateOf(p, line, lm, blk, dd, at, tight, l1, T2, F), f2, l)
         = EnteredState(p, lm, blk, dd, at, tight, l1, T2, F, f2, l)
  BY ONLY ItemOfFields
<1>20. ItemFrame(f2, blk, dd, at, tight, l)
         = ListFrame(lm, FALSE, l, Len(T) + 1, TRUE, FALSE, SavedOf(blk, dd, at, tight, l))
  <2>1. PICK x, h, i, t, q, z, sv :
          /\ x = lm /\ h = FALSE /\ i = Len(T) + 1 /\ t = TRUE /\ q = FALSE /\ z = <<>>
          /\ sv = SavedOf(blk, dd, at, tight, l)
    OBVIOUS
  <2>2. f2 = ListFrame(x, h, l, i, t, q, z)
    BY <1>2, <1>3, <1>6, <1>12, <2>1 DEF ListFrame
  <2>3. Renewed(f2, l, h, sv) = ListFrame(x, h, l, i, t, q, sv)
    BY ONLY <2>2, ListFrameFields
  <2> QED BY <2>1, <2>3 DEF ItemFrame, Renewed
<1>21. bl' = StateOf(p, l, lm, at[l].indent + 2, at[l].indent + 2, EnteredAt(at, l), TRUE, lev + 2,
                     Append(T2, tokenOf("dd_open", l1, l, l)),
                     Append(F, ListFrame(lm, FALSE, l, Len(T) + 1, TRUE, FALSE, SavedOf(blk, dd, at, tight, l))))
  BY ONLY <1>8, <1>12, <1>15, <1>16, <1>18, <1>19, <1>20 DEF EnteredState
<1>22. bl' = ListState(bl, F0, f, start, l)
  BY ONLY <1>12, <1>14, <1>17, <1>21 DEF ListState
<1> QED BY <1>1, <1>5, <1>10, <1>22

(* The mark is put back on the line of the definition. *)
Restored(at, f) == [at EXCEPT ![f.ddLine] = f.saved.at]

(* There is an empty line at the end of the definition. *)
EndsEmpty(p, f, s) == s - f.ddLine > 1 /\ Blank(p, s - 1)

(* What the definition on top leaves behind. *)
LEMMA DefinitionLeft ==
  ASSUME NEW F0, NEW f, Ready(bl, F0, f), itemEnds
  PROVE  /\ ends /\ frameOn = f /\ f \in ListFrames
         /\ itemClosed(frameOn)
              = StateOf(bl.page, start, bl.lineMax, f.saved.blkIndent, f.saved.ddIndent,
                        Restored(bl.at, f), f.saved.tight, bl.level - 1,
                        Append(bl.tokens, tokenOf("dd_close", bl.level - 1, start, start)), F0)
         /\ judged(frameOn)
              = ListFrame(bl.lineMax, f.hasEmpty, f.ddLine, f.listTok,
                          f.tight /\ bl.tight /\ ~f.prevEmptyEnd, EndsEmpty(bl.page, f, start), f.saved)
<1>1. ends /\ frameOn.rule = "deflist"
  BY DEF itemEnds
<1>2. frameOn = f
  BY <1>1, EndsThere
<1>3. f \in ListFrames /\ f.endLine = bl.lineMax
  BY <1>1, <1>2 DEF Ready, Frames, PageFrames, ContainerFrames
<1>4. bl = StateOf(bl.page, bl.line, bl.lineMax, bl.blkIndent, bl.ddIndent, bl.at, bl.tight,
                   bl.level, bl.tokens, Append(F0, f))
  BY StateIsOfFields DEF Ready
<1>5. Front(Append(F0, f)) = F0
  BY DEF Ready, Front
<1>6. itemClosed(f) = StateOf(bl.page, start, bl.lineMax, f.saved.blkIndent, f.saved.ddIndent,
                        Restored(bl.at, f), f.saved.tight, bl.level - 1,
                        Append(bl.tokens, tokenOf("dd_close", bl.level - 1, start, start)), F0)
  <2>1. itemClosed(f) = LeftState(bl.page, bl.lineMax, bl.at, bl.level, bl.tokens, Append(F0, f), f, start)
    BY ONLY <1>4, ItemClosedFields
  <2> QED BY ONLY <1>5, <2>1 DEF LeftState, Restored
<1>7. f = ListFrame(bl.lineMax, f.hasEmpty, f.ddLine, f.listTok, f.tight, f.prevEmptyEnd, f.saved)
  BY <1>3 DEF ListFrames, ListFrame
<1>8. \A k : isEmpty(bl, k) <=> Blank(bl.page, k)
  BY EmptyIsBlank DEF Ready
<1>9. PICK t, e : /\ t = (f.tight /\ bl.tight /\ ~f.prevEmptyEnd)
                  /\ e = EndsEmpty(bl.page, f, start)
  OBVIOUS
<1>10. judged(f) = [f EXCEPT !.tight = t, !.prevEmptyEnd = e]
  <2>1. e = (start - f.ddLine > 1 /\ isEmpty(bl, start - 1))
    BY <1>8, <1>9 DEF EndsEmpty
  <2> QED BY <1>9, <2>1 DEF judged
<1>11. PICK x, h, d, i, z, t0, e0 : /\ x = bl.lineMax /\ h = f.hasEmpty /\ d = f.ddLine
          /\ i = f.listTok /\ z = f.saved /\ t0 = f.tight /\ e0 = f.prevEmptyEnd
  OBVIOUS
<1>12. f = ListFrame(x, h, d, i, t0, e0, z)
  BY <1>7, <1>11
<1>13. PICK f1 : f1 = [f EXCEPT !.tight = t]
  OBVIOUS
<1>14. f1 = ListFrame(x, h, d, i, t, e0, z)
  BY ONLY <1>12, <1>13 DEF ListFrame
<1>15. [f1 EXCEPT !.prevEmptyEnd = e] = ListFrame(x, h, d, i, t, e, z)
  BY ONLY <1>14 DEF ListFrame
<1>16. [f EXCEPT !.tight = t, !.prevEmptyEnd = e] = [[f EXCEPT !.tight = t] EXCEPT !.prevEmptyEnd = e]
  OBVIOUS
<1>17. judged(f) = ListFrame(x, h, d, i, t, e, z)
  BY ONLY <1>10, <1>13, <1>15, <1>16
<1> QED BY <1>1, <1>2, <1>3, <1>6, <1>9, <1>11, <1>17

(* The state within the next definition of a list, on line l. *)
NextItemState(b, F0, f, s, l, T1, prev) ==
  LET at2 == Restored(b.at, f)
  IN  StateOf(b.page, l, b.lineMax, at2[l].indent + 2, at2[l].indent + 2, EnteredAt(at2, l), TRUE,
              b.level,
              Append(T1, tokenOf("dd_open", b.level - 1, l, l)),
              Append(F0, ListFrame(b.lineMax, FALSE, l, f.listTok,
                                   f.tight /\ b.tight /\ ~f.prevEmptyEnd, prev,
                                   SavedOf(f.saved.blkIndent, f.saved.ddIndent, at2, f.saved.tight, l))))

(* The state within a new definition of the list of token i. *)
NewItem(p, lm, blk, dd, at, tight, lev, T, F, i, t, e, l) ==
  StateOf(p, l, lm, at[l].indent + 2, at[l].indent + 2, EnteredAt(at, l), TRUE, lev,
          Append(T, tokenOf("dd_open", lev - 1, l, l)),
          Append(F, ListFrame(lm, FALSE, l, i, t, e, SavedOf(blk, dd, at, tight, l))))

(* An item of a list that has been read before. *)
LEMMA NextItem ==
  ASSUME NEW p, NEW s, NEW lm, NEW blk, NEW dd, NEW at, NEW tight, NEW lev \in Int, NEW T, NEW F,
         NEW h, NEW d, NEW i, NEW t, NEW e, NEW z, NEW l
  PROVE  itemOf(StateOf(p, s, lm, blk, dd, at, tight, lev - 1, T, F),
                ListFrame(lm, h, d, i, t, e, z), l)
           = NewItem(p, lm, blk, dd, at, tight, lev, T, F, i, t, e, l)
<1>1. PICK f, l1, no, sv : /\ f = ListFrame(lm, h, d, i, t, e, z) /\ l1 = lev - 1
                           /\ sv = SavedOf(blk, dd, at, tight, l) /\ no = FALSE
  OBVIOUS
<1>2. l1 + 1 = lev
  BY <1>1
<1>3. itemOf(StateOf(p, s, lm, blk, dd, at, tight, l1, T, F), f, l)
        = EnteredState(p, lm, blk, dd, at, tight, l1, T, F, f, l)
  BY ONLY ItemOfFields
<1>4. Renewed(f, l, no, sv) = ListFrame(lm, no, l, i, t, e, sv)
  <2>1. f = ListFrame(lm, h, d, i, t, e, z)
    BY <1>1
  <2> QED BY ONLY <2>1, ListFrameFields
<1>5. ItemFrame(f, blk, dd, at, tight, l) = ListFrame(lm, no, l, i, t, e, sv)
  BY <1>1, <1>4 DEF ItemFrame, Renewed
<1> QED BY ONLY <1>1, <1>2, <1>3, <1>5 DEF EnteredState, NewItem

(* What NextDefinition does to the state. *)
LEMMA NextDefinitionStep ==
  ASSUME NEW F0, NEW f, Ready(bl, F0, f), NextDefinition
  PROVE  /\ ends /\ f \in ListFrames
         /\ start < bl.lineMax /\ DefinesAt(bl.page, bl.at, f.saved.blkIndent, start)
         /\ bl' = NextItemState(bl, F0, f, start, start,
                     Append(bl.tokens, tokenOf("dd_close", bl.level - 1, start, start)),
                     EndsEmpty(bl.page, f, start))
<1>1. itemEnds /\ goesOn /\ hasMark(bl, start)
      /\ bl' = itemOf(itemClosed(frameOn), judged(frameOn), start)
  BY DEF NextDefinition
<1>2. ends /\ frameOn = f /\ f \in ListFrames
  BY <1>1, DefinitionLeft
<1>3. start < bl.lineMax /\ DefinesAt(bl.page, bl.at, f.saved.blkIndent, start)
  <2>1. f.endLine = bl.lineMax
    BY DEF Ready
  <2> QED BY <1>1, <1>2, <2>1 DEF goesOn, hasMark, sCount, DefinesAt
<1>4. bl.level \in Int
  BY DEF Ready, BlockStates
<1>5. PICK c, j : c = itemClosed(frameOn) /\ j = judged(frameOn)
  OBVIOUS
<1>6. PICK p, s, lm, blk, dd, at, tight, lev, T, h, d, i, t, e, z :
        /\ p = bl.page /\ s = start /\ lm = bl.lineMax /\ blk = f.saved.blkIndent
        /\ dd = f.saved.ddIndent /\ at = Restored(bl.at, f) /\ tight = f.saved.tight
        /\ lev = bl.level /\ T = Append(bl.tokens, tokenOf("dd_close", bl.level - 1, start, start))
        /\ h = f.hasEmpty /\ d = f.ddLine /\ i = f.listTok
        /\ t = (f.tight /\ bl.tight /\ ~f.prevEmptyEnd) /\ e = EndsEmpty(bl.page, f, start)
        /\ z = f.saved
  OBVIOUS
<1>7. c = StateOf(p, s, lm, blk, dd, at, tight, lev - 1, T, F0)
  BY <1>1, <1>5, <1>6, DefinitionLeft
<1>8. j = ListFrame(lm, h, d, i, t, e, z)
  BY <1>1, <1>5, <1>6, DefinitionLeft
<1>9. itemOf(c, j, s)
        = NewItem(p, lm, blk, dd, at, tight, lev, T, F0, i, t, e, s)
  <2>1. lev \in Int
    BY <1>4, <1>6
  <2> QED BY ONLY <1>7, <1>8, <2>1, NextItem
<1>10. bl' = itemOf(c, j, s)
  BY <1>1, <1>5, <1>6
<1> QED BY <1>2, <1>3, <1>6, <1>9, <1>10 DEF NextItemState, NewItem

(* What NextTerm does to the state. *)
LEMMA NextTermStep ==
  ASSUME NEW F0, NEW f, Ready(bl, F0, f), NextTerm
  PROVE  /\ ends /\ f \in ListFrames
         /\ start < bl.lineMax
         /\ LET l == DefLine(bl.page, start)
            IN  /\ l < bl.lineMax /\ DefinesAt(bl.page, bl.at, f.saved.blkIndent, l)
                /\ bl' = NextItemState(bl, F0, f, start, l,
                     WithTerm(Append(bl.tokens, tokenOf("dd_close", bl.level - 1, start, start)),
                              bl.level - 1, start),
                     FALSE)
<1>1. /\ itemEnds /\ goesOn /\ definitionLine < frameOn.endLine /\ hasMark(bl, definitionLine)
      /\ sCount(bl, definitionLine) >= frameOn.saved.blkIndent
      /\ bl' = itemOf(termOf(itemClosed(frameOn), start),
                      [judged(frameOn) EXCEPT !.prevEmptyEnd = FALSE], definitionLine)
  BY DEF NextTerm, isTerm
<1>2. ends /\ frameOn = f /\ f \in ListFrames
  BY <1>1, DefinitionLeft
<1>3. \A k : isEmpty(bl, k) <=> Blank(bl.page, k)
  BY EmptyIsBlank DEF Ready
<1>4. bl.level \in Int /\ f.endLine = bl.lineMax
  BY DEF Ready, BlockStates
<1>5. PICK c, j, l : c = itemClosed(frameOn) /\ j = judged(frameOn) /\ l = DefLine(bl.page, start)
  OBVIOUS
<1>6. definitionLine = l
  BY <1>3, <1>5 DEF definitionLine, DefLine
<1>7. start < bl.lineMax /\ l < bl.lineMax /\ DefinesAt(bl.page, bl.at, f.saved.blkIndent, l)
  BY <1>1, <1>2, <1>4, <1>6 DEF goesOn, hasMark, sCount, DefinesAt
<1>8. PICK p, s, lm, blk, dd, at, tight, lev, l1, T, h, d, i, t, e, z, no :
        /\ p = bl.page /\ s = start /\ lm = bl.lineMax /\ blk = f.saved.blkIndent
        /\ dd = f.saved.ddIndent /\ at = Restored(bl.at, f) /\ tight = f.saved.tight
        /\ lev = bl.level /\ T = Append(bl.tokens, tokenOf("dd_close", bl.level - 1, start, start))
        /\ h = f.hasEmpty /\ d = f.ddLine /\ i = f.listTok
        /\ t = (f.tight /\ bl.tight /\ ~f.prevEmptyEnd) /\ e = EndsEmpty(bl.page, f, start)
        /\ z = f.saved /\ l1 = lev - 1 /\ no = FALSE
  OBVIOUS
<1>9. c = StateOf(p, s, lm, blk, dd, at, tight, l1, T, F0)
  BY <1>1, <1>5, <1>8, DefinitionLeft
<1>10. j = ListFrame(lm, h, d, i, t, e, z)
  BY <1>1, <1>5, <1>8, DefinitionLeft
<1>11. PICK T2 : T2 = WithTerm(T, l1, s)
  OBVIOUS
<1>12. termOf(c, s) = StateOf(p, s, lm, blk, dd, at, tight, l1, T2, F0)
  <2>1. l1 \in Int
    BY <1>4, <1>8
  <2> QED BY ONLY <1>9, <1>11, <2>1, TermOfFields
<1>13. [j EXCEPT !.prevEmptyEnd = no] = ListFrame(lm, h, d, i, t, no, z)
  BY ONLY <1>10 DEF ListFrame
<1>14. PICK c2, j2 : c2 = termOf(c, s) /\ j2 = [j EXCEPT !.prevEmptyEnd = no]
  OBVIOUS
<1>15. itemOf(c2, j2, l) = NewItem(p, lm, blk, dd, at, tight, lev, T2, F0, i, t, no, l)
  <2>1. lev \in Int
    BY <1>4, <1>8
  <2>2. c2 = StateOf(p, s, lm, blk, dd, at, tight, lev - 1, T2, F0)
    BY <1>8, <1>12, <1>14
  <2>3. j2 = ListFrame(lm, h, d, i, t, no, z)
    BY ONLY <1>13, <1>14
  <2> QED BY ONLY <2>1, <2>2, <2>3, NextItem
<1>16. bl' = itemOf(c2, j2, l)
  BY <1>1, <1>5, <1>6, <1>8, <1>14
<1> QED BY <1>2, <1>5, <1>7, <1>8, <1>11, <1>15, <1>16 DEF NextItemState, NewItem

(* What EndList does to the state: frame g goes on, and the list is hidden if tight. *)
LEMMA EndListStep ==
  ASSUME NEW F1 \in Seq(Frames), NEW g \in Frames, NEW f, Ready(bl, Append(F1, g), f),
         GoodPage(bl.page), IsAt(bl.page, Restored(bl.at, f)), EndList
  PROVE  /\ ends /\ f \in ListFrames
         /\ LET T2 == Append(Append(bl.tokens, tokenOf("dd_close", bl.level - 1, start, start)),
                             tokenOf("dl_close", bl.level - 2, start, start))
                T3 == IF f.tight /\ bl.tight /\ ~f.prevEmptyEnd
                      THEN Tightened(T2, bl.level - 2, f.listTok) ELSE T2
            IN  bl' = StateOf(bl.page, Behind(bl.page, g, start), bl.lineMax, f.saved.blkIndent,
                     f.saved.ddIndent, Restored(bl.at, f), ~g.hasEmpty, bl.level - 2, T3,
                     Append(F1, Marked(bl.page, g, start)))
<1>1. /\ itemEnds
      /\ bl' = after(IF judged(frameOn).tight
                     THEN markTightParagraphs(closed(itemClosed(frameOn), "dl_close", start, start),
                                              judged(frameOn).listTok)
                     ELSE closed(itemClosed(frameOn), "dl_close", start, start))
  BY DEF EndList
<1>2. ends /\ frameOn = f /\ f \in ListFrames
  BY <1>1, DefinitionLeft
<1>3. bl.level \in Int /\ start \in Nat
  <2>1. start \in bl.line..bl.lineMax
    BY StartFound DEF IsStart
  <2> QED BY <2>1 DEF Ready, BlockStates
<1>4. PICK c, j : c = itemClosed(frameOn) /\ j = judged(frameOn)
  OBVIOUS
<1>5. PICK p, s, lm, blk, dd, at, tight, lev, l1, l2, T, F0, h, d, i, t, e, z :
        /\ p = bl.page /\ s = start /\ lm = bl.lineMax /\ blk = f.saved.blkIndent
        /\ dd = f.saved.ddIndent /\ at = Restored(bl.at, f) /\ tight = f.saved.tight
        /\ lev = bl.level /\ T = Append(bl.tokens, tokenOf("dd_close", bl.level - 1, start, start))
        /\ h = f.hasEmpty /\ d = f.ddLine /\ i = f.listTok
        /\ t = (f.tight /\ bl.tight /\ ~f.prevEmptyEnd) /\ e = EndsEmpty(bl.page, f, start)
        /\ z = f.saved /\ l1 = lev - 1 /\ l2 = l1 - 1 /\ F0 = Append(F1, g)
  OBVIOUS
<1>6. c = StateOf(p, s, lm, blk, dd, at, tight, l1, T, F0)
  BY <1>1, <1>4, <1>5, DefinitionLeft
<1>7. j = ListFrame(lm, h, d, i, t, e, z)
  BY <1>1, <1>4, <1>5, DefinitionLeft
<1>8. j.tight = t /\ j.listTok = i
  BY <1>7 DEF ListFrame
<1>9. PICK T2, T3 : /\ T2 = Append(T, tokenOf("dl_close", l2, s, s))
                    /\ T3 = IF t THEN Tightened(T2, l2, i) ELSE T2
  OBVIOUS
<1>10. closed(c, "dl_close", s, s) = StateOf(p, s, lm, blk, dd, at, tight, l2, T2, F0)
  BY ONLY <1>5, <1>6, <1>9, ClosedFields
<1>11. markTightParagraphs(StateOf(p, s, lm, blk, dd, at, tight, l2, T2, F0), i)
         = StateOf(p, s, lm, blk, dd, at, tight, l2, Tightened(T2, l2, i), F0)
  BY ONLY TightenedFields
<1>12. (IF t THEN markTightParagraphs(StateOf(p, s, lm, blk, dd, at, tight, l2, T2, F0), i)
        ELSE StateOf(p, s, lm, blk, dd, at, tight, l2, T2, F0))
         = StateOf(p, s, lm, blk, dd, at, tight, l2, T3, F0)
  BY ONLY <1>9, <1>11
<1>13. bl' = after(StateOf(p, s, lm, blk, dd, at, tight, l2, T3, F0))
  <2>1. bl' = after(IF t THEN markTightParagraphs(closed(c, "dl_close", s, s), i)
                    ELSE closed(c, "dl_close", s, s))
    <3>1. s = start
      BY <1>5
    <3> QED BY ONLY <1>1, <1>4, <1>8, <3>1
  <2> QED BY ONLY <1>10, <1>12, <2>1
<1>14. after(StateOf(p, s, lm, blk, dd, at, tight, l2, T3, Append(F1, g)))
         = StateOf(p, Behind(p, g, s), lm, blk, dd, at, ~g.hasEmpty, l2, T3,
                   Append(F1, Marked(p, g, s)))
  <2>1. GoodPage(p) /\ IsAt(p, at) /\ s \in Nat
    BY <1>3, <1>5
  <2> QED BY <2>1, AfterBlock
<1>15. l2 = lev - 2
  BY <1>3, <1>5
<1>16. bl' = StateOf(p, Behind(p, g, s), lm, blk, dd, at, ~g.hasEmpty, l2, T3,
                   Append(F1, Marked(p, g, s)))
  BY <1>5, <1>13, <1>14
<1> QED BY <1>2, <1>5, <1>9, <1>15, <1>16

(* What EndPage does to the state. *)
LEMMA EndPageStep ==
  ASSUME NEW F0, NEW f, Ready(bl, F0, f), EndPage
  PROVE  /\ ends /\ f \in PageFrames
         /\ bl' = StateOf(bl.page, start, bl.lineMax, bl.blkIndent, bl.ddIndent, bl.at, bl.tight,
                          bl.level, bl.tokens, <<>>)
<1>1. ends /\ frameOn.rule = "page" /\ bl' = [bl EXCEPT !.line = start, !.frames = <<>>]
  BY DEF EndPage
<1>2. frameOn = f
  BY <1>1, EndsThere
<1>3. f \in PageFrames
  BY <1>1, <1>2 DEF Ready, Frames, ContainerFrames, ListFrames
<1>4. PICK p, line, lm, blk, dd, at, tight, lev, T, F, s, none :
        /\ p = bl.page /\ line = bl.line /\ lm = bl.lineMax /\ blk = bl.blkIndent
        /\ dd = bl.ddIndent /\ at = bl.at /\ tight = bl.tight /\ lev = bl.level
        /\ T = bl.tokens /\ F = bl.frames /\ s = start /\ none = <<>>
  OBVIOUS
<1>5. bl = StateOf(p, line, lm, blk, dd, at, tight, lev, T, F)
  BY <1>4, StateIsOfFields DEF Ready
<1>6. PICK b, b1 : b = bl /\ b1 = [bl EXCEPT !.line = s]
  OBVIOUS
<1>7. b1 = StateOf(p, s, lm, blk, dd, at, tight, lev, T, F)
  BY ONLY <1>5, <1>6, Field_line
<1>8. [b1 EXCEPT !.frames = none] = StateOf(p, s, lm, blk, dd, at, tight, lev, T, none)
  BY ONLY <1>7, Field_frames
<1>9. bl' = [b EXCEPT !.line = s, !.frames = none]
  BY <1>1, <1>4, <1>6
<1>10. [b EXCEPT !.line = s, !.frames = none] = [[b EXCEPT !.line = s] EXCEPT !.frames = none]
  OBVIOUS
<1> QED BY <1>1, <1>3, <1>4, <1>6, <1>8, <1>9, <1>10

-----------------------------------------------------------------------------
(* The block on level k that is being read is that of token g. *)
IsOpen(T, k, g) ==
  /\ g \in DOMAIN T /\ T[g].level = k - 1 /\ T[g].type \in Openers
  /\ \A j \in DOMAIN T : j > g => T[j].level >= k

(* Token t begins a block. *)
Begins(t) == isLeaf(t) \/ t.type \in Openers

(* There is an empty line before token t. *)
Apart(p, t) == Blank(p, t.from - 1)

(* Token k begins a block on level lev that an empty line parts from the one before it. *)
Parted(p, T, k, lev) ==
  T[k].level = lev /\ Begins(T[k]) /\ Apart(p, T[k]) /\ T[k - 1].type \notin {"dd_open", "dt_open"}

(* Token k begins a definition that an empty line parts from the one before it. *)
Split(p, T, k, lev) ==
  T[k].level = lev /\ T[k].type = "dd_open" /\ Apart(p, T[k]) /\ T[k - 1].type = "dd_close"

(* An empty line parts blocks, or definitions, of the list of token i up to token hi. *)
Loose(p, T, i, hi) ==
  \E k \in i..hi : Parted(p, T, k, T[i].level + 2) \/ Split(p, T, k, T[i].level + 1)

(* Token j closes token i. *)
Matched(p, T, i, j) ==
  /\ i \in DOMAIN T /\ j \in DOMAIN T /\ i < j /\ T[j].level = T[i].level
  /\ \A k \in (i + 1)..(j - 1) : T[k].level > T[i].level
  /\ T[j].type \in DOMAIN Ending /\ Ending[T[j].type] = T[i].type
  /\ T[i].type = "container_open" =>
       /\ \A k \in (i + 1)..(j - 1) : isLeaf(T[k]) => T[k].from > T[i].from /\ T[k].to <= T[j].from
       /\ T[j].to > T[j].from => p[T[j].from].markers >= p[T[i].from].markers

(* The paragraphs of the list from token i to j are shown if it is loose, and only then. *)
HiddenRight(p, T, i, j) ==
  T[i].type = "dl_open" =>
    \A k \in i..j : T[k].level = T[i].level + 2 /\ T[k].type = "paragraph_open" =>
      (T[k].hidden <=> ~Loose(p, T, i, j))

(* No line within a container that might end it has as many markers. *)
FenceAlone(p, t) ==
  t.type = "container_open" =>
    \A l \in (t.from + 1)..(t.to - 1) : Bare(p, l) => p[l].markers < p[t.from].markers

(* Of the blocks opened, lev are open, one on each level, and the others have been closed. *)
NestInv(p, T, lev) ==
  /\ \A k \in 1..lev : \E g : IsOpen(T, k, g)
  /\ \A i \in DOMAIN T : T[i].type \in Openers =>
       (\E k \in 1..lev : IsOpen(T, k, i)) \/ (\E j : Matched(p, T, i, j) /\ HiddenRight(p, T, i, j))
  /\ \A i \in DOMAIN T : FenceAlone(p, T[i])

-----------------------------------------------------------------------------
(* What the state is while a frame is on top, and the token of its block. *)
Ghosts == [lineMax : Nat, blk : Nat, dd : Nat \cup {-1}, level : Nat, tok : Nat]

(* On top of the page's frame nothing is changed. *)
Base(p) == [lineMax |-> Len(p) + 1, blk |-> 0, dd |-> -1, level |-> 0, tok |-> 0]

(* What is known of a container that is being read, eo being of the frame below. *)
ContainerOK(p, line, T, f, eo, e) ==
  /\ f \in ContainerFrames
  /\ f.lineMax = eo.lineMax /\ f.endLine = e.lineMax /\ e.lineMax <= eo.lineMax
  /\ f.auto_closed => e.lineMax < eo.lineMax
  /\ e.blk = eo.blk /\ e.dd = eo.dd /\ e.level = eo.level + 1
  /\ \A k \in line..(e.lineMax - 1) : k \in DOMAIN p /\ ~Blank(p, k) => p[k].indent >= e.blk
  /\ IsOpen(T, e.level, e.tok) /\ T[e.tok].type = "container_open" /\ T[e.tok].from < line
  /\ \A k \in DOMAIN T : k > e.tok /\ isLeaf(T[k]) => T[k].from > T[e.tok].from /\ T[k].to <= e.lineMax
  /\ f.auto_closed => p[e.lineMax].markers >= p[T[e.tok].from].markers

(* What is known of a list that is being read, eo being of the frame below. *)
ListOK(p, line, T, f, eo, e) ==
  /\ f \in ListFrames
  /\ f.endLine = e.lineMax /\ e.lineMax = eo.lineMax
  /\ f.saved.blkIndent = eo.blk /\ f.saved.ddIndent = eo.dd /\ f.saved.at = Origin(p, f.ddLine)
  /\ f.ddLine \in DOMAIN p /\ p[f.ddLine].marks # <<>> /\ ~Blank(p, f.ddLine)
  /\ e.blk = p[f.ddLine].indent + 2 /\ e.dd = e.blk /\ e.blk >= eo.blk /\ e.level = eo.level + 2
  /\ f.ddLine <= line /\ f.ddLine < e.lineMax
  /\ IsOpen(T, e.level, e.tok) /\ T[e.tok].type = "dd_open"
  /\ IsOpen(T, e.level - 1, f.listTok) /\ T[f.listTok].type = "dl_open"
  /\ f.listTok < e.tok /\ T[f.listTok + 1].type = "dt_open"
  /\ \A k \in DOMAIN T : k > f.listTok =>
       /\ T[k].type = "dl_open" => T[k].level >= e.level
       /\ T[k].type = "paragraph_open" /\ T[k].level = e.level => ~T[k].hidden
  /\ f.tight <=> ~Loose(p, T, f.listTok, e.tok - 1)
  /\ f.prevEmptyEnd <=> Split(p, T, e.tok, e.level - 1)

(* What is known of a frame that is not the page's. *)
FrameOK(p, line, T, f, eo, e) ==
  ContainerOK(p, line, T, f, eo, e) \/ ListOK(p, line, T, f, eo, e)

(* A frame reads no further than those below, and further in. *)
Narrower(eo, e) == e.lineMax <= eo.lineMax /\ eo.level < e.level /\ eo.blk <= e.blk

(* No definition of the list goes on at the line where its reading ends. *)
EndsList(p, e) ==
  e.lineMax \in DOMAIN p => p[e.lineMax].marks = <<>> \/ p[e.lineMax].indent < e.blk

(* A list begins behind the definitions that it is in. *)
InOrder(F) ==
  \A i, j \in DOMAIN F : i < j /\ F[i] \in ListFrames /\ F[j] \in ListFrames => F[i].ddLine < F[j].ddLine

(* What is known of all frames; E has what the state is while they are on top. *)
Stack(p, line, T, F, E) ==
  /\ F \in Seq(Frames) /\ E \in Seq(Ghosts) /\ Len(E) = Len(F)
  /\ F # <<>> => F[1] \in PageFrames /\ F[1].endLine = Len(p) + 1 /\ E[1] = Base(p)
  /\ \A i \in 2..Len(F) : FrameOK(p, line, T, F[i], E[i - 1], E[i])
  /\ \A i, j \in DOMAIN E : i < j => Narrower(E[i], E[j])
  /\ \A i \in DOMAIN E : EndsList(p, E[i])
  /\ InOrder(F)

(* The definition on line l is being read. *)
Enters(F, l) == \E i \in DOMAIN F : F[i] \in ListFrames /\ F[i].ddLine = l

(* The marks are off the lines of the definitions that are being read, and off no others. *)
AtInv(p, at, F) ==
  /\ at \in Seq(Ats) /\ DOMAIN at = DOMAIN p
  /\ \A l \in DOMAIN p :
       /\ Enters(F, l) => p[l].marks # <<>> /\ at[l] = Entered(p, l)
       /\ ~Enters(F, l) => at[l] = Origin(p, l)

(* Line l is one of those of token t. *)
Covers(t, l) ==
  \/ isLeaf(t) /\ l \in t.from..(t.to - 1)
  \/ t.type = "container_open" /\ l = t.from
  \/ t.type = "container_close" /\ l \in t.from..(t.to - 1)

(* Lines before the one to be read are of one token, if not empty; those behind of none. *)
CoverInv(p, T, line) ==
  /\ \A l \in DOMAIN p : ~Blank(p, l) /\ l < line =>
       \E i \in DOMAIN T : Covers(T[i], l) /\ \A j \in DOMAIN T : Covers(T[j], l) => j = i
  /\ \A l \in DOMAIN p : l >= line => \A i \in DOMAIN T : ~Covers(T[i], l)

(* The blocks of a definition so far, and whether empty lines have been between them. *)
Block(T, k, e) == k \in DOMAIN T /\ k > e.tok /\ T[k].level = e.level /\ Begins(T[k])

(* An empty line has been between two blocks of a definition. *)
AnyParted(p, T, e) == \E k \in DOMAIN T : k > e.tok /\ Parted(p, T, k, e.level)

(* What is known of a definition that waits for a block within it to end. *)
Suspended(p, T, f, e) ==
  f \in ListFrames => (\E k : Block(T, k, e)) /\ (f.hasEmpty <=> AnyParted(p, T, e))

(* All frames below the one on top wait. *)
AllSuspended(p, T, F, E) == \A i \in DOMAIN F : Suspended(p, T, F[i], E[i])

(* What is known of a definition between two of its blocks. *)
OnTop(p, line, tight, T, f, e) ==
  f \in ListFrames =>
    /\ tight <=> ~AnyParted(p, T, e)
    /\ IF \E k : Block(T, k, e)
       THEN /\ f.hasEmpty <=> AnyParted(p, T, e) \/ Blank(p, line - 1)
            /\ line < e.lineMax /\ Blank(p, line) => Blank(p, line - 1)
            /\ T[Len(T)].type \notin {"dd_open", "dt_open"}
       ELSE ~f.hasEmpty /\ Len(T) = e.tok

(* A page that is being read, and one that has been read. *)
Reading(p, line, at, tight, T, F, f, E, e) ==
  /\ GoodPage(p) /\ line \in 1..e.lineMax /\ tight \in BOOLEAN /\ T \in Seq(BlockTokens)
  /\ Stack(p, line, T, Append(F, f), Append(E, e)) /\ e \in Ghosts /\ f \in Frames
  /\ F \in Seq(Frames) /\ E \in Seq(Ghosts)
  /\ AtInv(p, at, Append(F, f))
  /\ CoverInv(p, T, line) /\ NestInv(p, T, e.level)
  /\ AllSuspended(p, T, F, E) /\ OnTop(p, line, tight, T, f, e)

(* A page that has been read: every block is closed, every line of a token. *)
Read(p, at, T) ==
  /\ GoodPage(p) /\ T \in Seq(BlockTokens) /\ AtInv(p, at, <<>>)
  /\ CoverInv(p, T, Len(p) + 1) /\ NestInv(p, T, 0)

(* The state, given what it is while the frame on top is. *)
ReadingState(p, line, at, tight, T, F, e) ==
  StateOf(p, line, e.lineMax, e.blk, e.dd, at, tight, e.level, T, F)

(* State b is that of a page that is being read. *)
IsReading(b) ==
  \E p, line, at, tight, T, F, f, E, e :
    /\ b = ReadingState(p, line, at, tight, T, Append(F, f), e)
    /\ Reading(p, line, at, tight, T, F, f, E, e)

(* State b is that of a page that has been read. *)
IsRead(b) ==
  \E p, at, tight, T :
    /\ b = ReadingState(p, Len(p) + 1, at, tight, T, <<>>, Base(p))
    /\ Read(p, at, T) /\ tight \in BOOLEAN

(* The inductive invariant. *)
BlocksInv == IsReading(bl) \/ IsRead(bl)

-----------------------------------------------------------------------------
(* The types of the tokens that open a block, and of those that close one. *)
LEMMA Kinds ==
  /\ Openers = {"container_open", "dl_open", "dt_open", "dd_open", "paragraph_open"}
  /\ DOMAIN Ending = {"container_close", "dl_close", "dt_close", "dd_close", "paragraph_close"}
  /\ Ending["container_close"] = "container_open" /\ Ending["dl_close"] = "dl_open"
  /\ Ending["dt_close"] = "dt_open" /\ Ending["dd_close"] = "dd_open"
  /\ Ending["paragraph_close"] = "paragraph_open"
<1>1. DOMAIN Ending = {"container_close", "dl_close", "dt_close", "dd_close", "paragraph_close"}
  BY DEF Ending
<1>2. /\ Ending["container_close"] = "container_open" /\ Ending["dl_close"] = "dl_open"
      /\ Ending["dt_close"] = "dt_open" /\ Ending["dd_close"] = "dd_open"
      /\ Ending["paragraph_close"] = "paragraph_open"
  BY DEF Ending
<1> QED BY <1>1, <1>2 DEF Openers

(* The types of a token's fields. *)
LEMMA TokenFields ==
  ASSUME NEW T \in Seq(BlockTokens), NEW k \in DOMAIN T
  PROVE  /\ T[k] \in BlockTokens /\ T[k].type \in TokenTypes /\ T[k].level \in Nat
         /\ T[k].from \in Nat /\ T[k].to \in Nat /\ T[k].hidden \in BOOLEAN /\ k \in Nat
<1>1. T[k] \in BlockTokens /\ k \in Nat
  OBVIOUS
<1> QED BY <1>1 DEF BlockTokens

(* U is T with more tokens behind it. *)
Grown(T, U) == Len(T) <= Len(U) /\ \A k \in DOMAIN T : k \in DOMAIN U /\ U[k] = T[k]

(* One token more. *)
LEMMA Appended ==
  ASSUME NEW T \in Seq(BlockTokens), NEW t \in BlockTokens, NEW U, U = Append(T, t)
  PROVE  /\ U \in Seq(BlockTokens) /\ Len(U) = Len(T) + 1 /\ Len(T) \in Nat
         /\ DOMAIN U = 1..(Len(T) + 1) /\ DOMAIN T = 1..Len(T)
         /\ U[Len(T) + 1] = t /\ Len(T) + 1 \in DOMAIN U
         /\ \A k \in DOMAIN T : k \in DOMAIN U /\ U[k] = T[k]
         /\ \A k \in DOMAIN U : k \in Nat /\ (k \in DOMAIN T \/ k = Len(T) + 1)
         /\ Grown(T, U)
BY DEF Grown

-----------------------------------------------------------------------------
(* Only one block is open on a level. *)
LEMMA OpenOnce ==
  ASSUME NEW T \in Seq(BlockTokens), NEW k \in Nat, NEW g, NEW h, IsOpen(T, k, g), IsOpen(T, k, h)
  PROVE  g = h
<1>1. g \in DOMAIN T /\ h \in DOMAIN T /\ T[g].level = k - 1 /\ T[h].level = k - 1
  BY DEF IsOpen
<1>2. g \in Nat /\ h \in Nat
  BY <1>1, TokenFields
<1>3. ~ (g > h) /\ ~ (h > g)
  BY <1>1 DEF IsOpen
<1> QED BY <1>2, <1>3

(* A block stays open while tokens within it are added. *)
LEMMA OpenStays ==
  ASSUME NEW T \in Seq(BlockTokens), NEW U \in Seq(BlockTokens), NEW k \in Nat, NEW g,
         Grown(T, U), IsOpen(T, k, g),
         \A j \in DOMAIN U : j \notin DOMAIN T => U[j].level >= k
  PROVE  IsOpen(U, k, g)
BY DEF IsOpen, Grown

(* What has been closed stays as it is. *)
LEMMA MatchedStays ==
  ASSUME NEW p, NEW T \in Seq(BlockTokens), NEW U \in Seq(BlockTokens), NEW i, NEW j,
         Grown(T, U), Matched(p, T, i, j)
  PROVE  Matched(p, U, i, j)
<1>1. i \in DOMAIN T /\ j \in DOMAIN T /\ i < j
  BY DEF Matched
<1>2. \A k \in i..j : k \in DOMAIN T /\ U[k] = T[k] /\ k \in DOMAIN U
  BY <1>1 DEF Grown
<1>3. i \in Nat /\ j \in Nat
  BY <1>1
<1>4. i \in i..j /\ j \in i..j /\ \A k \in (i + 1)..(j - 1) : k \in i..j
  BY <1>1, <1>3
<1> QED BY <1>1, <1>2, <1>4 DEF Matched

(* Whether a list is loose up to some token is not changed by those behind. *)
LEMMA LooseStays ==
  ASSUME NEW p, NEW T \in Seq(BlockTokens), NEW U \in Seq(BlockTokens), NEW i, NEW j,
         Grown(T, U), i \in DOMAIN T, j \in DOMAIN T
  PROVE  Loose(p, U, i, j) <=> Loose(p, T, i, j)
<1>1. i \in Nat /\ j \in Nat /\ U[i] = T[i] /\ T[i].level \in Nat
  BY TokenFields DEF Grown
<1>2. ASSUME NEW k \in i..j
      PROVE  /\ Parted(p, U, k, U[i].level + 2) <=> Parted(p, T, k, T[i].level + 2)
             /\ Split(p, U, k, U[i].level + 1) <=> Split(p, T, k, T[i].level + 1)
  <2>1. k \in DOMAIN T /\ U[k] = T[k] /\ k \in Nat
    BY <1>1 DEF Grown
  <2>2. CASE k = i
    <3>1. T[k].level # T[i].level + 2 /\ T[k].level # T[i].level + 1
      BY <1>1, <2>2
    <3> QED BY <1>1, <2>1, <3>1 DEF Parted, Split
  <2>3. CASE k # i
    <3>1. k - 1 \in DOMAIN T
      BY <1>1, <2>1, <2>3
    <3>2. U[k - 1] = T[k - 1]
      BY <3>1 DEF Grown
    <3> QED BY <1>1, <2>1, <3>2 DEF Parted, Split
  <2> QED BY <2>2, <2>3
<1> QED BY <1>2 DEF Loose

(* Nor are the paragraphs of one that has been closed. *)
LEMMA HiddenStays ==
  ASSUME NEW p, NEW T \in Seq(BlockTokens), NEW U \in Seq(BlockTokens), NEW i, NEW j,
         Grown(T, U), i \in DOMAIN T, j \in DOMAIN T, HiddenRight(p, T, i, j)
  PROVE  HiddenRight(p, U, i, j)
<1>1. Loose(p, U, i, j) <=> Loose(p, T, i, j)
  BY LooseStays
<1>2. i \in Nat /\ j \in Nat
  OBVIOUS
<1>3. \A k \in i..j : U[k] = T[k]
  BY <1>2 DEF Grown
<1>4. U[i] = T[i]
  BY DEF Grown
<1> QED BY <1>1, <1>3, <1>4 DEF HiddenRight

(* What is known of the tokens T on level lev when U has one more, on level lev2 or above. *)
Staying(p, T, U, lev, lev2) ==
  /\ \A k \in 1..lev2 : \E g : IsOpen(U, k, g)
  /\ \A k \in 1..lev2 : \A i : IsOpen(T, k, i) => IsOpen(U, k, i)
  /\ \A i \in DOMAIN T : T[i].type \in Openers =>
       (\E k \in 1..lev : IsOpen(T, k, i)) \/ (\E j : Matched(p, U, i, j) /\ HiddenRight(p, U, i, j))
  /\ \A i \in DOMAIN U : FenceAlone(p, U[i])

(* What was open on lev2 levels stays so when a token on level lev2 or above is added. *)
LEMMA NestStays ==
  ASSUME NEW p, NEW T \in Seq(BlockTokens), NEW t \in BlockTokens, NEW lev \in Nat,
         NEW lev2 \in Nat, lev2 <= lev, NEW U, U = Append(T, t),
         NestInv(p, T, lev), t.level >= lev2, FenceAlone(p, t)
  PROVE  Staying(p, T, U, lev, lev2)
<1>1. /\ U \in Seq(BlockTokens) /\ Grown(T, U)
      /\ \A k \in DOMAIN U : k \in DOMAIN T \/ U[k] = t
      /\ \A k \in DOMAIN T : U[k] = T[k]
  <2>1. /\ U \in Seq(BlockTokens) /\ U[Len(T) + 1] = t /\ Len(U) = Len(T) + 1 /\ Len(T) \in Nat
        /\ \A k \in DOMAIN U : k \in DOMAIN T \/ k = Len(T) + 1
        /\ \A k \in DOMAIN T : U[k] = T[k] /\ k \in DOMAIN U
    BY Appended
  <2>2. Grown(T, U)
    BY <2>1 DEF Grown
  <2> QED BY <2>1, <2>2
<1>2. ASSUME NEW k \in 1..lev2, NEW g, IsOpen(T, k, g)
      PROVE  IsOpen(U, k, g)
  <2>1. k \in Nat /\ t.level \in Nat /\ t.level >= k
    BY DEF BlockTokens
  <2>2. \A j \in DOMAIN U : j \notin DOMAIN T => U[j].level >= k
    BY <1>1, <2>1
  <2> QED BY <1>1, <1>2, <2>1, <2>2, OpenStays
<1>3. \A k \in 1..lev2 : \E g : IsOpen(U, k, g)
  <2>1. \A k \in 1..lev2 : k \in 1..lev
    OBVIOUS
  <2> QED BY <1>2, <2>1 DEF NestInv
<1>4. ASSUME NEW i, NEW j, Matched(p, T, i, j), HiddenRight(p, T, i, j)
      PROVE  Matched(p, U, i, j) /\ HiddenRight(p, U, i, j)
  <2>1. i \in DOMAIN T /\ j \in DOMAIN T
    BY <1>4 DEF Matched
  <2> QED BY <1>1, <1>4, <2>1, MatchedStays, HiddenStays
<1>5. \A i \in DOMAIN U : FenceAlone(p, U[i])
  BY <1>1 DEF NestInv
<1>6. \A i \in DOMAIN T : T[i].type \in Openers =>
        (\E k \in 1..lev : IsOpen(T, k, i)) \/ (\E j : Matched(p, T, i, j) /\ HiddenRight(p, T, i, j))
  BY DEF NestInv
<1> QED BY <1>2, <1>3, <1>4, <1>5, <1>6 DEF Staying

(* A token that opens a block. *)
LEMMA NestOpen ==
  ASSUME NEW p, NEW T \in Seq(BlockTokens), NEW t \in BlockTokens, NEW lev \in Nat, NEW U,
         U = Append(T, t), NestInv(p, T, lev), t.level = lev, t.type \in Openers, FenceAlone(p, t)
  PROVE  NestInv(p, U, lev + 1) /\ IsOpen(U, lev + 1, Len(T) + 1)
<1>1. /\ U \in Seq(BlockTokens) /\ Len(T) \in Nat /\ Len(T) + 1 \in DOMAIN U /\ U[Len(T) + 1] = t
      /\ DOMAIN U = 1..(Len(T) + 1)
      /\ \A k \in DOMAIN U : k \in DOMAIN T \/ k = Len(T) + 1
      /\ \A k \in DOMAIN T : U[k] = T[k]
  BY Appended
<1>2. IsOpen(U, lev + 1, Len(T) + 1)
  BY <1>1 DEF IsOpen
<1>3. /\ \A k \in 1..lev : \E g : IsOpen(U, k, g)
      /\ \A k \in 1..lev : \A i : IsOpen(T, k, i) => IsOpen(U, k, i)
      /\ \A i \in DOMAIN T : T[i].type \in Openers =>
           (\E k \in 1..lev : IsOpen(T, k, i)) \/ (\E j : Matched(p, U, i, j) /\ HiddenRight(p, U, i, j))
      /\ \A i \in DOMAIN U : FenceAlone(p, U[i])
  <2>1. lev <= lev /\ t.level >= lev
    OBVIOUS
  <2>2. Staying(p, T, U, lev, lev)
    BY <2>1, NestStays
  <2> QED BY <2>2 DEF Staying
<1>4. \A k \in 1..(lev + 1) : k \in 1..lev \/ k = lev + 1
  OBVIOUS
<1>5. \A k \in 1..(lev + 1) : \E g : IsOpen(U, k, g)
  BY <1>2, <1>3, <1>4
<1>6. ASSUME NEW i \in DOMAIN U, U[i].type \in Openers
      PROVE  (\E k \in 1..(lev + 1) : IsOpen(U, k, i))
               \/ (\E j : Matched(p, U, i, j) /\ HiddenRight(p, U, i, j))
  <2>1. CASE i = Len(T) + 1
    BY <1>2, <2>1
  <2>2. CASE i \in DOMAIN T
    <3>1. \A k \in 1..lev : k \in 1..(lev + 1)
      OBVIOUS
    <3> QED BY <1>1, <1>3, <1>6, <2>2, <3>1
  <2> QED BY <1>1, <2>1, <2>2
<1> QED BY <1>2, <1>3, <1>5, <1>6 DEF NestInv

(* A token of text or code. *)
LEMMA NestLeaf ==
  ASSUME NEW p, NEW T \in Seq(BlockTokens), NEW t \in BlockTokens, NEW lev \in Nat, NEW U,
         U = Append(T, t), NestInv(p, T, lev), t.level = lev, isLeaf(t)
  PROVE  NestInv(p, U, lev)
<1>1. /\ \A k \in DOMAIN U : k \in DOMAIN T \/ U[k] = t
      /\ \A k \in DOMAIN T : U[k] = T[k]
  BY Appended
<1>2. FenceAlone(p, t) /\ t.type \notin Openers
  BY Kinds DEF isLeaf, FenceAlone
<1>3. /\ \A k \in 1..lev : \E g : IsOpen(U, k, g)
      /\ \A k \in 1..lev : \A i : IsOpen(T, k, i) => IsOpen(U, k, i)
      /\ \A i \in DOMAIN T : T[i].type \in Openers =>
           (\E k \in 1..lev : IsOpen(T, k, i)) \/ (\E j : Matched(p, U, i, j) /\ HiddenRight(p, U, i, j))
      /\ \A i \in DOMAIN U : FenceAlone(p, U[i])
  <2>1. lev <= lev /\ t.level >= lev
    OBVIOUS
  <2>2. Staying(p, T, U, lev, lev)
    BY <1>2, <2>1, NestStays
  <2> QED BY <2>2 DEF Staying
<1> QED BY <1>1, <1>2, <1>3 DEF NestInv

(* A token that closes the block on top. *)
LEMMA NestClose ==
  ASSUME NEW p, NEW T \in Seq(BlockTokens), NEW t \in BlockTokens, NEW lev \in Nat, lev >= 1, NEW U,
         U = Append(T, t), NestInv(p, T, lev), t.level = lev - 1, NEW g, IsOpen(T, lev, g),
         t.type \in DOMAIN Ending, Ending[t.type] = T[g].type,
         T[g].type = "container_open" =>
           /\ \A k \in DOMAIN T : k > g /\ isLeaf(T[k]) => T[k].from > T[g].from /\ T[k].to <= t.from
           /\ t.to > t.from => p[t.from].markers >= p[T[g].from].markers,
         HiddenRight(p, U, g, Len(T) + 1)
  PROVE  NestInv(p, U, lev - 1)
<1>1. /\ U \in Seq(BlockTokens) /\ Len(T) \in Nat /\ Len(T) + 1 \in DOMAIN U /\ U[Len(T) + 1] = t
      /\ DOMAIN U = 1..(Len(T) + 1) /\ DOMAIN T = 1..Len(T)
      /\ \A k \in DOMAIN U : k \in DOMAIN T \/ k = Len(T) + 1
      /\ \A k \in DOMAIN T : U[k] = T[k] /\ k \in DOMAIN U
  BY Appended
<1>2. FenceAlone(p, t) /\ t.type \notin Openers
  BY Kinds DEF FenceAlone
<1>3. /\ \A k \in 1..(lev - 1) : \E h : IsOpen(U, k, h)
      /\ \A k \in 1..(lev - 1) : \A i : IsOpen(T, k, i) => IsOpen(U, k, i)
      /\ \A i \in DOMAIN T : T[i].type \in Openers =>
           (\E k \in 1..lev : IsOpen(T, k, i)) \/ (\E j : Matched(p, U, i, j) /\ HiddenRight(p, U, i, j))
      /\ \A i \in DOMAIN U : FenceAlone(p, U[i])
  <2>1. lev - 1 \in Nat /\ lev - 1 <= lev /\ t.level >= lev - 1
    OBVIOUS
  <2>2. Staying(p, T, U, lev, lev - 1)
    BY <1>2, <2>1, NestStays
  <2> QED BY <2>2 DEF Staying
<1>4. g \in DOMAIN T /\ g \in 1..Len(T) /\ T[g].level = lev - 1 /\ \A j \in DOMAIN T : j > g => T[j].level >= lev
  BY <1>1 DEF IsOpen
<1>5. Matched(p, U, g, Len(T) + 1)
  <2>1. \A k \in (g + 1)..((Len(T) + 1) - 1) : k \in DOMAIN T /\ k > g /\ U[k] = T[k]
    BY <1>1, <1>4
  <2>2. \A k \in (g + 1)..((Len(T) + 1) - 1) : U[k].level > U[g].level
    <3> SUFFICES ASSUME NEW k \in (g + 1)..((Len(T) + 1) - 1)
                 PROVE  U[k].level > U[g].level
      OBVIOUS
    <3>1. T[k].level \in Nat /\ T[k].level >= lev /\ U[k] = T[k] /\ U[g] = T[g]
      BY <1>1, <1>4, <2>1, TokenFields
    <3> QED BY <1>4, <3>1
  <2> QED BY <1>1, <1>4, <2>1, <2>2 DEF Matched
<1>6. ASSUME NEW i \in DOMAIN U, U[i].type \in Openers
      PROVE  (\E k \in 1..(lev - 1) : IsOpen(U, k, i))
               \/ (\E j : Matched(p, U, i, j) /\ HiddenRight(p, U, i, j))
  <2>1. i \in DOMAIN T /\ U[i] = T[i]
    BY <1>1, <1>2, <1>6
  <2>2. CASE \E j : Matched(p, U, i, j) /\ HiddenRight(p, U, i, j)
    BY <2>2
  <2>3. ASSUME NEW k \in 1..lev, IsOpen(T, k, i)
        PROVE  (\E m \in 1..(lev - 1) : IsOpen(U, m, i))
               \/ (\E j : Matched(p, U, i, j) /\ HiddenRight(p, U, i, j))
    <3>1. CASE k = lev
      <4>1. i = g
        BY <2>3, <3>1, OpenOnce
      <4> QED BY <1>5, <4>1
    <3>2. CASE k # lev
      <4>1. k \in 1..(lev - 1)
        BY <3>2
      <4> QED BY <1>3, <2>3, <4>1
    <3> QED BY <3>1, <3>2
  <2> QED BY <1>3, <1>6, <2>1, <2>2, <2>3
<1> QED BY <1>3, <1>6 DEF NestInv

-----------------------------------------------------------------------------
(* The tokens of U that T has not are of a block on level lev, with lines up to lm. *)
Within(T, U, lev, line, lm) ==
  \A j \in DOMAIN U : j \notin DOMAIN T =>
    /\ U[j].level >= lev
    /\ isLeaf(U[j]) => U[j].from >= line /\ U[j].to <= lm
    /\ U[j].type = "paragraph_open" => ~U[j].hidden

(* Tokens within a block are within those around it. *)
LEMMA WithinLess ==
  ASSUME NEW T, NEW U \in Seq(BlockTokens), NEW lev \in Nat, NEW line, NEW lm \in Nat,
         NEW lev2 \in Nat, NEW lm2 \in Nat, lev2 <= lev, lm <= lm2, Within(T, U, lev, line, lm)
  PROVE  Within(T, U, lev2, line, lm2)
<1> SUFFICES ASSUME NEW j \in DOMAIN U, j \notin DOMAIN T
             PROVE  /\ U[j].level >= lev2
                    /\ isLeaf(U[j]) => U[j].from >= line /\ U[j].to <= lm2
                    /\ U[j].type = "paragraph_open" => ~U[j].hidden
  BY DEF Within
<1>1. U[j].level \in Nat /\ U[j].to \in Nat
  BY TokenFields
<1> QED BY <1>1 DEF Within

(* Tokens of a block within a container leave what is known of it. *)
LEMMA ContainerGrows ==
  ASSUME NEW p, NEW line \in Nat, NEW line2 \in Nat, line <= line2,
         NEW T \in Seq(BlockTokens), NEW U \in Seq(BlockTokens),
         NEW f, NEW eo \in Ghosts, NEW e \in Ghosts, Grown(T, U), Within(T, U, e.level, line, e.lineMax),
         ContainerOK(p, line, T, f, eo, e)
  PROVE  ContainerOK(p, line2, U, f, eo, e)
<1>0. e.level \in Nat /\ e.lineMax \in Nat
  BY DEF Ghosts
<1>1. IsOpen(T, e.level, e.tok) /\ e.tok \in DOMAIN T /\ U[e.tok] = T[e.tok] /\ T[e.tok].from \in Nat
      /\ T[e.tok].from < line
  <2>1. IsOpen(T, e.level, e.tok) /\ e.tok \in DOMAIN T /\ T[e.tok].from < line
    BY DEF ContainerOK, IsOpen
  <2> QED BY <2>1, TokenFields DEF Grown
<1>2. IsOpen(U, e.level, e.tok)
  BY <1>0, <1>1, OpenStays DEF Within
<1>3. \A k \in DOMAIN U : k > e.tok /\ isLeaf(U[k]) => U[k].from > U[e.tok].from /\ U[k].to <= e.lineMax
  <2> SUFFICES ASSUME NEW k \in DOMAIN U, k > e.tok, isLeaf(U[k])
               PROVE  U[k].from > U[e.tok].from /\ U[k].to <= e.lineMax
    OBVIOUS
  <2>1. CASE k \in DOMAIN T
    BY <1>1, <2>1 DEF ContainerOK, Grown
  <2>2. CASE k \notin DOMAIN T
    <3>1. U[k].from >= line /\ U[k].to <= e.lineMax /\ U[k].from \in Nat
      BY <2>2, TokenFields DEF Within
    <3> QED BY <1>1, <3>1
  <2> QED BY <2>1, <2>2
<1>4. \A k \in line2..(e.lineMax - 1) : k \in line..(e.lineMax - 1)
  BY <1>0
<1>5. T[e.tok].from < line2
  BY <1>1
<1> QED BY <1>1, <1>2, <1>3, <1>4, <1>5 DEF ContainerOK

(* Tokens of a block within a definition leave what is known of its list. *)
LEMMA ListGrows ==
  ASSUME NEW p, NEW line \in Nat, NEW line2 \in Nat, line <= line2,
         NEW T \in Seq(BlockTokens), NEW U \in Seq(BlockTokens),
         NEW f, NEW eo \in Ghosts, NEW e \in Ghosts, Grown(T, U), Within(T, U, e.level, line, e.lineMax),
         ListOK(p, line, T, f, eo, e)
  PROVE  ListOK(p, line2, U, f, eo, e)
<1>0. e.level \in Nat /\ e.lineMax \in Nat /\ eo.level \in Nat /\ e.level = eo.level + 2
  BY DEF Ghosts, ListOK
<1>1. /\ IsOpen(T, e.level, e.tok) /\ e.tok \in DOMAIN T /\ U[e.tok] = T[e.tok]
      /\ IsOpen(T, e.level - 1, f.listTok) /\ f.listTok \in DOMAIN T /\ U[f.listTok] = T[f.listTok]
      /\ e.tok \in Nat /\ f.listTok \in Nat /\ f.listTok < e.tok
  <2>1. /\ IsOpen(T, e.level, e.tok) /\ e.tok \in DOMAIN T
        /\ IsOpen(T, e.level - 1, f.listTok) /\ f.listTok \in DOMAIN T
        /\ f.listTok < e.tok
    BY DEF ListOK, IsOpen
  <2> QED BY <2>1, TokenFields DEF Grown
<1>2. IsOpen(U, e.level, e.tok)
  BY <1>0, <1>1, OpenStays DEF Within
<1>3. IsOpen(U, e.level - 1, f.listTok)
  <2>1. e.level - 1 \in Nat
    BY <1>0
  <2>2. \A j \in DOMAIN U : j \notin DOMAIN T => U[j].level >= e.level - 1
    <3> SUFFICES ASSUME NEW j \in DOMAIN U, j \notin DOMAIN T
                 PROVE  U[j].level >= e.level - 1
      OBVIOUS
    <3>1. U[j].level \in Nat /\ U[j].level >= e.level
      BY TokenFields DEF Within
    <3> QED BY <1>0, <3>1
  <2> QED BY <1>1, <2>1, <2>2, OpenStays
<1>4. \A k \in DOMAIN U : k > f.listTok =>
       /\ U[k].type = "dl_open" => U[k].level >= e.level
       /\ U[k].type = "paragraph_open" /\ U[k].level = e.level => ~U[k].hidden
  <2> SUFFICES ASSUME NEW k \in DOMAIN U, k > f.listTok
               PROVE  /\ U[k].type = "dl_open" => U[k].level >= e.level
                      /\ U[k].type = "paragraph_open" /\ U[k].level = e.level => ~U[k].hidden
    OBVIOUS
  <2>1. CASE k \in DOMAIN T
    BY <2>1 DEF ListOK, Grown
  <2>2. CASE k \notin DOMAIN T
    BY <2>2 DEF Within
  <2> QED BY <2>1, <2>2
<1>5. f.listTok + 1 \in DOMAIN T /\ e.tok - 1 \in DOMAIN T
  BY <1>1
<1>6. U[f.listTok + 1] = T[f.listTok + 1] /\ U[e.tok - 1] = T[e.tok - 1]
  BY <1>5 DEF Grown
<1>7. Loose(p, U, f.listTok, e.tok - 1) <=> Loose(p, T, f.listTok, e.tok - 1)
  BY <1>1, <1>5, LooseStays
<1>8. Split(p, U, e.tok, e.level - 1) <=> Split(p, T, e.tok, e.level - 1)
  BY <1>1, <1>6 DEF Split
<1>9. f.ddLine \in Nat
  BY DEF ListOK, ListFrames
<1>10. f.ddLine <= line2
  <2>1. f.ddLine <= line
    BY DEF ListOK
  <2> QED BY <1>9, <2>1
<1> QED BY <1>1, <1>2, <1>3, <1>4, <1>6, <1>7, <1>8, <1>10 DEF ListOK

(* So it is for every frame. *)
LEMMA FrameGrows ==
  ASSUME NEW p, NEW line \in Nat, NEW line2 \in Nat, line <= line2,
         NEW T \in Seq(BlockTokens), NEW U \in Seq(BlockTokens),
         NEW f, NEW eo \in Ghosts, NEW e \in Ghosts, Grown(T, U), Within(T, U, e.level, line, e.lineMax),
         FrameOK(p, line, T, f, eo, e)
  PROVE  FrameOK(p, line2, U, f, eo, e)
BY ContainerGrows, ListGrows DEF FrameOK

(* Tokens of the block on top leave what is known of the frames as it is. *)
LEMMA StackGrows ==
  ASSUME NEW p, NEW line \in Nat, NEW line2 \in Nat, line <= line2,
         NEW T \in Seq(BlockTokens), NEW U \in Seq(BlockTokens), NEW F, NEW E,
         NEW lev \in Nat, NEW lm \in Nat, Grown(T, U), Within(T, U, lev, line, lm),
         \A i \in DOMAIN E : E[i].level <= lev /\ lm <= E[i].lineMax,
         Stack(p, line, T, F, E)
  PROVE  Stack(p, line2, U, F, E)
<1>1. F \in Seq(Frames) /\ E \in Seq(Ghosts) /\ Len(E) = Len(F)
  BY DEF Stack
<1>2. ASSUME NEW i \in 2..Len(F)
      PROVE  FrameOK(p, line2, U, F[i], E[i - 1], E[i])
  <2>1. i \in DOMAIN E /\ i - 1 \in DOMAIN E
    BY <1>1
  <2>2. E[i] \in Ghosts /\ E[i - 1] \in Ghosts
    BY <1>1, <2>1
  <2>3. E[i].level \in Nat /\ E[i].lineMax \in Nat
    BY <2>2 DEF Ghosts
  <2>4. Within(T, U, E[i].level, line, E[i].lineMax)
    BY <2>1, <2>3, WithinLess
  <2>5. FrameOK(p, line, T, F[i], E[i - 1], E[i])
    BY DEF Stack
  <2> QED BY <2>2, <2>4, <2>5, FrameGrows
<1> QED BY <1>1, <1>2 DEF Stack

-----------------------------------------------------------------------------
(* What is known of frame f on top of those of F. *)
TopOK(p, line, T, F, f, E, e) ==
  /\ f \in Frames /\ e \in Ghosts /\ EndsList(p, e)
  /\ F = <<>> => f \in PageFrames /\ f.endLine = Len(p) + 1 /\ e = Base(p)
  /\ F # <<>> => FrameOK(p, line, T, f, E[Len(E)], e) /\ Narrower(E[Len(E)], e)
  /\ f \in ListFrames => \A i \in DOMAIN F : F[i] \in ListFrames => F[i].ddLine < f.ddLine

(* One frame more. *)
LEMMA OnFrames ==
  ASSUME NEW S, NEW F \in Seq(S), NEW f \in S, NEW F2, F2 = Append(F, f)
  PROVE  /\ F2 \in Seq(S) /\ Len(F2) = Len(F) + 1 /\ Len(F) \in Nat
         /\ DOMAIN F2 = 1..(Len(F) + 1) /\ DOMAIN F = 1..Len(F)
         /\ F2[Len(F) + 1] = f
         /\ \A k \in DOMAIN F : F2[k] = F[k]
         /\ F = <<>> <=> Len(F) = 0
OBVIOUS

(* What is known of the frames, of that on top and of those below. *)
LEMMA StackPops ==
  ASSUME NEW p, NEW line, NEW T, NEW F \in Seq(Frames), NEW f \in Frames, NEW E \in Seq(Ghosts),
         NEW e \in Ghosts, Stack(p, line, T, Append(F, f), Append(E, e))
  PROVE  /\ Stack(p, line, T, F, E) /\ TopOK(p, line, T, F, f, E, e)
         /\ Len(E) = Len(F) /\ \A i \in DOMAIN E : Narrower(E[i], e)
<1>1. PICK F2, E2 : F2 = Append(F, f) /\ E2 = Append(E, e)
  OBVIOUS
<1>2. /\ F2 \in Seq(Frames) /\ Len(F2) = Len(F) + 1 /\ Len(F) \in Nat
      /\ DOMAIN F2 = 1..(Len(F) + 1) /\ DOMAIN F = 1..Len(F)
      /\ F2[Len(F) + 1] = f
      /\ \A k \in DOMAIN F : F2[k] = F[k]
      /\ F = <<>> <=> Len(F) = 0
  BY <1>1, OnFrames
<1>3. /\ E2 \in Seq(Ghosts) /\ Len(E2) = Len(E) + 1 /\ Len(E) \in Nat
      /\ DOMAIN E2 = 1..(Len(E) + 1) /\ DOMAIN E = 1..Len(E)
      /\ E2[Len(E) + 1] = e
      /\ \A k \in DOMAIN E : E2[k] = E[k]
  BY <1>1, OnFrames
<1>4. Stack(p, line, T, F2, E2)
  BY <1>1
<1>5. Len(E) = Len(F)
  <2>1. Len(E2) = Len(F2)
    BY <1>4 DEF Stack
  <2>2. PICK n \in Nat, m \in Nat : n = Len(E) /\ m = Len(F)
    BY <1>2, <1>3
  <2>3. Len(E2) = n + 1 /\ Len(F2) = m + 1
    BY <1>2, <1>3, <2>2
  <2>4. n + 1 = m + 1
    BY ONLY <2>1, <2>3
  <2>5. n = m
    BY <2>4
  <2> QED BY ONLY <2>2, <2>5
<1>6. \A i \in 2..Len(F2) : FrameOK(p, line, T, F2[i], E2[i - 1], E2[i])
  BY <1>4 DEF Stack
<1>7. \A i, j \in DOMAIN E2 : i < j => Narrower(E2[i], E2[j])
  BY <1>4 DEF Stack
<1>8. \A i \in DOMAIN E2 : EndsList(p, E2[i])
  BY <1>4 DEF Stack
<1>9. F2 # <<>> /\ F2[1] \in PageFrames /\ F2[1].endLine = Len(p) + 1 /\ E2[1] = Base(p)
  BY <1>1, <1>2, <1>4 DEF Stack
<1>10. \A i, j \in DOMAIN F2 : i < j /\ F2[i] \in ListFrames /\ F2[j] \in ListFrames => F2[i].ddLine < F2[j].ddLine
  BY <1>4 DEF Stack, InOrder
<1> HIDE <1>4
<1>11. Stack(p, line, T, F, E)
  <2>1. F # <<>> => F[1] \in PageFrames /\ F[1].endLine = Len(p) + 1 /\ E[1] = Base(p)
    <3>1. F # <<>> => 1 \in DOMAIN F /\ 1 \in DOMAIN E
      BY <1>2, <1>3, <1>5
    <3> QED BY <1>2, <1>3, <1>9, <3>1
  <2>2. \A i \in 2..Len(F) : FrameOK(p, line, T, F[i], E[i - 1], E[i])
    <3> SUFFICES ASSUME NEW i \in 2..Len(F)
                 PROVE  FrameOK(p, line, T, F[i], E[i - 1], E[i])
      OBVIOUS
    <3>1. i \in 2..Len(F2) /\ i \in DOMAIN F /\ i \in DOMAIN E /\ i - 1 \in DOMAIN E
      BY <1>2, <1>3, <1>5
    <3>2. F2[i] = F[i] /\ E2[i] = E[i] /\ E2[i - 1] = E[i - 1]
      BY <1>2, <1>3, <3>1
    <3> QED BY <1>6, <3>1, <3>2
  <2>3. \A i, j \in DOMAIN E : i < j => Narrower(E[i], E[j])
    <3>1. \A i \in DOMAIN E : i \in DOMAIN E2 /\ E2[i] = E[i]
      BY <1>3
    <3> QED BY <1>7, <3>1
  <2>4. \A i \in DOMAIN E : EndsList(p, E[i])
    <3>1. \A i \in DOMAIN E : i \in DOMAIN E2 /\ E2[i] = E[i]
      BY <1>3
    <3> QED BY <1>8, <3>1
  <2>5. InOrder(F)
    <3>1. \A i \in DOMAIN F : i \in DOMAIN F2 /\ F2[i] = F[i]
      BY <1>2
    <3> QED BY <1>10, <3>1 DEF InOrder
  <2> QED BY <1>5, <2>1, <2>2, <2>3, <2>4, <2>5 DEF Stack
<1>12. \A i \in DOMAIN E : Narrower(E[i], e)
  <2>1. \A i \in DOMAIN E : i \in DOMAIN E2 /\ E2[i] = E[i] /\ i < Len(E) + 1
    BY <1>3
  <2>2. Len(E) + 1 \in DOMAIN E2
    BY <1>3
  <2> QED BY <1>3, <1>7, <2>1, <2>2
<1>13. TopOK(p, line, T, F, f, E, e)
  <2>1. EndsList(p, e)
    <3>1. Len(E) + 1 \in DOMAIN E2
      BY <1>3
    <3> QED BY <1>3, <1>8, <3>1
  <2>2. F = <<>> => f \in PageFrames /\ f.endLine = Len(p) + 1 /\ e = Base(p)
    <3>1. F = <<>> => Len(F) + 1 = 1 /\ Len(E) + 1 = 1
      BY <1>2, <1>5
    <3> QED BY <1>2, <1>3, <1>9, <3>1
  <2>3. F # <<>> => FrameOK(p, line, T, f, E[Len(E)], e) /\ Narrower(E[Len(E)], e)
    <3>1. F # <<>> => Len(F) + 1 \in 2..Len(F2) /\ (Len(E) + 1) - 1 = Len(E) /\ Len(E) \in DOMAIN E
      BY <1>2, <1>3, <1>5
    <3>2. F # <<>> => E2[(Len(E) + 1) - 1] = E[Len(E)]
      BY <1>3, <3>1
    <3> QED BY <1>2, <1>3, <1>5, <1>6, <1>12, <3>1, <3>2
  <2>4. f \in ListFrames => \A i \in DOMAIN F : F[i] \in ListFrames => F[i].ddLine < f.ddLine
    <3>1. \A i \in DOMAIN F : i \in DOMAIN F2 /\ F2[i] = F[i] /\ i < Len(F) + 1
      BY <1>2
    <3>2. Len(F) + 1 \in DOMAIN F2
      BY <1>2
    <3> QED BY <1>2, <1>10, <3>1, <3>2
  <2> QED BY <2>1, <2>2, <2>3, <2>4 DEF TopOK
<1> QED BY <1>5, <1>11, <1>12, <1>13

(* Narrower is transitive. *)
LEMMA NarrowerStill ==
  ASSUME NEW a \in Ghosts, NEW b \in Ghosts, NEW c \in Ghosts, Narrower(a, b), Narrower(b, c)
  PROVE  Narrower(a, c)
<1>1. /\ a.lineMax \in Nat /\ a.blk \in Nat /\ a.level \in Nat /\ b.lineMax \in Nat /\ b.blk \in Nat
      /\ b.level \in Nat /\ c.lineMax \in Nat /\ c.blk \in Nat /\ c.level \in Nat
  BY DEF Ghosts
<1> QED BY <1>1 DEF Narrower

(* A frame of which is known what has to be is put on top. *)
LEMMA StackPushes ==
  ASSUME NEW p, NEW line, NEW T, NEW F \in Seq(Frames), NEW f, NEW E \in Seq(Ghosts),
         NEW e, Stack(p, line, T, F, E), TopOK(p, line, T, F, f, E, e)
  PROVE  Stack(p, line, T, Append(F, f), Append(E, e))
<1>0. f \in Frames /\ e \in Ghosts
  BY DEF TopOK
<1>1. PICK F2, E2 : F2 = Append(F, f) /\ E2 = Append(E, e)
  OBVIOUS
<1>2. /\ F2 \in Seq(Frames) /\ Len(F2) = Len(F) + 1 /\ Len(F) \in Nat
      /\ DOMAIN F2 = 1..(Len(F) + 1) /\ DOMAIN F = 1..Len(F)
      /\ F2[Len(F) + 1] = f
      /\ \A k \in DOMAIN F : F2[k] = F[k]
      /\ F = <<>> <=> Len(F) = 0
  BY <1>0, <1>1, OnFrames
<1>3. /\ E2 \in Seq(Ghosts) /\ Len(E2) = Len(E) + 1 /\ Len(E) \in Nat
      /\ DOMAIN E2 = 1..(Len(E) + 1) /\ DOMAIN E = 1..Len(E)
      /\ E2[Len(E) + 1] = e
      /\ \A k \in DOMAIN E : E2[k] = E[k]
  BY <1>0, <1>1, OnFrames
<1>4. Len(E) = Len(F)
  BY DEF Stack
<1>5. F2[1] \in PageFrames /\ F2[1].endLine = Len(p) + 1 /\ E2[1] = Base(p)
  <2>1. CASE F = <<>>
    BY <1>2, <1>3, <1>4, <2>1 DEF TopOK
  <2>2. CASE F # <<>>
    <3>1. 1 \in DOMAIN F /\ 1 \in DOMAIN E
      BY <1>2, <1>3, <1>4, <2>2
    <3>2. F[1] \in PageFrames /\ F[1].endLine = Len(p) + 1 /\ E[1] = Base(p)
      BY <2>2 DEF Stack
    <3> QED BY <1>2, <1>3, <3>1, <3>2
  <2> QED BY <2>1, <2>2
<1>6. \A i \in 2..Len(F2) : FrameOK(p, line, T, F2[i], E2[i - 1], E2[i])
  <2> SUFFICES ASSUME NEW i \in 2..Len(F2)
               PROVE  FrameOK(p, line, T, F2[i], E2[i - 1], E2[i])
    OBVIOUS
  <2>1. CASE i = Len(F2)
    <3>1. F # <<>> /\ i = Len(F) + 1 /\ i = Len(E) + 1 /\ i - 1 = Len(E) /\ Len(E) \in DOMAIN E
      BY <1>2, <1>3, <1>4, <2>1
    <3>2. F2[i] = f /\ E2[i] = e /\ E2[i - 1] = E[Len(E)]
      BY <1>2, <1>3, <3>1
    <3> QED BY <3>1, <3>2 DEF TopOK
  <2>2. CASE i # Len(F2)
    <3>1. i \in 2..Len(F) /\ i \in DOMAIN F /\ i \in DOMAIN E /\ i - 1 \in DOMAIN E
      BY <1>2, <1>3, <1>4, <2>2
    <3>2. F2[i] = F[i] /\ E2[i] = E[i] /\ E2[i - 1] = E[i - 1]
      BY <1>2, <1>3, <3>1
    <3> QED BY <3>1, <3>2 DEF Stack
  <2> QED BY <2>1, <2>2
<1>7. \A i \in DOMAIN E : Narrower(E[i], e)
  <2> SUFFICES ASSUME NEW i \in DOMAIN E
               PROVE  Narrower(E[i], e)
    OBVIOUS
  <2>1. i \in 1..Len(E) /\ Len(E) \in DOMAIN E /\ F # <<>>
    BY <1>2, <1>3, <1>4
  <2>2. Narrower(E[Len(E)], e) /\ E[i] \in Ghosts /\ E[Len(E)] \in Ghosts
    BY <2>1 DEF TopOK
  <2>3. CASE i = Len(E)
    BY <2>2, <2>3
  <2>4. CASE i # Len(E)
    <3>1. i < Len(E)
      BY <1>3, <2>1, <2>4
    <3>2. Narrower(E[i], E[Len(E)])
      BY <2>1, <3>1 DEF Stack
    <3> QED BY <1>0, <2>2, <3>2, NarrowerStill
  <2> QED BY <2>3, <2>4
<1>8. \A i, j \in DOMAIN E2 : i < j => Narrower(E2[i], E2[j])
  <2> SUFFICES ASSUME NEW i \in DOMAIN E2, NEW j \in DOMAIN E2, i < j
               PROVE  Narrower(E2[i], E2[j])
    OBVIOUS
  <2>1. i \in DOMAIN E /\ E2[i] = E[i]
    BY <1>3
  <2>2. CASE j = Len(E) + 1
    BY <1>3, <1>7, <2>1, <2>2
  <2>3. CASE j # Len(E) + 1
    <3>1. j \in DOMAIN E /\ E2[j] = E[j]
      BY <1>3, <2>3
    <3> QED BY <2>1, <3>1 DEF Stack
  <2> QED BY <2>2, <2>3
<1>9. \A i \in DOMAIN E2 : EndsList(p, E2[i])
  <2> SUFFICES ASSUME NEW i \in DOMAIN E2
               PROVE  EndsList(p, E2[i])
    OBVIOUS
  <2>1. CASE i = Len(E) + 1
    BY <1>3, <2>1 DEF TopOK
  <2>2. CASE i # Len(E) + 1
    <3>1. i \in DOMAIN E /\ E2[i] = E[i]
      BY <1>3, <2>2
    <3> QED BY <3>1 DEF Stack
  <2> QED BY <2>1, <2>2
<1>10. InOrder(F2)
  <2> SUFFICES ASSUME NEW i \in DOMAIN F2, NEW j \in DOMAIN F2, i < j,
                      F2[i] \in ListFrames, F2[j] \in ListFrames
               PROVE  F2[i].ddLine < F2[j].ddLine
    BY DEF InOrder
  <2>1. i \in DOMAIN F /\ F2[i] = F[i]
    BY <1>2
  <2>2. CASE j = Len(F) + 1
    BY <1>2, <2>1, <2>2 DEF TopOK
  <2>3. CASE j # Len(F) + 1
    <3>1. j \in DOMAIN F /\ F2[j] = F[j]
      BY <1>2, <2>3
    <3> QED BY <2>1, <3>1 DEF Stack, InOrder
  <2> QED BY <2>2, <2>3
<1>11. Len(E2) = Len(F2)
  BY <1>2, <1>3, <1>4
<1>12. Stack(p, line, T, F2, E2)
  BY <1>2, <1>3, <1>5, <1>6, <1>8, <1>9, <1>10, <1>11 DEF Stack
<1> QED BY <1>1, <1>12

(* All that is known of the frame on top stays when only its empty lines are marked. *)
LEMMA MarkedFrame ==
  ASSUME NEW p, NEW f \in Frames, NEW x
  PROVE  /\ f \in PageFrames => Marked(p, f, x) \in PageFrames
         /\ f \in ContainerFrames => /\ Marked(p, f, x) \in ContainerFrames
                                     /\ Marked(p, f, x).auto_closed = f.auto_closed
                                     /\ Marked(p, f, x).lineMax = f.lineMax
         /\ f \in ListFrames =>
              /\ Marked(p, f, x) \in ListFrames
              /\ Marked(p, f, x).ddLine = f.ddLine /\ Marked(p, f, x).listTok = f.listTok
              /\ Marked(p, f, x).tight = f.tight /\ Marked(p, f, x).prevEmptyEnd = f.prevEmptyEnd
              /\ Marked(p, f, x).saved = f.saved
         /\ Marked(p, f, x).endLine = f.endLine /\ Marked(p, f, x) \in Frames
         /\ Marked(p, f, x) \in ListFrames => f \in ListFrames
         /\ Marked(p, f, x).hasEmpty = (f.hasEmpty \/ (x < f.endLine /\ Blank(p, x)) \/ Blank(p, x - 1))
<1>1. PICK h \in BOOLEAN : h = (f.hasEmpty \/ (x < f.endLine /\ Blank(p, x)) \/ Blank(p, x - 1))
  OBVIOUS
<1>2. PICK g : g = [f EXCEPT !.hasEmpty = h]
  OBVIOUS
<1>3. Marked(p, f, x) = g
  BY <1>1, <1>2 DEF Marked
<1>4. f \in PageFrames => g \in PageFrames /\ g.endLine = f.endLine /\ g.hasEmpty = h /\ g \notin ListFrames
  BY <1>2 DEF PageFrames, ListFrames
<1>5. f \in ContainerFrames => /\ g \in ContainerFrames /\ g.endLine = f.endLine /\ g.hasEmpty = h
                               /\ g.auto_closed = f.auto_closed /\ g.lineMax = f.lineMax /\ g \notin ListFrames
  BY <1>2 DEF ContainerFrames, ListFrames
<1>6. f \in ListFrames => /\ g \in ListFrames /\ g.endLine = f.endLine /\ g.hasEmpty = h
                          /\ g.ddLine = f.ddLine /\ g.listTok = f.listTok /\ g.tight = f.tight
                          /\ g.prevEmptyEnd = f.prevEmptyEnd /\ g.saved = f.saved
  BY <1>2 DEF ListFrames
<1>7. f \in PageFrames \/ f \in ContainerFrames \/ f \in ListFrames
  BY DEF Frames
<1> QED BY <1>1, <1>3, <1>4, <1>5, <1>6, <1>7 DEF Frames

(* So it is for the frame on top of those of F. *)
LEMMA MarkedTop ==
  ASSUME NEW p, NEW line, NEW T, NEW F, NEW f \in Frames, NEW E, NEW e, NEW x,
         TopOK(p, line, T, F, f, E, e)
  PROVE  TopOK(p, line, T, F, Marked(p, f, x), E, e)
<1>1. PICK g : g = Marked(p, f, x)
  OBVIOUS
<1>2. /\ f \in PageFrames => g \in PageFrames
      /\ f \in ContainerFrames => /\ g \in ContainerFrames
                                  /\ g.auto_closed = f.auto_closed
                                  /\ g.lineMax = f.lineMax
      /\ f \in ListFrames =>
              /\ g \in ListFrames
              /\ g.ddLine = f.ddLine /\ g.listTok = f.listTok
              /\ g.tight = f.tight /\ g.prevEmptyEnd = f.prevEmptyEnd
              /\ g.saved = f.saved
      /\ g.endLine = f.endLine /\ g \in Frames /\ (g \in ListFrames => f \in ListFrames)
  BY <1>1, MarkedFrame
<1>3. ASSUME NEW eo, ContainerOK(p, line, T, f, eo, e)
      PROVE  ContainerOK(p, line, T, g, eo, e)
  BY <1>2, <1>3 DEF ContainerOK
<1>4. ASSUME NEW eo, ListOK(p, line, T, f, eo, e)
      PROVE  ListOK(p, line, T, g, eo, e)
  BY <1>2, <1>4 DEF ListOK
<1>5. TopOK(p, line, T, F, g, E, e)
  BY <1>2, <1>3, <1>4 DEF TopOK, FrameOK
<1> QED BY <1>1, <1>5

-----------------------------------------------------------------------------
(* The marks of a line are at least one blank wide. *)
LEMMA LineFields ==
  ASSUME NEW p, GoodPage(p), NEW l \in DOMAIN p
  PROVE  /\ p[l] \in PageLines /\ p[l].indent \in Nat /\ p[l].marks \in Seq(Nat \ {0, 1})
         /\ p[l].markers \in Nat /\ Origin(p, l) \in Ats /\ l \in Nat
         /\ Origin(p, l).indent = p[l].indent /\ Origin(p, l).marks = p[l].marks
         /\ p[l].marks # <<>> =>
              /\ Entered(p, l) \in Ats /\ Entered(p, l).indent \in Nat
              /\ Entered(p, l).indent >= p[l].indent + 2
              /\ ~Blank(p, l)
<1>1. p \in Seq(PageLines)
  BY DEF GoodPage
<1>2. p[l] \in PageLines /\ l \in Nat
  BY <1>1
<1>3. /\ p[l].indent \in Nat /\ p[l].marks \in Seq(Nat \ {0, 1}) /\ p[l].markers \in Nat
  BY <1>2 DEF PageLines
<1>4. ASSUME p[l].marks # <<>>
      PROVE  /\ Entered(p, l) \in Ats /\ Entered(p, l).indent \in Nat
             /\ Entered(p, l).indent >= p[l].indent + 2
             /\ ~Blank(p, l)
  <2>1. PICK h, r : h = Head(p[l].marks) /\ r = Tail(p[l].marks)
    OBVIOUS
  <2>2. h \in Nat \ {0, 1} /\ r \in Seq(Nat \ {0, 1})
    BY <1>3, <1>4, <2>1
  <2>3. h \in Nat /\ h >= 2
    BY <2>2
  <2>4. PICK n \in Nat : n = p[l].indent + h
    BY <1>3, <2>3
  <2>5. n >= p[l].indent + 2
    BY <1>3, <2>3, <2>4
  <2>6. Entered(p, l) = [indent |-> n, marks |-> r]
    BY <2>1, <2>4 DEF Entered
  <2>7. Entered(p, l) \in Ats /\ Entered(p, l).indent = n
    BY <2>2, <2>6 DEF Ats
  <2>8. ~Blank(p, l)
    BY <1>3, <1>4 DEF GoodPage, Blank
  <2> QED BY <2>4, <2>5, <2>7, <2>8
<1> QED BY <1>2, <1>3, <1>4 DEF Origin, Ats

(* Only marks of definitions that are being read are off. *)
LEMMA AtIsAt ==
  ASSUME NEW p, NEW at, NEW F, AtInv(p, at, F)
  PROVE  IsAt(p, at)
BY DEF AtInv, IsAt

(* A line has its indent at the least. *)
LEMMA AtIndent ==
  ASSUME NEW p, GoodPage(p), NEW at, NEW F, AtInv(p, at, F), NEW l \in DOMAIN p
  PROVE  at[l].indent \in Nat /\ at[l].indent >= p[l].indent /\ p[l].indent \in Nat
<1>1. p[l].indent \in Nat /\ Origin(p, l).indent = p[l].indent
  BY LineFields
<1>2. CASE at[l] = Origin(p, l)
  BY <1>1, <1>2
<1>3. CASE p[l].marks # <<>> /\ at[l] = Entered(p, l)
  <2>1. Entered(p, l).indent \in Nat /\ Entered(p, l).indent >= p[l].indent + 2
    BY <1>3, LineFields
  <2> QED BY <1>1, <1>3, <2>1
<1> QED BY <1>2, <1>3 DEF AtInv

(* The definitions of one frame more. *)
LEMMA EntersOneMore ==
  ASSUME NEW F \in Seq(Frames), NEW f \in Frames, NEW l
  PROVE  Enters(Append(F, f), l) <=> Enters(F, l) \/ (f \in ListFrames /\ f.ddLine = l)
<1>1. PICK F2 : F2 = Append(F, f)
  OBVIOUS
<1>2. /\ DOMAIN F2 = 1..(Len(F) + 1) /\ DOMAIN F = 1..Len(F) /\ Len(F) \in Nat
      /\ F2[Len(F) + 1] = f /\ \A k \in DOMAIN F : F2[k] = F[k]
  BY <1>1, OnFrames
<1>3. Len(F) + 1 \in DOMAIN F2 /\ \A k \in DOMAIN F : k \in DOMAIN F2
  BY <1>2
<1>4. \A k \in DOMAIN F2 : k \in DOMAIN F \/ k = Len(F) + 1
  BY <1>2
<1>5. Enters(F2, l) <=> Enters(F, l) \/ (f \in ListFrames /\ f.ddLine = l)
  BY <1>2, <1>3, <1>4 DEF Enters
<1> QED BY <1>1, <1>5

(* A frame that is no list leaves the lines alone. *)
LEMMA AtAside ==
  ASSUME NEW p, NEW at, NEW F \in Seq(Frames), NEW f \in Frames, f \notin ListFrames
  PROVE  AtInv(p, at, Append(F, f)) <=> AtInv(p, at, F)
<1>1. \A l : Enters(Append(F, f), l) <=> Enters(F, l)
  BY EntersOneMore
<1> QED BY <1>1 DEF AtInv

(* Marking the empty lines of a frame leaves the lines alone. *)
LEMMA AtMarked ==
  ASSUME NEW p, NEW at, NEW F \in Seq(Frames), NEW f \in Frames, NEW x
  PROVE  AtInv(p, at, Append(F, Marked(p, f, x))) <=> AtInv(p, at, Append(F, f))
<1>1. PICK g \in Frames : g = Marked(p, f, x)
  BY MarkedFrame
<1>2. g \in ListFrames <=> f \in ListFrames
  BY <1>1, MarkedFrame
<1>3. f \in ListFrames => g.ddLine = f.ddLine
  BY <1>1, MarkedFrame
<1>4. \A l : Enters(Append(F, g), l) <=> Enters(Append(F, f), l)
  BY <1>2, <1>3, EntersOneMore
<1>5. AtInv(p, at, Append(F, g)) <=> AtInv(p, at, Append(F, f))
  BY <1>4 DEF AtInv
<1> QED BY <1>1, <1>5

(* A definition begins: the mark is taken off its line. *)
LEMMA AtEnters ==
  ASSUME NEW p, GoodPage(p), NEW at, NEW F \in Seq(Frames), NEW f \in ListFrames,
         AtInv(p, at, F), f.ddLine \in DOMAIN p, ~Enters(F, f.ddLine), p[f.ddLine].marks # <<>>
  PROVE  AtInv(p, EnteredAt(at, f.ddLine), Append(F, f))
<1>0. f \in Frames
  BY DEF Frames
<1>1. PICK l \in DOMAIN p : l = f.ddLine
  OBVIOUS
<1>2. at[l] = Origin(p, l) /\ at \in Seq(Ats) /\ DOMAIN at = DOMAIN p
  BY <1>1 DEF AtInv
<1>3. EnteredAt(at, l) = [at EXCEPT ![l] = Entered(p, l)]
  BY <1>2 DEF EnteredAt, Entered, Origin
<1>4. PICK at2 : at2 = EnteredAt(at, l)
  OBVIOUS
<1>5. Entered(p, l) \in Ats
  BY <1>1, LineFields
<1>6. at2 \in Seq(Ats) /\ DOMAIN at2 = DOMAIN p /\ at2[l] = Entered(p, l)
      /\ \A k \in DOMAIN p : k # l => at2[k] = at[k]
  BY <1>2, <1>3, <1>4, <1>5
<1>7. \A k : Enters(Append(F, f), k) <=> Enters(F, k) \/ l = k
  BY <1>0, <1>1, EntersOneMore
<1>8. AtInv(p, at2, Append(F, f))
  BY <1>1, <1>6, <1>7 DEF AtInv
<1> QED BY <1>1, <1>4, <1>8

(* A definition ends: its line is as it was in the page. *)
LEMMA AtRestores ==
  ASSUME NEW p, GoodPage(p), NEW at, NEW F \in Seq(Frames), NEW f \in ListFrames,
         AtInv(p, at, Append(F, f)), ~Enters(F, f.ddLine), f.ddLine \in DOMAIN p,
         f.saved.at = Origin(p, f.ddLine)
  PROVE  AtInv(p, Restored(at, f), F)
<1>0. f \in Frames
  BY DEF Frames
<1>1. PICK l \in DOMAIN p : l = f.ddLine
  OBVIOUS
<1>2. at \in Seq(Ats) /\ DOMAIN at = DOMAIN p
  BY DEF AtInv
<1>3. PICK at2 : at2 = Restored(at, f)
  OBVIOUS
<1>4. at2 = [at EXCEPT ![l] = Origin(p, l)]
  BY <1>1, <1>3 DEF Restored
<1>5. Origin(p, l) \in Ats
  BY LineFields
<1>6. at2 \in Seq(Ats) /\ DOMAIN at2 = DOMAIN p /\ at2[l] = Origin(p, l)
      /\ \A k \in DOMAIN p : k # l => at2[k] = at[k]
  BY <1>2, <1>4, <1>5
<1>7. \A k : Enters(Append(F, f), k) <=> Enters(F, k) \/ l = k
  BY <1>0, <1>1, EntersOneMore
<1>8. AtInv(p, at2, F)
  BY <1>1, <1>6, <1>7 DEF AtInv
<1> QED BY <1>3, <1>8

-----------------------------------------------------------------------------
(* New tokens of which only c is of lines: those from line to line2. *)
LEMMA CoverGrows ==
  ASSUME NEW p, p \in Seq(PageLines), NEW T \in Seq(BlockTokens), NEW U \in Seq(BlockTokens),
         NEW line \in Nat, NEW line2 \in Nat, line <= line2, Grown(T, U), CoverInv(p, T, line),
         NEW c \in DOMAIN U, c \notin DOMAIN T,
         \A k \in DOMAIN U, l \in DOMAIN p : k \notin DOMAIN T /\ k # c => ~Covers(U[k], l),
         \A l \in DOMAIN p : Covers(U[c], l) => line <= l /\ l < line2,
         \A l \in DOMAIN p : line <= l /\ l < line2 /\ ~Blank(p, l) => Covers(U[c], l)
  PROVE  CoverInv(p, U, line2)
<1>1. \A k \in DOMAIN T : k \in DOMAIN U /\ U[k] = T[k]
  BY DEF Grown
<1>2. ASSUME NEW l \in DOMAIN p, ~Blank(p, l), l < line2
      PROVE  \E i \in DOMAIN U : Covers(U[i], l) /\ \A j \in DOMAIN U : Covers(U[j], l) => j = i
  <2>1. l \in Nat
    OBVIOUS
  <2>2. CASE l < line
    <3>1. PICK i \in DOMAIN T : Covers(T[i], l) /\ \A j \in DOMAIN T : Covers(T[j], l) => j = i
      BY <1>2, <2>2 DEF CoverInv
    <3>2. ~Covers(U[c], l)
      BY <2>1, <2>2
    <3>3. \A j \in DOMAIN U : Covers(U[j], l) => j \in DOMAIN T
      BY <3>2
    <3> QED BY <1>1, <3>1, <3>3
  <2>3. CASE l >= line
    <3>1. Covers(U[c], l)
      BY <1>2, <2>3
    <3>2. \A j \in DOMAIN T : ~Covers(T[j], l)
      BY <2>3 DEF CoverInv
    <3>3. \A j \in DOMAIN U : Covers(U[j], l) => j = c
      BY <1>1, <3>2
    <3> QED BY <3>1, <3>3
  <2> QED BY <2>1, <2>2, <2>3
<1>3. ASSUME NEW l \in DOMAIN p, l >= line2, NEW i \in DOMAIN U
      PROVE  ~Covers(U[i], l)
  <2>1. l \in Nat /\ l >= line /\ ~ (l < line2)
    BY <1>3
  <2>2. CASE i \in DOMAIN T
    BY <1>1, <2>1, <2>2 DEF CoverInv
  <2>3. CASE i \notin DOMAIN T
    BY <2>1, <2>3
  <2> QED BY <2>2, <2>3
<1> QED BY <1>2, <1>3 DEF CoverInv

(* New tokens of no lines. *)
LEMMA CoverStays ==
  ASSUME NEW p, p \in Seq(PageLines), NEW T \in Seq(BlockTokens), NEW U \in Seq(BlockTokens),
         NEW line \in Nat, NEW line2 \in Nat, line <= line2, Grown(T, U), CoverInv(p, T, line),
         \A k \in DOMAIN U, l \in DOMAIN p : k \notin DOMAIN T => ~Covers(U[k], l),
         \A l \in DOMAIN p : line <= l /\ l < line2 => Blank(p, l)
  PROVE  CoverInv(p, U, line2)
<1>1. \A k \in DOMAIN T : k \in DOMAIN U /\ U[k] = T[k]
  BY DEF Grown
<1>2. ASSUME NEW l \in DOMAIN p, ~Blank(p, l), l < line2
      PROVE  \E i \in DOMAIN U : Covers(U[i], l) /\ \A j \in DOMAIN U : Covers(U[j], l) => j = i
  <2>1. l \in Nat
    OBVIOUS
  <2>2. l < line
    BY <1>2, <2>1
  <2>3. PICK i \in DOMAIN T : Covers(T[i], l) /\ \A j \in DOMAIN T : Covers(T[j], l) => j = i
    BY <1>2, <2>2 DEF CoverInv
  <2> QED BY <1>1, <2>3
<1>3. ASSUME NEW l \in DOMAIN p, l >= line2, NEW i \in DOMAIN U
      PROVE  ~Covers(U[i], l)
  <2>1. l \in Nat /\ l >= line
    BY <1>3
  <2> QED BY <1>1, <2>1 DEF CoverInv
<1> QED BY <1>2, <1>3 DEF CoverInv

-----------------------------------------------------------------------------
(* A frame is of one rule. *)
LEMMA FramesDiffer ==
  ASSUME NEW f
  PROVE  /\ f \in ListFrames => f.rule = "deflist" /\ f \notin ContainerFrames /\ f \notin PageFrames
         /\ f \in ContainerFrames => f.rule = "container" /\ f \notin ListFrames /\ f \notin PageFrames
         /\ f \in PageFrames => f.rule = "page" /\ f \notin ListFrames /\ f \notin ContainerFrames
<1>1. f \in ListFrames => f.rule = "deflist"
  BY DEF ListFrames
<1>2. f \in ContainerFrames => f.rule = "container"
  BY DEF ContainerFrames
<1>3. f \in PageFrames => f.rule = "page"
  BY DEF PageFrames
<1> QED BY <1>1, <1>2, <1>3

(* The definition of a list that is being read has a token. *)
LEMMA ListsOpen ==
  ASSUME NEW p, NEW line, NEW T, NEW F, NEW E, Stack(p, line, T, F, E), NEW i \in DOMAIN F,
         F[i] \in ListFrames
  PROVE  /\ i \in 2..Len(F) /\ ListOK(p, line, T, F[i], E[i - 1], E[i])
         /\ i \in DOMAIN E /\ E[i] \in Ghosts /\ E[i].tok \in DOMAIN T
<1>1. F \in Seq(Frames) /\ E \in Seq(Ghosts) /\ Len(E) = Len(F) /\ F # <<>>
  BY DEF Stack
<1>2. F[1] \in PageFrames
  BY <1>1 DEF Stack
<1>3. i # 1
  BY <1>2, FramesDiffer
<1>4. i \in 2..Len(F) /\ i \in DOMAIN E
  BY <1>1, <1>3
<1>5. FrameOK(p, line, T, F[i], E[i - 1], E[i])
  BY <1>4 DEF Stack
<1>6. F[i] \notin ContainerFrames
  BY FramesDiffer
<1>7. ListOK(p, line, T, F[i], E[i - 1], E[i])
  BY <1>5, <1>6 DEF FrameOK, ContainerOK
<1> QED BY <1>1, <1>4, <1>7 DEF ListOK, IsOpen

-----------------------------------------------------------------------------
(* Only a token that begins a block on the level of the definition counts. *)
LEMMA PartedStays ==
  ASSUME NEW p, NEW T \in Seq(BlockTokens), NEW U \in Seq(BlockTokens), NEW e, e.tok \in DOMAIN T,
         Grown(T, U),
         \A k \in DOMAIN U : k \notin DOMAIN T => ~ (U[k].level = e.level /\ Begins(U[k]))
  PROVE  /\ AnyParted(p, U, e) <=> AnyParted(p, T, e)
         /\ \A k : Block(U, k, e) <=> Block(T, k, e)
<1>1. \A k \in DOMAIN T : k \in DOMAIN U /\ U[k] = T[k] /\ k \in Nat
  BY DEF Grown
<1>2. e.tok \in Nat /\ e.tok \in 1..Len(T)
  OBVIOUS
<1>3. ASSUME NEW k \in DOMAIN T, k > e.tok
      PROVE  Parted(p, U, k, e.level) <=> Parted(p, T, k, e.level)
  <2>1. k - 1 \in DOMAIN T
    BY <1>2, <1>3
  <2> QED BY <1>1, <2>1 DEF Parted
<1>4. ASSUME NEW k \in DOMAIN U, Parted(p, U, k, e.level)
      PROVE  k \in DOMAIN T
  BY <1>4 DEF Parted
<1>5. AnyParted(p, U, e) <=> AnyParted(p, T, e)
  BY <1>1, <1>3, <1>4 DEF AnyParted
<1>6. \A k : Block(U, k, e) <=> Block(T, k, e)
  BY <1>1 DEF Block
<1> QED BY <1>5, <1>6

(* So what waits goes on waiting. *)
LEMMA SuspendedStays ==
  ASSUME NEW p, NEW T \in Seq(BlockTokens), NEW U \in Seq(BlockTokens), NEW f, NEW e,
         f \in ListFrames => e.tok \in DOMAIN T, Grown(T, U), Suspended(p, T, f, e),
         \A k \in DOMAIN U : k \notin DOMAIN T => ~ (U[k].level = e.level /\ Begins(U[k]))
  PROVE  Suspended(p, U, f, e)
<1> SUFFICES ASSUME f \in ListFrames
             PROVE  (\E k : Block(U, k, e)) /\ (f.hasEmpty <=> AnyParted(p, U, e))
  BY DEF Suspended
<1>1. (\E k : Block(T, k, e)) /\ (f.hasEmpty <=> AnyParted(p, T, e))
  BY DEF Suspended
<1>2. /\ AnyParted(p, U, e) <=> AnyParted(p, T, e)
      /\ \A k : Block(U, k, e) <=> Block(T, k, e)
  BY PartedStays
<1> QED BY <1>1, <1>2

(* Tokens within the frame on top say nothing of those below it. *)
LEMMA AllSuspendedStays ==
  ASSUME NEW p, NEW line, NEW T \in Seq(BlockTokens), NEW U \in Seq(BlockTokens), NEW F, NEW E,
         Stack(p, line, T, F, E), Grown(T, U), AllSuspended(p, T, F, E),
         \A k \in DOMAIN U, i \in DOMAIN E : k \notin DOMAIN T => U[k].level # E[i].level
  PROVE  AllSuspended(p, U, F, E)
<1> SUFFICES ASSUME NEW i \in DOMAIN F
             PROVE  Suspended(p, U, F[i], E[i])
  BY DEF AllSuspended
<1>1. F[i] \in ListFrames => E[i].tok \in DOMAIN T
  BY ListsOpen
<1>2. i \in DOMAIN E
  BY DEF Stack
<1>3. Suspended(p, T, F[i], E[i])
  BY DEF AllSuspended
<1> QED BY <1>1, <1>2, <1>3, SuspendedStays

(* The frame on top waits as well. *)
LEMMA SuspendedPush ==
  ASSUME NEW p, NEW T, NEW F \in Seq(Frames), NEW f \in Frames, NEW E \in Seq(Ghosts), NEW e \in Ghosts,
         Len(E) = Len(F)
  PROVE  AllSuspended(p, T, Append(F, f), Append(E, e))
           <=> AllSuspended(p, T, F, E) /\ Suspended(p, T, f, e)
<1>1. PICK F2, E2 : F2 = Append(F, f) /\ E2 = Append(E, e)
  OBVIOUS
<1>2. /\ DOMAIN F2 = 1..(Len(F) + 1) /\ DOMAIN F = 1..Len(F) /\ Len(F) \in Nat
      /\ F2[Len(F) + 1] = f /\ \A k \in DOMAIN F : F2[k] = F[k]
  BY <1>1, OnFrames
<1>3. DOMAIN E = 1..Len(E) /\ E2[Len(E) + 1] = e /\ \A k \in DOMAIN E : E2[k] = E[k]
  BY <1>1, OnFrames
<1>4. DOMAIN E = DOMAIN F /\ E2[Len(F) + 1] = e
  BY <1>2, <1>3
<1>5. Len(F) + 1 \in DOMAIN F2 /\ \A k \in DOMAIN F : k \in DOMAIN F2
  BY <1>2
<1>6. \A k \in DOMAIN F2 : k \in DOMAIN F \/ k = Len(F) + 1
  BY <1>2
<1>7. AllSuspended(p, T, F2, E2) <=> AllSuspended(p, T, F, E) /\ Suspended(p, T, f, e)
  BY <1>2, <1>3, <1>4, <1>5, <1>6 DEF AllSuspended
<1> QED BY <1>1, <1>7

-----------------------------------------------------------------------------
(* A block begins on the next line that is not empty. *)
LEMMA BlockBegins ==
  ASSUME NEW p, NEW line \in Nat, NEW tight, NEW T \in Seq(BlockTokens), NEW t \in BlockTokens, NEW U,
         NEW f, NEW e \in Ghosts,
         f \in ListFrames => e.tok \in DOMAIN T /\ T[e.tok].type = "dd_open",
         NEW s \in Nat, line <= s, s <= e.lineMax, \A k \in line..(s - 1) : Blank(p, k),
         OnTop(p, line, tight, T, f, e), U = Append(T, t),
         t.level = e.level, Begins(t), t.from = s
  PROVE  Suspended(p, U, f, e)
<1> SUFFICES ASSUME f \in ListFrames
             PROVE  (\E k : Block(U, k, e)) /\ (f.hasEmpty <=> AnyParted(p, U, e))
  BY DEF Suspended
<1>1. /\ U \in Seq(BlockTokens) /\ Len(T) \in Nat /\ U[Len(T) + 1] = t /\ Len(T) + 1 \in DOMAIN U
      /\ DOMAIN T = 1..Len(T)
      /\ \A k \in DOMAIN T : k \in DOMAIN U /\ U[k] = T[k]
      /\ \A k \in DOMAIN U : k \in Nat /\ (k \in DOMAIN T \/ k = Len(T) + 1)
  BY Appended
<1>2. e.tok \in DOMAIN T /\ e.tok \in Nat /\ e.tok <= Len(T) /\ T[e.tok].type = "dd_open"
      /\ 1 <= e.tok /\ Len(T) \in DOMAIN T
  BY <1>1
<1>3. Block(U, Len(T) + 1, e)
  BY <1>1, <1>2 DEF Block
<1>4. U[(Len(T) + 1) - 1] = T[Len(T)]
  BY <1>1, <1>2
<1>5. Parted(p, U, Len(T) + 1, e.level) <=> Blank(p, s - 1) /\ T[Len(T)].type \notin {"dd_open", "dt_open"}
  BY <1>1, <1>4 DEF Parted, Apart
<1>6. ASSUME NEW k \in DOMAIN T, k > e.tok
      PROVE  Parted(p, U, k, e.level) <=> Parted(p, T, k, e.level)
  <2>1. k - 1 \in DOMAIN T
    BY <1>1, <1>2, <1>6
  <2> QED BY <1>1, <2>1 DEF Parted
<1>7. AnyParted(p, U, e) <=> AnyParted(p, T, e) \/ Parted(p, U, Len(T) + 1, e.level)
  <2>1. Len(T) + 1 > e.tok
    BY <1>1, <1>2
  <2> QED BY <1>1, <1>6, <2>1 DEF AnyParted
<1>8. CASE \E k : Block(T, k, e)
  <2>1. /\ f.hasEmpty <=> AnyParted(p, T, e) \/ Blank(p, line - 1)
        /\ line < e.lineMax /\ Blank(p, line) => Blank(p, line - 1)
        /\ T[Len(T)].type \notin {"dd_open", "dt_open"}
    BY <1>8 DEF OnTop
  <2>2. Blank(p, line - 1) <=> Blank(p, s - 1)
    <3>1. CASE s = line
      BY <3>1
    <3>2. CASE s # line
      <4>1. line \in line..(s - 1) /\ s - 1 \in line..(s - 1) /\ line < s
        BY <3>2
      <4>2. Blank(p, line) /\ Blank(p, s - 1)
        BY <4>1
      <4>3. line < e.lineMax
        BY <4>1 DEF Ghosts
      <4> QED BY <2>1, <4>2, <4>3
    <3> QED BY <3>1, <3>2
  <2> QED BY <1>3, <1>5, <1>7, <2>1, <2>2
<1>9. CASE ~ \E k : Block(T, k, e)
  <2>1. ~f.hasEmpty /\ Len(T) = e.tok
    BY <1>9 DEF OnTop
  <2>2. ~AnyParted(p, T, e)
    <3>1. \A k \in DOMAIN T : ~ (k > e.tok)
      BY <1>1, <1>2, <2>1
    <3> QED BY <3>1 DEF AnyParted
  <2>3. ~Parted(p, U, Len(T) + 1, e.level)
    BY <1>2, <1>5, <2>1
  <2> QED BY <1>3, <1>7, <2>1, <2>2, <2>3
<1> QED BY <1>8, <1>9

(* What a frame knows of empty lines when a block of it ends before line x. *)
LEMMA BlockEnds ==
  ASSUME NEW p, NEW T, NEW f \in Frames, NEW e \in Ghosts, f.endLine = e.lineMax, NEW x \in Nat,
         Suspended(p, T, f, e), T[Len(T)].type \notin {"dd_open", "dt_open"}
  PROVE  OnTop(p, Behind(p, f, x), ~f.hasEmpty, T, Marked(p, f, x), e)
<1>1. PICK g : g = Marked(p, f, x)
  OBVIOUS
<1>2. g \in ListFrames => f \in ListFrames
  BY <1>1, MarkedFrame
<1>3. g.hasEmpty = (f.hasEmpty \/ (x < f.endLine /\ Blank(p, x)) \/ Blank(p, x - 1))
  BY <1>1, MarkedFrame
<1>4. PICK y : y = Behind(p, f, x)
  OBVIOUS
<1>5. CASE x < f.endLine /\ Blank(p, x)
  <2>1. y = x + 1 /\ y - 1 = x
    BY <1>4, <1>5 DEF Behind
  <2>2. OnTop(p, y, ~f.hasEmpty, T, g, e)
    BY <1>2, <1>3, <1>5, <2>1 DEF OnTop, Suspended
  <2> QED BY <1>1, <1>4, <2>2
<1>6. CASE ~ (x < f.endLine /\ Blank(p, x))
  <2>1. y = x
    BY <1>4, <1>6 DEF Behind
  <2>2. OnTop(p, y, ~f.hasEmpty, T, g, e)
    BY <1>2, <1>3, <1>6, <2>1 DEF OnTop, Suspended
  <2> QED BY <1>1, <1>4, <2>2
<1> QED BY <1>5, <1>6

-----------------------------------------------------------------------------
(* What the frame of a list and the state say of empty lines is so for all its tokens. *)
LEMMA LooseSoFar ==
  ASSUME NEW p, NEW line, NEW T \in Seq(BlockTokens), NEW f, NEW eo \in Ghosts, NEW e \in Ghosts, NEW tight,
         ListOK(p, line, T, f, eo, e), tight <=> ~AnyParted(p, T, e)
  PROVE  (f.tight /\ tight /\ ~f.prevEmptyEnd) <=> ~Loose(p, T, f.listTok, Len(T))
<1>1. PICK i, c, lev : i = f.listTok /\ c = e.tok /\ lev = e.level
  OBVIOUS
<1>2. /\ lev \in Nat /\ T[i].level = lev - 2 /\ T[c].level = lev - 1 /\ i \in DOMAIN T /\ c \in DOMAIN T
      /\ i < c /\ \A j \in DOMAIN T : j > c => T[j].level >= lev
  <2>1. IsOpen(T, lev, c) /\ IsOpen(T, lev - 1, i) /\ i < c /\ lev \in Nat
    BY <1>1 DEF ListOK, Ghosts
  <2> QED BY <2>1 DEF IsOpen
<1>3. i \in Nat /\ c \in Nat /\ Len(T) \in Nat /\ DOMAIN T = 1..Len(T) /\ 1 <= i /\ c <= Len(T)
  BY <1>2
<1>4. f.tight <=> ~Loose(p, T, i, c - 1)
  BY <1>1 DEF ListOK
<1>5. f.prevEmptyEnd <=> Split(p, T, c, lev - 1)
  BY <1>1 DEF ListOK
<1>6. T[i].level + 2 = lev /\ T[i].level + 1 = lev - 1
  BY <1>2
<1> DEFINE P(k) == Parted(p, T, k, lev) \/ Split(p, T, k, lev - 1)
<1>7. /\ Loose(p, T, i, c - 1) <=> \E k \in i..(c - 1) : P(k)
      /\ Loose(p, T, i, Len(T)) <=> \E k \in i..Len(T) : P(k)
  BY <1>6 DEF Loose
<1>8. P(c) <=> f.prevEmptyEnd
  <2>1. ~Parted(p, T, c, lev)
    BY <1>2 DEF Parted
  <2> QED BY <1>5, <2>1
<1>9. \A k \in DOMAIN T : k > c => (P(k) <=> Parted(p, T, k, lev))
  <2> SUFFICES ASSUME NEW k \in DOMAIN T, k > c
               PROVE  ~Split(p, T, k, lev - 1)
    OBVIOUS
  <2>1. T[k].level >= lev /\ T[k].level \in Nat
    BY <1>2, TokenFields
  <2> QED BY <1>2, <2>1 DEF Split
<1>10. AnyParted(p, T, e) <=> \E k \in DOMAIN T : k > c /\ P(k)
  BY <1>1, <1>9 DEF AnyParted
<1> HIDE DEF P
<1>11. \A k \in i..Len(T) : k \in i..(c - 1) \/ k = c \/ (k \in DOMAIN T /\ k > c)
  BY <1>3
<1>12. /\ \A k \in i..(c - 1) : k \in i..Len(T)
       /\ c \in i..Len(T)
       /\ \A k \in DOMAIN T : k > c => k \in i..Len(T)
  BY <1>2, <1>3
<1>13. (\E k \in i..Len(T) : P(k))
         <=> (\E k \in i..(c - 1) : P(k)) \/ P(c) \/ (\E k \in DOMAIN T : k > c /\ P(k))
  BY <1>11, <1>12
<1>14. (f.tight /\ tight /\ ~f.prevEmptyEnd) <=> ~Loose(p, T, i, Len(T))
  BY <1>4, <1>7, <1>8, <1>10, <1>13
<1> QED BY <1>1, <1>14

(* More tokens, none of which an empty line parts from the one before it. *)
LEMMA LooseMore ==
  ASSUME NEW p, NEW T \in Seq(BlockTokens), NEW U \in Seq(BlockTokens), NEW i \in DOMAIN T, NEW n \in Nat,
         Grown(T, U), Len(T) <= n,
         \A k \in (Len(T) + 1)..n : ~Parted(p, U, k, T[i].level + 2) /\ ~Split(p, U, k, T[i].level + 1)
  PROVE  Loose(p, U, i, n) <=> Loose(p, T, i, Len(T))
<1>1. i \in Nat /\ Len(T) \in Nat /\ Len(T) \in DOMAIN T /\ U[i] = T[i] /\ i <= Len(T)
  BY DEF Grown
<1>2. Loose(p, U, i, Len(T)) <=> Loose(p, T, i, Len(T))
  BY <1>1, LooseStays
<1>3. \A k \in i..n : k \in i..Len(T) \/ k \in (Len(T) + 1)..n
  BY <1>1
<1>4. \A k \in i..Len(T) : k \in i..n
  BY <1>1
<1>5. Loose(p, U, i, n) <=> Loose(p, U, i, Len(T))
  BY <1>1, <1>3, <1>4 DEF Loose
<1> QED BY <1>2, <1>5

-----------------------------------------------------------------------------
(* M is T with some paragraphs hidden. *)
SameButHidden(T, M) ==
  /\ DOMAIN M = DOMAIN T
  /\ \A k \in DOMAIN T : M[k].type = T[k].type /\ M[k].level = T[k].level
                           /\ M[k].from = T[k].from /\ M[k].to = T[k].to

(* Hiding the paragraphs of a list changes no more of the tokens. *)
LEMMA TightenedTokens ==
  ASSUME NEW T \in Seq(BlockTokens), NEW lev \in Nat, NEW i \in Nat, NEW M, M = Tightened(T, lev, i)
  PROVE  /\ M \in Seq(BlockTokens) /\ Len(M) = Len(T) /\ SameButHidden(T, M)
         /\ \A k \in DOMAIN T : k <= i + 1 \/ T[k].level # lev + 2 => M[k] = T[k]
         /\ \A k \in DOMAIN T : k > i + 1 /\ T[k].level = lev + 2 /\ T[k].type = "paragraph_open" => M[k].hidden
<1>1. ASSUME NEW k \in DOMAIN T
      PROVE  /\ M[k] \in BlockTokens
             /\ M[k].type = T[k].type /\ M[k].level = T[k].level
             /\ M[k].from = T[k].from /\ M[k].to = T[k].to
             /\ (k <= i + 1 \/ T[k].level # lev + 2 => M[k] = T[k])
             /\ (k > i + 1 /\ T[k].level = lev + 2 /\ T[k].type = "paragraph_open" => M[k].hidden)
  <2>1. T[k] \in BlockTokens /\ k \in Nat
    BY TokenFields
  <2>2. PICK t : t = [T[k] EXCEPT !.hidden = TRUE]
    OBVIOUS
  <2>3. /\ t \in BlockTokens /\ t.type = T[k].type /\ t.level = T[k].level /\ t.from = T[k].from
        /\ t.to = T[k].to /\ t.hidden = TRUE
    BY <2>1, <2>2 DEF BlockTokens
  <2>4. M[k] = IF k > i + 1 /\ T[k].level = lev + 2 /\ T[k].type \in {"paragraph_open", "paragraph_close"}
               THEN t ELSE T[k]
    BY <2>2 DEF Tightened
  <2>5. k <= i + 1 <=> ~ (k > i + 1)
    BY <2>1
  <2> HIDE <2>2
  <2> QED BY <2>1, <2>3, <2>4, <2>5
<1>2. DOMAIN M = DOMAIN T /\ DOMAIN T = 1..Len(T) /\ Len(T) \in Nat
  BY DEF Tightened
<1>3. M = [k \in 1..Len(T) |-> M[k]]
  BY <1>2 DEF Tightened
<1>4. M \in Seq(BlockTokens) /\ Len(M) = Len(T)
  <2>1. \A k \in 1..Len(T) : M[k] \in BlockTokens
    BY <1>1, <1>2
  <2> QED BY <1>2, <1>3, <2>1
<1> QED BY <1>1, <1>2, <1>4 DEF SameButHidden

(* Nothing but HiddenRight depends on what is hidden. *)
LEMMA HiddenNothingElse ==
  ASSUME NEW p, NEW T \in Seq(BlockTokens), NEW M \in Seq(BlockTokens), SameButHidden(T, M)
  PROVE  /\ \A k, g : IsOpen(M, k, g) <=> IsOpen(T, k, g)
         /\ \A i, j : Matched(p, M, i, j) <=> Matched(p, T, i, j)
         /\ \A k \in DOMAIN T : isLeaf(M[k]) <=> isLeaf(T[k])
         /\ \A k \in DOMAIN T : \A l : Covers(M[k], l) <=> Covers(T[k], l)
         /\ \A k \in DOMAIN T : FenceAlone(p, M[k]) <=> FenceAlone(p, T[k])
         /\ \A k \in DOMAIN T : \A lev : k - 1 \in DOMAIN T =>
              /\ Parted(p, M, k, lev) <=> Parted(p, T, k, lev)
              /\ Split(p, M, k, lev) <=> Split(p, T, k, lev)
         /\ \A e, k : Block(M, k, e) <=> Block(T, k, e)
<1>1. DOMAIN M = DOMAIN T /\ \A k \in DOMAIN T : M[k].type = T[k].type /\ M[k].level = T[k].level
                           /\ M[k].from = T[k].from /\ M[k].to = T[k].to
  BY DEF SameButHidden
<1>2. \A k, g : IsOpen(M, k, g) <=> IsOpen(T, k, g)
  BY <1>1 DEF IsOpen
<1>3. \A k \in DOMAIN T : /\ isLeaf(M[k]) <=> isLeaf(T[k])
                          /\ Begins(M[k]) <=> Begins(T[k])
  BY <1>1 DEF isLeaf, Begins
<1>4. \A k \in DOMAIN T : \A l : Covers(M[k], l) <=> Covers(T[k], l)
  BY <1>1, <1>3 DEF Covers
<1>5. \A k \in DOMAIN T : FenceAlone(p, M[k]) <=> FenceAlone(p, T[k])
  BY <1>1 DEF FenceAlone
<1>6. \A k \in DOMAIN T : \A lev : k - 1 \in DOMAIN T =>
        /\ Parted(p, M, k, lev) <=> Parted(p, T, k, lev)
        /\ Split(p, M, k, lev) <=> Split(p, T, k, lev)
  BY <1>1, <1>3 DEF Parted, Split, Apart
<1>7. \A e, k : Block(M, k, e) <=> Block(T, k, e)
  BY <1>1, <1>3 DEF Block
<1>8. ASSUME NEW i, NEW j
      PROVE  Matched(p, M, i, j) <=> Matched(p, T, i, j)
  <2>1. CASE i \in DOMAIN T /\ j \in DOMAIN T
    <3>1. \A k \in (i + 1)..(j - 1) : k \in DOMAIN T
      BY <2>1
    <3>2. \A k \in (i + 1)..(j - 1) : /\ M[k].level = T[k].level /\ M[k].from = T[k].from
                                      /\ M[k].to = T[k].to /\ (isLeaf(M[k]) <=> isLeaf(T[k]))
      BY <1>1, <1>3, <3>1
    <3> QED BY <1>1, <2>1, <3>2 DEF Matched
  <2>2. CASE ~ (i \in DOMAIN T /\ j \in DOMAIN T)
    BY <1>1, <2>2 DEF Matched
  <2> QED BY <2>1, <2>2
<1> QED BY <1>2, <1>3, <1>4, <1>5, <1>6, <1>7, <1>8

(* Nor does it depend on that whether a list is loose. *)
LEMMA HiddenLoose ==
  ASSUME NEW p, NEW T \in Seq(BlockTokens), NEW M \in Seq(BlockTokens), SameButHidden(T, M),
         NEW i \in DOMAIN T, NEW n \in Nat, n <= Len(T)
  PROVE  Loose(p, M, i, n) <=> Loose(p, T, i, n)
<1>1. i \in Nat /\ T[i].level \in Nat /\ M[i].level = T[i].level
  BY TokenFields DEF SameButHidden
<1>2. ASSUME NEW k \in i..n
      PROVE  /\ Parted(p, M, k, M[i].level + 2) <=> Parted(p, T, k, T[i].level + 2)
             /\ Split(p, M, k, M[i].level + 1) <=> Split(p, T, k, T[i].level + 1)
  <2>1. k \in DOMAIN T /\ k \in Nat
    BY <1>1
  <2>2. CASE k = i
    <3>1. T[k].level # T[i].level + 2 /\ T[k].level # T[i].level + 1
      BY <1>1, <2>2
    <3> QED BY <1>1, <2>2, <3>1 DEF Parted, Split
  <2>3. CASE k # i
    <3>1. k - 1 \in DOMAIN T
      BY <1>1, <2>1, <2>3
    <3>2. \A lev : /\ Parted(p, M, k, lev) <=> Parted(p, T, k, lev)
                   /\ Split(p, M, k, lev) <=> Split(p, T, k, lev)
      BY <2>1, <3>1, HiddenNothingElse
    <3>3. /\ Parted(p, M, k, T[i].level + 2) <=> Parted(p, T, k, T[i].level + 2)
          /\ Split(p, M, k, T[i].level + 1) <=> Split(p, T, k, T[i].level + 1)
      BY <3>2
    <3> QED BY <1>1, <3>3
  <2> QED BY <2>2, <2>3
<1> QED BY <1>2 DEF Loose

-----------------------------------------------------------------------------
(* Hiding the paragraphs of the list that is being closed leaves the lists that have    *)
(* been closed as they are.                                                  *)
LEMMA MarkNest ==
  ASSUME NEW p, NEW T \in Seq(BlockTokens), NEW lev, NEW L \in Nat, NEW g, NEW M,
         NestInv(p, T, lev), IsOpen(T, L + 1, g), M = Tightened(T, L, g),
         \A k \in DOMAIN T : k > g /\ T[k].type = "dl_open" => T[k].level >= L + 2
  PROVE  NestInv(p, M, lev)
<1>1. g \in DOMAIN T /\ g \in Nat /\ T[g].level = L /\ T[g].type \in Openers
      /\ \A j \in DOMAIN T : j > g => T[j].level >= L + 1
  BY DEF IsOpen
<1>2. /\ M \in Seq(BlockTokens) /\ Len(M) = Len(T) /\ SameButHidden(T, M)
      /\ \A k \in DOMAIN T : k <= g + 1 \/ T[k].level # L + 2 => M[k] = T[k]
  BY <1>1, TightenedTokens
<1>3. DOMAIN M = DOMAIN T /\ \A k \in DOMAIN T : M[k].type = T[k].type /\ M[k].level = T[k].level
  BY <1>2 DEF SameButHidden
<1>4. ASSUME NEW i, NEW j, Matched(p, T, i, j), HiddenRight(p, T, i, j)
      PROVE  HiddenRight(p, M, i, j)
  <2>1. /\ i \in DOMAIN T /\ j \in DOMAIN T /\ i < j /\ T[j].level = T[i].level /\ T[j].type \in DOMAIN Ending
        /\ \A k \in (i + 1)..(j - 1) : T[k].level > T[i].level
    BY <1>4 DEF Matched
  <2>2. i \in Nat /\ j \in Nat /\ j <= Len(T) /\ T[i].level \in Nat /\ T[j].level \in Nat /\ M[i].type = T[i].type
        /\ M[i].level = T[i].level
    BY <1>3, <2>1, TokenFields
  <2>3. Loose(p, M, i, j) <=> Loose(p, T, i, j)
    BY <1>2, <2>1, <2>2, HiddenLoose
  <2> SUFFICES ASSUME T[i].type = "dl_open", NEW k \in i..j, T[k].level = T[i].level + 2
               PROVE  M[k] = T[k]
    <3>1. \A k \in i..j : k \in DOMAIN T
      BY <2>1, <2>2
    <3>2. \A k \in i..j : M[k].level = T[k].level /\ M[k].type = T[k].type
      BY <1>3, <3>1
    <3> QED BY <1>4, <2>2, <2>3, <3>2 DEF HiddenRight
  <2>4. k \in DOMAIN T /\ k \in Nat
    BY <2>1, <2>2
  <2>5. CASE i > g
    <3>1. T[i].level >= L + 2
      BY <2>1, <2>5
    <3> QED BY <1>2, <2>2, <2>4, <3>1
  <2>6. CASE i = g
    <3>1. T[j].level >= L + 1
      BY <1>1, <2>1, <2>6
    <3> QED BY <1>1, <2>1, <2>2, <2>6, <3>1
  <2>7. CASE i < g
    <3>1. j # g
      <4>1. T[g].type \notin DOMAIN Ending
        BY <1>1, Kinds
      <4> QED BY <2>1, <4>1
    <3>2. ~ (j > g)
      <4> SUFFICES ASSUME j > g
                   PROVE  FALSE
        OBVIOUS
      <4>1. T[j].level >= L + 1
        BY <1>1, <2>1
      <4>2. g \in (i + 1)..(j - 1)
        BY <1>1, <2>2, <2>7
      <4>3. T[g].level > T[i].level
        BY <2>1, <4>2
      <4> QED BY <1>1, <2>1, <2>2, <4>1, <4>3
    <3>3. k <= g + 1
      BY <1>1, <2>2, <2>4, <3>1, <3>2
    <3> QED BY <1>2, <2>4, <3>3
  <2> QED BY <1>1, <2>2, <2>5, <2>6, <2>7
<1>5. \A k, h : IsOpen(M, k, h) <=> IsOpen(T, k, h)
  BY <1>2, HiddenNothingElse
<1>6. \A i, j : Matched(p, M, i, j) <=> Matched(p, T, i, j)
  BY <1>2, HiddenNothingElse
<1>7. \A k \in DOMAIN T : FenceAlone(p, M[k]) <=> FenceAlone(p, T[k])
  BY <1>2, HiddenNothingElse
<1>8. \A k \in 1..lev : \E h : IsOpen(M, k, h)
  BY <1>5 DEF NestInv
<1>9. \A i \in DOMAIN M : FenceAlone(p, M[i])
  BY <1>3, <1>7 DEF NestInv
<1>10. \A i \in DOMAIN M : M[i].type \in Openers =>
        (\E k \in 1..lev : IsOpen(M, k, i)) \/ (\E j : Matched(p, M, i, j) /\ HiddenRight(p, M, i, j))
  <2> SUFFICES ASSUME NEW i \in DOMAIN M, M[i].type \in Openers,
                      ~ \E k \in 1..lev : IsOpen(M, k, i)
               PROVE  \E j : Matched(p, M, i, j) /\ HiddenRight(p, M, i, j)
    OBVIOUS
  <2>1. i \in DOMAIN T /\ T[i].type \in Openers
    BY <1>3
  <2>2. PICK j : Matched(p, T, i, j) /\ HiddenRight(p, T, i, j)
    BY <1>5, <2>1 DEF NestInv
  <2> QED BY <1>4, <1>6, <2>2
<1> QED BY <1>8, <1>9, <1>10 DEF NestInv

(* The lists around it are not touched. *)
LEMMA MarkFrame ==
  ASSUME NEW p, NEW line, NEW T \in Seq(BlockTokens), NEW L \in Nat, NEW g \in Nat, NEW M,
         M = Tightened(T, L, g), NEW f, NEW eo, NEW e \in Ghosts, e.level <= L,
         FrameOK(p, line, T, f, eo, e)
  PROVE  FrameOK(p, line, M, f, eo, e)
<1>1. /\ M \in Seq(BlockTokens) /\ Len(M) = Len(T) /\ SameButHidden(T, M)
      /\ \A k \in DOMAIN T : k <= g + 1 \/ T[k].level # L + 2 => M[k] = T[k]
  BY TightenedTokens
<1>2. DOMAIN M = DOMAIN T /\ \A k \in DOMAIN T : M[k].type = T[k].type /\ M[k].level = T[k].level
        /\ M[k].from = T[k].from /\ M[k].to = T[k].to
  BY <1>1 DEF SameButHidden
<1>3. \A k, h : IsOpen(M, k, h) <=> IsOpen(T, k, h)
  BY <1>1, HiddenNothingElse
<1>4. \A k \in DOMAIN T : isLeaf(M[k]) <=> isLeaf(T[k])
  BY <1>1, HiddenNothingElse
<1>5. ASSUME ContainerOK(p, line, T, f, eo, e)
      PROVE  ContainerOK(p, line, M, f, eo, e)
  <2>1. e.tok \in DOMAIN T
    BY <1>5 DEF ContainerOK, IsOpen
  <2>2. M[e.tok].type = T[e.tok].type /\ M[e.tok].from = T[e.tok].from
    BY <1>2, <2>1
  <2>3. \A k \in DOMAIN M : k > e.tok /\ isLeaf(M[k]) => M[k].from > M[e.tok].from /\ M[k].to <= e.lineMax
    BY <1>2, <1>4, <1>5, <2>2 DEF ContainerOK
  <2> QED BY <1>3, <1>5, <2>2, <2>3 DEF ContainerOK
<1>6. ASSUME ListOK(p, line, T, f, eo, e)
      PROVE  ListOK(p, line, M, f, eo, e)
  <2>1. e.tok \in DOMAIN T /\ f.listTok \in DOMAIN T /\ f.listTok < e.tok
    BY <1>6 DEF ListOK, IsOpen
  <2>2. e.tok \in Nat /\ f.listTok \in Nat /\ e.tok - 1 \in DOMAIN T /\ f.listTok + 1 \in DOMAIN T
        /\ e.tok - 1 \in Nat /\ e.tok - 1 <= Len(T)
    BY <2>1
  <2>3. M[e.tok].type = T[e.tok].type /\ M[f.listTok].type = T[f.listTok].type
        /\ M[f.listTok + 1].type = T[f.listTok + 1].type
    BY <1>2, <2>1, <2>2
  <2>4. \A k \in DOMAIN M : k > f.listTok =>
       /\ M[k].type = "dl_open" => M[k].level >= e.level
       /\ M[k].type = "paragraph_open" /\ M[k].level = e.level => ~M[k].hidden
    <3> SUFFICES ASSUME NEW k \in DOMAIN T, k > f.listTok
                 PROVE  /\ M[k].type = "dl_open" => M[k].level >= e.level
                        /\ M[k].type = "paragraph_open" /\ M[k].level = e.level => ~M[k].hidden
      BY <1>2
    <3>1. /\ T[k].type = "dl_open" => T[k].level >= e.level
          /\ T[k].type = "paragraph_open" /\ T[k].level = e.level => ~T[k].hidden
      BY <1>6 DEF ListOK
    <3>2. T[k].level = e.level => M[k] = T[k]
      <4>1. e.level \in Nat /\ e.level # L + 2
        BY DEF Ghosts
      <4> QED BY <1>1, <4>1
    <3> QED BY <1>2, <3>1, <3>2
  <2>5. Loose(p, M, f.listTok, e.tok - 1) <=> Loose(p, T, f.listTok, e.tok - 1)
    BY <1>1, <2>1, <2>2, HiddenLoose
  <2>6. \A lv : Split(p, M, e.tok, lv) <=> Split(p, T, e.tok, lv)
    BY <1>1, <2>1, <2>2, HiddenNothingElse
  <2>7. Split(p, M, e.tok, e.level - 1) <=> Split(p, T, e.tok, e.level - 1)
    BY <2>6
  <2> QED BY <1>3, <1>6, <2>3, <2>4, <2>5, <2>7 DEF ListOK
<1> QED BY <1>5, <1>6 DEF FrameOK

(* So it is for all frames. *)
LEMMA MarkStack ==
  ASSUME NEW p, NEW line, NEW T \in Seq(BlockTokens), NEW L \in Nat, NEW g \in Nat, NEW M,
         M = Tightened(T, L, g), NEW F, NEW E, Stack(p, line, T, F, E),
         \A i \in DOMAIN E : E[i].level <= L
  PROVE  Stack(p, line, M, F, E)
<1>1. ASSUME NEW i \in 2..Len(F)
      PROVE  FrameOK(p, line, M, F[i], E[i - 1], E[i])
  <2>1. E \in Seq(Ghosts) /\ Len(E) = Len(F) /\ F \in Seq(Frames)
    BY DEF Stack
  <2>2. i \in DOMAIN E /\ E[i] \in Ghosts
    BY <2>1
  <2>3. FrameOK(p, line, T, F[i], E[i - 1], E[i])
    BY DEF Stack
  <2> QED BY <2>2, <2>3, MarkFrame
<1> QED BY <1>1 DEF Stack

(* What waits is not touched either. *)
LEMMA MarkSuspended ==
  ASSUME NEW p, NEW line, NEW T \in Seq(BlockTokens), NEW M \in Seq(BlockTokens), SameButHidden(T, M),
         NEW F, NEW E, Stack(p, line, T, F, E), AllSuspended(p, T, F, E)
  PROVE  AllSuspended(p, M, F, E)
<1> SUFFICES ASSUME NEW i \in DOMAIN F, F[i] \in ListFrames
             PROVE  (\E k : Block(M, k, E[i])) /\ (F[i].hasEmpty <=> AnyParted(p, M, E[i]))
  BY DEF AllSuspended, Suspended
<1>1. (\E k : Block(T, k, E[i])) /\ (F[i].hasEmpty <=> AnyParted(p, T, E[i]))
  BY DEF AllSuspended, Suspended
<1>2. E[i].tok \in DOMAIN T
  BY ListsOpen
<1>3. PICK e : e = E[i]
  OBVIOUS
<1>4. \A k : Block(M, k, e) <=> Block(T, k, e)
  BY HiddenNothingElse
<1>5. ASSUME NEW k \in DOMAIN T, k > e.tok
      PROVE  Parted(p, M, k, e.level) <=> Parted(p, T, k, e.level)
  <2>1. k - 1 \in DOMAIN T
    BY <1>2, <1>3, <1>5
  <2>2. \A lv : Parted(p, M, k, lv) <=> Parted(p, T, k, lv)
    BY <2>1, HiddenNothingElse
  <2> QED BY <2>2
<1>6. DOMAIN M = DOMAIN T
  BY DEF SameButHidden
<1>7. AnyParted(p, M, e) <=> AnyParted(p, T, e)
  BY <1>5, <1>6 DEF AnyParted
<1> QED BY <1>1, <1>3, <1>4, <1>7

(* Nor are the lines of tokens. *)
LEMMA MarkCover ==
  ASSUME NEW p, NEW line, NEW T \in Seq(BlockTokens), NEW M \in Seq(BlockTokens), SameButHidden(T, M),
         CoverInv(p, T, line)
  PROVE  CoverInv(p, M, line)
<1>1. \A k \in DOMAIN T : \A l : Covers(M[k], l) <=> Covers(T[k], l)
  BY HiddenNothingElse
<1>2. DOMAIN M = DOMAIN T
  BY DEF SameButHidden
<1> QED BY <1>1, <1>2 DEF CoverInv

(* The marks do not matter to what is put behind the tokens. *)
LEMMA MarkBehind ==
  ASSUME NEW T \in Seq(BlockTokens), NEW t \in BlockTokens,
         t.type \notin {"paragraph_open", "paragraph_close"}, NEW L \in Nat, NEW g \in Nat
  PROVE  Tightened(Append(T, t), L, g) = Append(Tightened(T, L, g), t)
<1>1. PICK U, M : U = Append(T, t) /\ M = Tightened(T, L, g)
  OBVIOUS
<1>2. /\ DOMAIN U = 1..(Len(T) + 1) /\ DOMAIN T = 1..Len(T) /\ Len(T) \in Nat /\ U[Len(T) + 1] = t
      /\ \A k \in DOMAIN T : U[k] = T[k]
  BY <1>1, Appended
<1>3. M = [k \in 1..Len(T) |-> M[k]]
  BY <1>1, <1>2 DEF Tightened
<1>4. PICK V : V = Append(M, t)
  OBVIOUS
<1>5. /\ V = [k \in 1..(Len(T) + 1) |-> V[k]]
      /\ \A k \in 1..(Len(T) + 1) : V[k] = IF k = Len(T) + 1 THEN t ELSE M[k]
  <2>1. M \in Seq(BlockTokens) /\ Len(M) = Len(T)
    BY <1>1, TightenedTokens
  <2>2. V \in Seq(BlockTokens) /\ Len(V) = Len(T) + 1 /\ V[Len(T) + 1] = t
        /\ \A k \in 1..Len(T) : V[k] = M[k]
    BY <1>2, <1>4, <2>1
  <2>3. V = [k \in 1..(Len(T) + 1) |-> V[k]]
    BY <2>2
  <2>4. \A k \in 1..(Len(T) + 1) : k = Len(T) + 1 \/ k \in 1..Len(T)
    BY <1>2
  <2> QED BY <2>2, <2>3, <2>4
<1>6. PICK W : W = Tightened(U, L, g)
  OBVIOUS
<1>7. W = [k \in 1..(Len(T) + 1) |-> W[k]]
  BY <1>2, <1>6 DEF Tightened
<1>8. ASSUME NEW k \in 1..(Len(T) + 1)
      PROVE  W[k] = IF k = Len(T) + 1 THEN t ELSE M[k]
  <2>1. CASE k = Len(T) + 1
    BY <1>2, <1>6, <2>1 DEF Tightened
  <2>2. CASE k # Len(T) + 1
    <3>1. k \in DOMAIN T /\ k \in DOMAIN U /\ U[k] = T[k]
      BY <1>2, <2>2
    <3> QED BY <1>1, <1>6, <2>2, <3>1 DEF Tightened
  <2> QED BY <2>1, <2>2
<1>9. W = V
  <2>1. \A k \in 1..(Len(T) + 1) : W[k] = V[k]
    BY <1>5, <1>8
  <2> QED BY <1>5, <1>7, <2>1
<1> QED BY <1>1, <1>4, <1>6, <1>9

-----------------------------------------------------------------------------
(* The types of what the state is while a frame is on top. *)
LEMMA GhostFields ==
  ASSUME NEW e \in Ghosts
  PROVE  /\ e.lineMax \in Nat /\ e.blk \in Nat /\ e.dd \in Nat \cup {-1} /\ e.level \in Nat /\ e.tok \in Nat
BY DEF Ghosts

(* What the state is while the page's frame is on top. *)
LEMMA BaseFields ==
  ASSUME NEW p, p \in Seq(PageLines)
  PROVE  /\ Base(p) \in Ghosts /\ Base(p).lineMax = Len(p) + 1 /\ Base(p).blk = 0
         /\ Base(p).dd = -1 /\ Base(p).level = 0
<1>1. Len(p) + 1 \in Nat
  OBVIOUS
<1> QED BY <1>1 DEF Base, Ghosts

(* What is known of the frame on top, by its rule. *)
LEMMA TopFacts ==
  ASSUME NEW p, GoodPage(p), NEW line, NEW T, NEW F \in Seq(Frames), NEW f \in Frames,
         NEW E \in Seq(Ghosts), NEW e \in Ghosts, Stack(p, line, T, F, E), TopOK(p, line, T, F, f, E, e),
         \A i \in DOMAIN E : Narrower(E[i], e), Len(E) = Len(F)
  PROVE  /\ f.endLine = e.lineMax /\ e.lineMax <= Len(p) + 1 /\ Len(p) \in Nat /\ DOMAIN p = 1..Len(p)
         /\ f \in ListFrames =>
              /\ F # <<>> /\ ListOK(p, line, T, f, E[Len(E)], e)
              /\ e.tok \in DOMAIN T /\ T[e.tok].type = "dd_open"
         /\ f \in ContainerFrames => F # <<>> /\ ContainerOK(p, line, T, f, E[Len(E)], e)
         /\ f \in PageFrames => F = <<>> /\ e = Base(p)
<1>1. Len(p) \in Nat /\ DOMAIN p = 1..Len(p) /\ p \in Seq(PageLines)
  BY DEF GoodPage
<1>2. CASE F = <<>>
  <2>1. f \in PageFrames /\ f.endLine = Len(p) + 1 /\ e = Base(p)
    BY <1>2 DEF TopOK
  <2>2. e.lineMax = Len(p) + 1
    BY <1>1, <2>1, BaseFields
  <2>3. f \notin ListFrames /\ f \notin ContainerFrames
    BY <2>1, FramesDiffer
  <2>4. e.lineMax <= Len(p) + 1
    BY <1>1, <2>2
  <2> QED BY <1>1, <1>2, <2>1, <2>2, <2>3, <2>4
<1>3. CASE F # <<>>
  <2>1. FrameOK(p, line, T, f, E[Len(E)], e)
    BY <1>3 DEF TopOK
  <2>2. f.endLine = e.lineMax /\ f \notin PageFrames
    BY <2>1, FramesDiffer DEF FrameOK, ContainerOK, ListOK
  <2>3. e.lineMax <= Len(p) + 1
    <3>1. E[1] = Base(p)
      BY <1>3 DEF Stack
    <3>2. 1 \in DOMAIN E
      <4>1. Len(F) # 0
        BY <1>3
      <4> QED BY <4>1
    <3>3. Narrower(Base(p), e)
      BY <3>1, <3>2
    <3> QED BY <1>1, <3>3, BaseFields DEF Narrower
  <2>4. f \in ListFrames => /\ ListOK(p, line, T, f, E[Len(E)], e)
                            /\ e.tok \in DOMAIN T /\ T[e.tok].type = "dd_open"
    <3>1. f \in ListFrames => ~ContainerOK(p, line, T, f, E[Len(E)], e)
      BY FramesDiffer DEF ContainerOK
    <3>2. f \in ListFrames => ListOK(p, line, T, f, E[Len(E)], e)
      BY <2>1, <3>1 DEF FrameOK
    <3> QED BY <3>2 DEF ListOK, IsOpen
  <2>5. f \in ContainerFrames => ContainerOK(p, line, T, f, E[Len(E)], e)
    BY <2>1, FramesDiffer DEF FrameOK, ListOK
  <2> QED BY <1>1, <1>3, <2>2, <2>3, <2>4, <2>5
<1> QED BY <1>2, <1>3

(* What is known of a page that is being read; no definition is ahead of the line. *)
LEMMA ReadingFacts ==
  ASSUME NEW p, NEW line, NEW at, NEW tight, NEW T, NEW F, NEW f, NEW E, NEW e,
         Reading(p, line, at, tight, T, F, f, E, e)
  PROVE  /\ GoodPage(p) /\ T \in Seq(BlockTokens) /\ F \in Seq(Frames) /\ f \in Frames
         /\ E \in Seq(Ghosts) /\ e \in Ghosts /\ Len(E) = Len(F) /\ tight \in BOOLEAN
         /\ Stack(p, line, T, F, E) /\ TopOK(p, line, T, F, f, E, e)
         /\ \A i \in DOMAIN E : Narrower(E[i], e)
         /\ line \in Nat /\ 1 <= line /\ line <= e.lineMax /\ e.lineMax \in Nat
         /\ \A l \in Nat : l > line => ~Enters(Append(F, f), l)
<1>1. /\ GoodPage(p) /\ T \in Seq(BlockTokens) /\ F \in Seq(Frames) /\ f \in Frames
      /\ E \in Seq(Ghosts) /\ e \in Ghosts /\ tight \in BOOLEAN
      /\ Stack(p, line, T, Append(F, f), Append(E, e)) /\ line \in 1..e.lineMax
  BY DEF Reading
<1>2. /\ Stack(p, line, T, F, E) /\ TopOK(p, line, T, F, f, E, e)
      /\ Len(E) = Len(F) /\ \A i \in DOMAIN E : Narrower(E[i], e)
  BY <1>1, StackPops
<1>3. line \in Nat /\ 1 <= line /\ line <= e.lineMax /\ e.lineMax \in Nat
  BY <1>1 DEF Ghosts
<1>4. ASSUME NEW l \in Nat, l > line, Enters(Append(F, f), l)
      PROVE  FALSE
  <2>1. PICK F2, E2 : F2 = Append(F, f) /\ E2 = Append(E, e)
    OBVIOUS
  <2>2. PICK i \in DOMAIN F2 : F2[i] \in ListFrames /\ F2[i].ddLine = l
    BY <1>4, <2>1 DEF Enters
  <2>3. Stack(p, line, T, F2, E2)
    BY <1>1, <2>1
  <2>4. ListOK(p, line, T, F2[i], E2[i - 1], E2[i])
    BY <2>2, <2>3, ListsOpen
  <2>5. l <= line
    BY <2>2, <2>4 DEF ListOK
  <2> QED BY <1>3, <1>4, <2>5
<1> QED BY <1>1, <1>2, <1>3, <1>4

(* A page that is being read is as the rules take for granted. *)
LEMMA ReadyThere ==
  ASSUME NEW p, NEW line, NEW at, NEW tight, NEW T, NEW F, NEW f, NEW E, NEW e,
         Reading(p, line, at, tight, T, F, f, E, e),
         bl = ReadingState(p, line, at, tight, T, Append(F, f), e)
  PROVE  /\ Ready(bl, F, f)
         /\ bl.page = p /\ bl.line = line /\ bl.lineMax = e.lineMax /\ bl.blkIndent = e.blk
         /\ bl.ddIndent = e.dd /\ bl.at = at /\ bl.tight = tight /\ bl.level = e.level /\ bl.tokens = T
         /\ bl.frames = Append(F, f)
<1>1. /\ bl.page = p /\ bl.line = line /\ bl.lineMax = e.lineMax /\ bl.blkIndent = e.blk
      /\ bl.ddIndent = e.dd /\ bl.at = at /\ bl.tight = tight /\ bl.level = e.level /\ bl.tokens = T
      /\ bl.frames = Append(F, f)
  BY DEF ReadingState, StateOf
<1>2. /\ GoodPage(p) /\ T \in Seq(BlockTokens) /\ F \in Seq(Frames) /\ f \in Frames
      /\ E \in Seq(Ghosts) /\ e \in Ghosts /\ Len(E) = Len(F) /\ tight \in BOOLEAN
      /\ Stack(p, line, T, F, E) /\ TopOK(p, line, T, F, f, E, e)
      /\ \A i \in DOMAIN E : Narrower(E[i], e)
      /\ line \in Nat /\ 1 <= line /\ line <= e.lineMax /\ e.lineMax \in Nat
  BY ReadingFacts
<1>3. f.endLine = e.lineMax /\ e.lineMax <= Len(p) + 1 /\ Len(p) \in Nat
  BY <1>2, TopFacts
<1>4. IsAt(p, at)
  BY AtIsAt DEF Reading
<1>5. bl \in BlockStates
  <2>1. p \in Seq(PageLines) /\ at \in Seq(Ats) /\ Append(F, f) \in Seq(Frames)
    BY <1>2, <1>4 DEF GoodPage, IsAt
  <2>2. e.lineMax \in Nat /\ e.blk \in Nat /\ e.dd \in Nat \cup {-1} /\ e.level \in Nat
    BY <1>2, GhostFields
  <2> QED BY <1>2, <2>1, <2>2 DEF BlockStates, ReadingState, StateOf
<1>6. line \in 1..e.lineMax /\ e.lineMax \in 1..(Len(p) + 1)
  BY <1>2, <1>3
<1> QED BY <1>1, <1>2, <1>3, <1>4, <1>5, <1>6 DEF Ready

-----------------------------------------------------------------------------
(* Frame f goes on reading behind a block that ends before line x. *)
LEMMA Resumes ==
  ASSUME NEW p, GoodPage(p), NEW line \in Nat, NEW at, NEW T \in Seq(BlockTokens),
         NEW U \in Seq(BlockTokens), NEW F \in Seq(Frames), NEW f \in Frames, NEW E \in Seq(Ghosts),
         NEW e \in Ghosts, Stack(p, line, T, F, E), TopOK(p, line, T, F, f, E, e),
         \A i \in DOMAIN E : Narrower(E[i], e), Len(E) = Len(F),
         AtInv(p, at, Append(F, f)), AllSuspended(p, T, F, E), Grown(T, U),
         Within(T, U, e.level, line, e.lineMax), NestInv(p, U, e.level), Suspended(p, U, f, e),
         U[Len(U)].type \notin {"dd_open", "dt_open"},
         NEW x \in Nat, line <= x, 1 <= x, x <= e.lineMax, CoverInv(p, U, x)
  PROVE  Reading(p, Behind(p, f, x), at, ~f.hasEmpty, U, F, Marked(p, f, x), E, e)
<1>1. f.endLine = e.lineMax /\ e.lineMax \in Nat /\ e.level \in Nat
  BY TopFacts, GhostFields
<1>2. PICK y : y = Behind(p, f, x)
  OBVIOUS
<1>3. y \in Nat /\ x <= y /\ y <= e.lineMax /\ line <= y /\ 1 <= y
      /\ \A l \in Nat : x <= l /\ l < y => Blank(p, l)
  <2>1. CASE x < f.endLine /\ Blank(p, x)
    <3>1. y = x + 1
      BY <1>2, <2>1 DEF Behind
    <3>2. \A l \in Nat : x <= l /\ l < x + 1 => l = x
      OBVIOUS
    <3> QED BY <1>1, <2>1, <3>1, <3>2
  <2>2. CASE ~ (x < f.endLine /\ Blank(p, x))
    <3>1. y = x
      BY <1>2, <2>2 DEF Behind
    <3> QED BY <1>1, <3>1
  <2> QED BY <2>1, <2>2
<1>4. PICK g : g = Marked(p, f, x)
  OBVIOUS
<1>5. g \in Frames /\ TopOK(p, line, T, F, g, E, e)
  BY <1>4, MarkedFrame, MarkedTop
<1>6. Stack(p, line, T, Append(F, g), Append(E, e))
  BY <1>5, StackPushes
<1>7. \A i \in DOMAIN E : E[i].level < e.level /\ e.lineMax <= E[i].lineMax /\ E[i].level \in Nat
  <2> SUFFICES ASSUME NEW i \in DOMAIN E
               PROVE  E[i].level < e.level /\ e.lineMax <= E[i].lineMax /\ E[i].level \in Nat
    OBVIOUS
  <2>1. E[i] \in Ghosts /\ Narrower(E[i], e)
    OBVIOUS
  <2> QED BY <2>1, GhostFields DEF Narrower
<1>8. Stack(p, y, U, Append(F, g), Append(E, e))
  <2>1. PICK F2, E2 : F2 = Append(F, g) /\ E2 = Append(E, e)
    OBVIOUS
  <2>2. \A i \in DOMAIN E2 : E2[i].level <= e.level /\ e.lineMax <= E2[i].lineMax
    <3>1. /\ DOMAIN E2 = 1..(Len(E) + 1) /\ DOMAIN E = 1..Len(E) /\ E2[Len(E) + 1] = e
          /\ Len(E) \in Nat /\ \A k \in DOMAIN E : E2[k] = E[k]
      BY <2>1, OnFrames
    <3>2. \A i \in DOMAIN E2 : i \in DOMAIN E \/ i = Len(E) + 1
      BY <3>1
    <3> QED BY <1>1, <1>7, <3>1, <3>2
  <2>3. Stack(p, line, T, F2, E2)
    BY <1>6, <2>1
  <2>4. Stack(p, y, U, F2, E2)
    BY <1>1, <1>3, <2>2, <2>3, StackGrows
  <2> QED BY <2>1, <2>4
<1>9. AtInv(p, at, Append(F, g))
  BY <1>4, AtMarked
<1>10. CoverInv(p, U, y)
  <2>1. p \in Seq(PageLines) /\ Grown(U, U)
    BY DEF GoodPage, Grown
  <2>2. \A l \in DOMAIN p : x <= l /\ l < y => Blank(p, l)
    BY <1>3, <2>1
  <2> QED BY <1>3, <2>1, <2>2, CoverStays
<1>11. AllSuspended(p, U, F, E)
  <2>1. \A k \in DOMAIN U, i \in DOMAIN E : k \notin DOMAIN T => U[k].level # E[i].level
    <3> SUFFICES ASSUME NEW k \in DOMAIN U, NEW i \in DOMAIN E, k \notin DOMAIN T
                 PROVE  U[k].level # E[i].level
      OBVIOUS
    <3>1. U[k].level \in Nat /\ U[k].level >= e.level
      BY TokenFields DEF Within
    <3> QED BY <1>1, <1>7, <3>1
  <2> QED BY <2>1, AllSuspendedStays
<1>12. PICK h : h = ~f.hasEmpty
  OBVIOUS
<1>13. OnTop(p, y, h, U, g, e)
  BY <1>1, <1>2, <1>4, <1>12, BlockEnds
<1>14. h \in BOOLEAN /\ y \in 1..e.lineMax
  BY <1>1, <1>3, <1>12
<1>15. Reading(p, y, at, h, U, F, g, E, e)
  BY <1>5, <1>8, <1>9, <1>10, <1>11, <1>13, <1>14 DEF Reading
<1> QED BY <1>2, <1>4, <1>12, <1>15

-----------------------------------------------------------------------------
(* A new token, and what makes it one of a block on level lev, with lines up to lm. *)
IsToken(t, type, lev, x, y) ==
  /\ t \in BlockTokens /\ t.type = type /\ t.level = lev /\ t.from = x /\ t.to = y /\ t.hidden = FALSE

(* Token t is of a block on level lev. *)
Fits(t, lev, line, lm) ==
  /\ t.level >= lev
  /\ isLeaf(t) => t.from >= line /\ t.to <= lm
  /\ t.type = "paragraph_open" => ~t.hidden

(* A token is one. *)
LEMMA TokenMade ==
  ASSUME NEW type \in TokenTypes, NEW lev \in Nat, NEW x \in Nat, NEW y \in Nat
  PROVE  IsToken(tokenOf(type, lev, x, y), type, lev, x, y)
BY DEF IsToken, tokenOf, BlockTokens

(* U is T with token t behind it. *)
Added(T, U, t, lev, line, lm) ==
  /\ U \in Seq(BlockTokens) /\ Grown(T, U) /\ Within(T, U, lev, line, lm)
  /\ Len(U) = Len(T) + 1 /\ Len(T) \in Nat /\ U[Len(U)] = t /\ Len(T) + 1 \in DOMAIN U
  /\ Len(T) + 1 \notin DOMAIN T
  /\ \A k \in DOMAIN U : k \notin DOMAIN T => k = Len(T) + 1 /\ U[k] = t

(* A token that fits is added. *)
LEMMA OneMore ==
  ASSUME NEW T \in Seq(BlockTokens), NEW t \in BlockTokens, NEW U, U = Append(T, t), NEW lev \in Nat,
         NEW line, NEW lm, Fits(t, lev, line, lm)
  PROVE  Added(T, U, t, lev, line, lm)
<1>1. /\ U \in Seq(BlockTokens) /\ Len(U) = Len(T) + 1 /\ Len(T) \in Nat
      /\ DOMAIN U = 1..(Len(T) + 1) /\ DOMAIN T = 1..Len(T)
      /\ U[Len(T) + 1] = t /\ Len(T) + 1 \in DOMAIN U
      /\ \A k \in DOMAIN T : k \in DOMAIN U /\ U[k] = T[k]
      /\ \A k \in DOMAIN U : k \in Nat /\ (k \in DOMAIN T \/ k = Len(T) + 1)
  BY Appended
<1>2. Grown(T, U)
  BY <1>1 DEF Grown
<1>3. \A k \in DOMAIN U : k \notin DOMAIN T => k = Len(T) + 1 /\ U[k] = t
  BY <1>1
<1>4. Within(T, U, lev, line, lm)
  BY <1>3 DEF Within, Fits
<1>5. Len(T) + 1 \notin DOMAIN T
  BY <1>1
<1> QED BY <1>1, <1>2, <1>3, <1>4, <1>5 DEF Added

(* Tokens are added twice. *)
LEMMA GrownTwice ==
  ASSUME NEW T, NEW U, NEW V, Grown(T, U), Grown(U, V), NEW lev, NEW line, NEW lm,
         T \in Seq(BlockTokens), U \in Seq(BlockTokens), V \in Seq(BlockTokens),
         Within(T, U, lev, line, lm), Within(U, V, lev, line, lm)
  PROVE  Grown(T, V) /\ Within(T, V, lev, line, lm)
<1>1. Grown(T, V)
  <2>1. Len(T) <= Len(V)
    BY DEF Grown
  <2> QED BY <2>1 DEF Grown
<1>2. Within(T, V, lev, line, lm)
  <2> SUFFICES ASSUME NEW j \in DOMAIN V, j \notin DOMAIN T
               PROVE  /\ V[j].level >= lev
                      /\ isLeaf(V[j]) => V[j].from >= line /\ V[j].to <= lm
                      /\ V[j].type = "paragraph_open" => ~V[j].hidden
    BY DEF Within
  <2>1. CASE j \in DOMAIN U
    <3>1. V[j] = U[j]
      BY <2>1 DEF Grown
    <3> QED BY <2>1, <3>1 DEF Within
  <2>2. CASE j \notin DOMAIN U
    BY <2>2 DEF Within
  <2> QED BY <2>1, <2>2
<1> QED BY <1>1, <1>2

(* The line on which a block of the frame on top begins. *)
LEMMA BlockStart ==
  ASSUME NEW p, NEW line, NEW at, NEW tight, NEW T, NEW F, NEW f, NEW E, NEW e,
         Reading(p, line, at, tight, T, F, f, E, e),
         bl = ReadingState(p, line, at, tight, T, Append(F, f), e), reads
  PROVE  /\ start \in Nat /\ line <= start /\ start < e.lineMax /\ start \in DOMAIN p /\ ~Blank(p, start)
         /\ \A k \in line..(start - 1) : Blank(p, k)
         /\ at[start].indent >= e.blk
<1>1. /\ Ready(bl, F, f)
      /\ bl.page = p /\ bl.line = line /\ bl.lineMax = e.lineMax /\ bl.blkIndent = e.blk /\ bl.at = at
  BY ReadyThere
<1>2. /\ IsStart(p, line, e.lineMax, start)
      /\ start \in DOMAIN p /\ start < e.lineMax /\ ~Blank(p, start)
      /\ at[start].indent >= e.blk
  BY <1>1, ReadsThere
<1>3. line \in Nat /\ e.lineMax \in Nat
  BY ReadingFacts
<1>4. start \in line..e.lineMax /\ \A k \in line..(start - 1) : Blank(p, k)
  BY <1>2 DEF IsStart
<1> QED BY <1>2, <1>3, <1>4

(* Code keeps the invariant. *)
LEMMA CodeKeeps ==
  ASSUME NEW p, NEW line, NEW at, NEW tight, NEW T, NEW F, NEW f, NEW E, NEW e,
         Reading(p, line, at, tight, T, F, f, E, e),
         bl = ReadingState(p, line, at, tight, T, Append(F, f), e), Code
  PROVE  IsReading(bl')
<1>1. /\ Ready(bl, F, f)
      /\ bl.page = p /\ bl.line = line /\ bl.lineMax = e.lineMax /\ bl.blkIndent = e.blk
      /\ bl.ddIndent = e.dd /\ bl.at = at /\ bl.level = e.level /\ bl.tokens = T
  BY ReadyThere
<1>2. /\ GoodPage(p) /\ T \in Seq(BlockTokens) /\ F \in Seq(Frames) /\ f \in Frames
      /\ E \in Seq(Ghosts) /\ e \in Ghosts /\ Len(E) = Len(F) /\ tight \in BOOLEAN
      /\ Stack(p, line, T, F, E) /\ TopOK(p, line, T, F, f, E, e)
      /\ \A i \in DOMAIN E : Narrower(E[i], e)
      /\ line \in Nat /\ 1 <= line /\ line <= e.lineMax /\ e.lineMax \in Nat
  BY ReadingFacts
<1>3. reads /\ \E end \in (start + 1)..bl.lineMax :
           /\ ~Blank(bl.page, end - 1)
           /\ bl' = StateOf(bl.page, Behind(bl.page, f, end), bl.lineMax, bl.blkIndent, bl.ddIndent,
                            bl.at, ~f.hasEmpty, bl.level,
                            Append(bl.tokens, tokenOf("code", bl.level, start, end)),
                            Append(F, Marked(bl.page, f, end)))
  BY <1>1, CodeStep
<1>4. PICK s : s = start
  OBVIOUS
<1>5. PICK end \in (s + 1)..e.lineMax :
        bl' = StateOf(p, Behind(p, f, end), e.lineMax, e.blk, e.dd, at, ~f.hasEmpty, e.level,
                      Append(T, tokenOf("code", e.level, s, end)), Append(F, Marked(p, f, end)))
  BY <1>1, <1>3, <1>4
<1>6. /\ s \in Nat /\ line <= s /\ s < e.lineMax
      /\ \A k \in line..(s - 1) : Blank(p, k)
  BY <1>3, <1>4, BlockStart
<1>7. end \in Nat /\ s < end /\ end <= e.lineMax /\ line <= end /\ 1 <= end /\ e.level \in Nat
  BY <1>2, <1>5, <1>6, GhostFields
<1>8. PICK t, U : t = tokenOf("code", e.level, s, end) /\ U = Append(T, t)
  OBVIOUS
<1>9. t \in BlockTokens /\ t.type = "code" /\ t.level = e.level /\ t.from = s /\ t.to = end
  <2>1. PICK type : type = "code"
    OBVIOUS
  <2>2. type \in TokenTypes
    BY <2>1 DEF TokenTypes
  <2>3. t = tokenOf(type, e.level, s, end) /\ e.level \in Nat /\ s \in Nat /\ end \in Nat
    BY <1>6, <1>7, <1>8, <2>1
  <2>4. IsToken(t, type, e.level, s, end)
    BY ONLY <2>2, <2>3, TokenMade
  <2> QED BY <2>1, <2>4 DEF IsToken
<1>10. isLeaf(t) /\ Begins(t)
  BY <1>9 DEF isLeaf, Begins
<1>11. /\ U \in Seq(BlockTokens) /\ Grown(T, U) /\ Within(T, U, e.level, line, e.lineMax)
       /\ Len(U) = Len(T) + 1 /\ U[Len(U)] = t /\ Len(T) + 1 \in DOMAIN U
       /\ Len(T) + 1 \notin DOMAIN T
       /\ \A k \in DOMAIN U : k \notin DOMAIN T => k = Len(T) + 1 /\ U[k] = t
  <2>1. Fits(t, e.level, line, e.lineMax)
    BY <1>6, <1>7, <1>9 DEF Fits
  <2>2. Added(T, U, t, e.level, line, e.lineMax)
    BY <1>2, <1>7, <1>8, <1>9, <2>1, OneMore
  <2> QED BY <2>2 DEF Added
<1>12. NestInv(p, U, e.level)
  BY <1>2, <1>7, <1>8, <1>9, <1>10, NestLeaf DEF Reading
<1>13. Suspended(p, U, f, e)
  <2>1. f \in ListFrames => e.tok \in DOMAIN T /\ T[e.tok].type = "dd_open"
    BY <1>2, TopFacts
  <2>2. OnTop(p, line, tight, T, f, e) /\ s <= e.lineMax
    BY <1>2, <1>6 DEF Reading
  <2> QED BY <1>2, <1>6, <1>8, <1>9, <1>10, <2>1, <2>2, BlockBegins
<1>14. CoverInv(p, U, end)
  <2>1. \A l \in DOMAIN p : l \in Nat /\ (Covers(t, l) <=> s <= l /\ l < end)
    <3> SUFFICES ASSUME NEW l \in DOMAIN p
                 PROVE  l \in Nat /\ (Covers(t, l) <=> s <= l /\ l < end)
      OBVIOUS
    <3>1. l \in Nat
      BY <1>2 DEF GoodPage
    <3>2. Covers(t, l) <=> l \in s..(end - 1)
      BY <1>9, <1>10 DEF Covers
    <3> QED BY <1>6, <1>7, <3>1, <3>2
  <2>2. PICK c \in DOMAIN U : c \notin DOMAIN T /\ U[c] = t /\ \A k \in DOMAIN U : k \notin DOMAIN T => k = c
    BY <1>11
  <2>3. \A k \in DOMAIN U, l \in DOMAIN p : k \notin DOMAIN T /\ k # c => ~Covers(U[k], l)
    BY <2>2
  <2>4. \A l \in DOMAIN p : Covers(U[c], l) => line <= l /\ l < end
    BY <1>2, <1>6, <2>1, <2>2
  <2>5. \A l \in DOMAIN p : line <= l /\ l < end /\ ~Blank(p, l) => Covers(U[c], l)
    <3> SUFFICES ASSUME NEW l \in DOMAIN p, line <= l, l < end, ~Blank(p, l)
                 PROVE  Covers(U[c], l)
      OBVIOUS
    <3>1. l \in Nat
      BY <2>1
    <3>2. ~ (l \in line..(s - 1))
      BY <1>6
    <3>3. s <= l
      BY <1>2, <1>6, <3>1, <3>2
    <3> QED BY <2>1, <2>2, <3>3
  <2>6. p \in Seq(PageLines) /\ CoverInv(p, T, line)
    BY <1>2 DEF GoodPage, Reading
  <2> QED BY <1>2, <1>7, <1>11, <2>2, <2>3, <2>4, <2>5, <2>6, CoverGrows
<1>15. U[Len(U)].type \notin {"dd_open", "dt_open"}
  BY <1>9, <1>11
<1>16. AtInv(p, at, Append(F, f)) /\ AllSuspended(p, T, F, E)
  BY DEF Reading
<1>17. Reading(p, Behind(p, f, end), at, ~f.hasEmpty, U, F, Marked(p, f, end), E, e)
  BY <1>2, <1>7, <1>11, <1>12, <1>13, <1>14, <1>15, <1>16, Resumes
<1>18. bl' = ReadingState(p, Behind(p, f, end), at, ~f.hasEmpty, U, Append(F, Marked(p, f, end)), e)
  BY <1>5, <1>8 DEF ReadingState
<1>19. PICK l2, h2, g2 : l2 = Behind(p, f, end) /\ h2 = ~f.hasEmpty /\ g2 = Marked(p, f, end)
  OBVIOUS
<1>20. Reading(p, l2, at, h2, U, F, g2, E, e) /\ bl' = ReadingState(p, l2, at, h2, U, Append(F, g2), e)
  BY <1>17, <1>18, <1>19
<1> QED BY ONLY <1>20 DEF IsReading

-----------------------------------------------------------------------------
(* Of the new tokens only c is of lines: of those from s to end. *)
LEMMA CoverBlock ==
  ASSUME NEW p, p \in Seq(PageLines), NEW T \in Seq(BlockTokens), NEW U \in Seq(BlockTokens),
         NEW line \in Nat, NEW s \in Nat, NEW end \in Nat, line <= s, s <= end,
         Grown(T, U), CoverInv(p, T, line), \A k \in line..(s - 1) : Blank(p, k),
         NEW c \in DOMAIN U, c \notin DOMAIN T,
         \A l \in DOMAIN p : Covers(U[c], l) <=> s <= l /\ l < end,
         \A k \in DOMAIN U, l \in DOMAIN p : k \notin DOMAIN T /\ k # c => ~Covers(U[k], l)
  PROVE  CoverInv(p, U, end)
<1>1. \A l \in DOMAIN p : l \in Nat
  OBVIOUS
<1>2. \A l \in DOMAIN p : Covers(U[c], l) => line <= l /\ l < end
  BY <1>1
<1>3. \A l \in DOMAIN p : line <= l /\ l < end /\ ~Blank(p, l) => Covers(U[c], l)
  <2> SUFFICES ASSUME NEW l \in DOMAIN p, line <= l, l < end, ~Blank(p, l)
               PROVE  Covers(U[c], l)
    OBVIOUS
  <2>1. ~ (l \in line..(s - 1))
    OBVIOUS
  <2>2. s <= l
    BY <1>1, <2>1
  <2> QED BY <2>2
<1>4. line <= end
  OBVIOUS
<1> QED BY <1>2, <1>3, <1>4, CoverGrows

(* The lines of a token of text or code. *)
LEMMA LeafCovers ==
  ASSUME NEW p, p \in Seq(PageLines), NEW t, isLeaf(t), NEW x \in Nat, NEW y \in Nat, t.from = x, t.to = y,
         NEW l \in DOMAIN p
  PROVE  Covers(t, l) <=> x <= l /\ l < y
<1>1. l \in Nat
  OBVIOUS
<1>2. Covers(t, l) <=> l \in x..(y - 1)
  BY DEF Covers, isLeaf
<1> QED BY <1>1, <1>2

(* Other tokens than those of text, code and fences are of no lines. *)
LEMMA OthersCoverNot ==
  ASSUME NEW t, t.type \notin {"inline", "code", "container_open", "container_close"}, NEW l
  PROVE  ~Covers(t, l)
BY DEF Covers, isLeaf

-----------------------------------------------------------------------------
(* U is T with a block of one line of text behind it: tokens o, i and c. *)
Wrapped(T, U, o, i, c) ==
  /\ Len(U) = Len(T) + 3 /\ Len(T) \in Nat /\ U \in Seq(BlockTokens) /\ Grown(T, U)
  /\ U[Len(T) + 1] = o /\ U[Len(T) + 2] = i /\ U[Len(T) + 3] = c /\ U[Len(U)] = c
  /\ Len(T) + 1 \in DOMAIN U /\ Len(T) + 2 \in DOMAIN U /\ Len(T) + 3 \in DOMAIN U
  /\ Len(T) + 1 \notin DOMAIN T /\ Len(T) + 2 \notin DOMAIN T /\ Len(T) + 3 \notin DOMAIN T
  /\ \A k \in DOMAIN U : k \in Nat /\ (k \notin DOMAIN T => k = Len(T) + 1 \/ k = Len(T) + 2 \/ k = Len(T) + 3)
  /\ Grown(Append(T, o), U) /\ Len(Append(T, o)) = Len(T) + 1 /\ Append(T, o) \in Seq(BlockTokens)
  /\ \A k \in DOMAIN U : k \notin DOMAIN Append(T, o) => k = Len(T) + 2 \/ k = Len(T) + 3

(* Three tokens are added. *)
LEMMA Wraps ==
  ASSUME NEW T \in Seq(BlockTokens), NEW o \in BlockTokens, NEW i \in BlockTokens, NEW c \in BlockTokens,
         NEW U, U = Append(Append(Append(T, o), i), c)
  PROVE  Wrapped(T, U, o, i, c)
<1>1. PICK U1, U2 : U1 = Append(T, o) /\ U2 = Append(U1, i)
  OBVIOUS
<1>2. /\ U1 \in Seq(BlockTokens) /\ Len(U1) = Len(T) + 1 /\ Len(T) \in Nat
      /\ DOMAIN U1 = 1..(Len(T) + 1) /\ DOMAIN T = 1..Len(T) /\ U1[Len(T) + 1] = o
      /\ \A k \in DOMAIN T : k \in DOMAIN U1 /\ U1[k] = T[k]
  BY <1>1, Appended
<1>3. /\ U2 \in Seq(BlockTokens) /\ Len(U2) = Len(U1) + 1 /\ Len(U1) \in Nat
      /\ DOMAIN U2 = 1..(Len(U1) + 1) /\ U2[Len(U1) + 1] = i
      /\ \A k \in DOMAIN U1 : k \in DOMAIN U2 /\ U2[k] = U1[k]
  BY <1>1, <1>2, Appended
<1>4. /\ U \in Seq(BlockTokens) /\ Len(U) = Len(U2) + 1 /\ Len(U2) \in Nat
      /\ DOMAIN U = 1..(Len(U2) + 1) /\ U[Len(U2) + 1] = c
      /\ \A k \in DOMAIN U2 : k \in DOMAIN U /\ U[k] = U2[k]
  BY <1>1, <1>3, Appended
<1>5. PICK n \in Nat : n = Len(T)
  BY <1>2
<1>6. Len(U1) = n + 1 /\ Len(U2) = n + 2 /\ Len(U) = n + 3
  <2>1. Len(U1) = n + 1
    BY <1>2, <1>5
  <2>2. Len(U2) = n + 2
    BY <1>3, <2>1
  <2> QED BY <1>4, <2>1, <2>2
<1>7. DOMAIN U = 1..(n + 3) /\ DOMAIN U1 = 1..(n + 1) /\ DOMAIN U2 = 1..(n + 2) /\ DOMAIN T = 1..n
  <2>1. Len(U1) + 1 = n + 2 /\ Len(U2) + 1 = n + 3
    BY <1>6
  <2> QED BY <1>2, <1>3, <1>4, <1>5, <2>1
<1>8. U[n + 1] = o /\ U[n + 2] = i /\ U[n + 3] = c
  <2>1. n + 1 \in DOMAIN U1 /\ n + 1 \in DOMAIN U2 /\ n + 2 \in DOMAIN U2
    BY <1>7
  <2>2. Len(U1) + 1 = n + 2 /\ Len(U2) + 1 = n + 3
    BY <1>6
  <2>3. U[n + 1] = U2[n + 1] /\ U2[n + 1] = U1[n + 1] /\ U[n + 2] = U2[n + 2]
    BY <1>3, <1>4, <2>1
  <2> QED BY <1>2, <1>3, <1>4, <1>5, <2>2, <2>3
<1>9. \A k \in DOMAIN U1 : k \in DOMAIN U /\ U[k] = U1[k]
  BY <1>3, <1>4
<1>10. \A k \in DOMAIN T : k \in DOMAIN U /\ U[k] = T[k]
  BY <1>2, <1>9
<1>11. Grown(T, U) /\ Grown(U1, U)
  BY <1>5, <1>6, <1>9, <1>10 DEF Grown
<1>12. /\ n + 1 \in DOMAIN U /\ n + 2 \in DOMAIN U /\ n + 3 \in DOMAIN U
       /\ n + 1 \notin DOMAIN T /\ n + 2 \notin DOMAIN T /\ n + 3 \notin DOMAIN T
       /\ \A k \in DOMAIN U : k \in Nat /\ (k \notin DOMAIN T => k = n + 1 \/ k = n + 2 \/ k = n + 3)
       /\ \A k \in DOMAIN U : k \notin DOMAIN U1 => k = n + 2 \/ k = n + 3
  BY <1>7
<1> QED BY <1>1, <1>2, <1>4, <1>5, <1>6, <1>8, <1>11, <1>12 DEF Wrapped

(* Tokens o, i and c are a block of text on level lev. *)
IsText(o, i, c, lev) ==
  /\ o \in BlockTokens /\ i \in BlockTokens /\ c \in BlockTokens
  /\ o.level = lev /\ i.level = lev + 1 /\ c.level = lev /\ isLeaf(i)
  /\ o.type \in Openers /\ o.type \notin {"container_open", "dl_open"}
  /\ c.type \in DOMAIN Ending /\ Ending[c.type] = o.type

(* A block of text within the one on top: it is closed at once. *)
LEMMA NestAround ==
  ASSUME NEW p, NEW T \in Seq(BlockTokens), NEW lev \in Nat, NEW o, NEW i, NEW c, NEW U,
         U = Append(Append(Append(T, o), i), c), NestInv(p, T, lev), IsText(o, i, c, lev)
  PROVE  NestInv(p, U, lev)
<1> /\ o \in BlockTokens /\ i \in BlockTokens /\ c \in BlockTokens
    /\ o.level = lev /\ i.level = lev + 1 /\ c.level = lev /\ isLeaf(i)
    /\ o.type \in Openers /\ o.type \notin {"container_open", "dl_open"}
    /\ c.type \in DOMAIN Ending /\ Ending[c.type] = o.type
  BY DEF IsText
<1>0. PICK lev1 \in Nat : lev1 = lev + 1
  OBVIOUS
<1>1. PICK U1, U2 : U1 = Append(T, o) /\ U2 = Append(U1, i) /\ lev1 = lev + 1
  BY <1>0
<1>2. PICK g : g = Len(T) + 1
  OBVIOUS
<1>3. NestInv(p, U1, lev1) /\ IsOpen(U1, lev1, g)
  <2>1. FenceAlone(p, o)
    BY DEF FenceAlone
  <2>2. NestInv(p, U1, lev + 1) /\ IsOpen(U1, lev + 1, Len(T) + 1)
    BY <1>1, <2>1, NestOpen
  <2> QED BY <1>1, <1>2, <2>2
<1>4. U1 \in Seq(BlockTokens) /\ U1[g] = o
  BY <1>1, <1>2, Appended
<1>5. NestInv(p, U2, lev1)
  BY <1>1, <1>3, <1>4, NestLeaf
<1>6. /\ U2 \in Seq(BlockTokens) /\ Len(U2) = Len(U1) + 1 /\ Len(U1) \in Nat
      /\ DOMAIN U1 = 1..Len(U1)
      /\ U2[Len(U1) + 1] = i
      /\ \A k \in DOMAIN U1 : k \in DOMAIN U2 /\ U2[k] = U1[k]
      /\ \A k \in DOMAIN U2 : k \in DOMAIN U1 \/ k = Len(U1) + 1
  BY <1>1, <1>4, Appended
<1>7. IsOpen(U2, lev1, g)
  <2>1. Grown(U1, U2)
    BY <1>6 DEF Grown
  <2>2. \A k \in DOMAIN U2 : k \notin DOMAIN U1 => U2[k].level >= lev1
    BY <1>1, <1>6
  <2> QED BY <1>1, <1>3, <1>4, <1>6, <2>1, <2>2, OpenStays
<1>8. U2[g] = o /\ g \in DOMAIN U2
  BY <1>3, <1>4, <1>6 DEF IsOpen
<1>9. HiddenRight(p, U, g, Len(U2) + 1)
  <2>1. U[g] = o
    BY <1>1, <1>6, <1>8, Appended
  <2> QED BY <2>1 DEF HiddenRight
<1>10. lev1 >= 1 /\ c.level = lev1 - 1 /\ lev1 - 1 = lev
  BY <1>1
<1>11. NestInv(p, U, lev1 - 1)
  <2>1. U = Append(U2, c)
    BY <1>1
  <2>2. U2[g].type = "container_open" =>
           /\ \A k \in DOMAIN U2 : k > g /\ isLeaf(U2[k]) => U2[k].from > U2[g].from /\ U2[k].to <= c.from
           /\ c.to > c.from => p[c.from].markers >= p[U2[g].from].markers
    BY <1>8
  <2>3. Ending[c.type] = U2[g].type
    BY <1>8
  <2> QED BY <1>5, <1>6, <1>7, <1>9, <1>10, <2>1, <2>2, <2>3, NestClose
<1> QED BY <1>10, <1>11

-----------------------------------------------------------------------------
(* BlockParagraph keeps the invariant. *)
LEMMA ParagraphKeeps ==
  ASSUME NEW p, NEW line, NEW at, NEW tight, NEW T, NEW F, NEW f, NEW E, NEW e,
         Reading(p, line, at, tight, T, F, f, E, e),
         bl = ReadingState(p, line, at, tight, T, Append(F, f), e), BlockParagraph
  PROVE  IsReading(bl')
<1>1. /\ Ready(bl, F, f)
      /\ bl.page = p /\ bl.line = line /\ bl.lineMax = e.lineMax /\ bl.blkIndent = e.blk
      /\ bl.ddIndent = e.dd /\ bl.at = at /\ bl.level = e.level /\ bl.tokens = T
  BY ReadyThere
<1>2. /\ GoodPage(p) /\ T \in Seq(BlockTokens) /\ F \in Seq(Frames) /\ f \in Frames
      /\ E \in Seq(Ghosts) /\ e \in Ghosts /\ Len(E) = Len(F) /\ tight \in BOOLEAN
      /\ Stack(p, line, T, F, E) /\ TopOK(p, line, T, F, f, E, e)
      /\ \A i \in DOMAIN E : Narrower(E[i], e)
      /\ line \in Nat /\ 1 <= line /\ line <= e.lineMax /\ e.lineMax \in Nat
  BY ReadingFacts
<1>3. reads /\ \E end \in (start + 1)..bl.lineMax :
           /\ \A k \in start..(end - 1) : ~Blank(bl.page, k)
           /\ bl' = StateOf(bl.page, Behind(bl.page, f, end), bl.lineMax, bl.blkIndent, bl.ddIndent,
                            bl.at, ~f.hasEmpty, bl.level,
                            WithParagraph(bl.tokens, bl.level, start, end),
                            Append(F, Marked(bl.page, f, end)))
  BY <1>1, ParagraphStep
<1>4. PICK s : s = start
  OBVIOUS
<1>5. PICK end \in (s + 1)..e.lineMax :
        bl' = StateOf(p, Behind(p, f, end), e.lineMax, e.blk, e.dd, at, ~f.hasEmpty, e.level,
                      WithParagraph(T, e.level, s, end), Append(F, Marked(p, f, end)))
  BY <1>1, <1>3, <1>4
<1>6. /\ s \in Nat /\ line <= s /\ s < e.lineMax
      /\ \A k \in line..(s - 1) : Blank(p, k)
  BY <1>3, <1>4, BlockStart
<1>7. end \in Nat /\ s < end /\ end <= e.lineMax /\ line <= end /\ 1 <= end /\ e.level \in Nat
  BY <1>2, <1>5, <1>6, GhostFields
<1>8. PICK o, i, c, U :
        /\ o = tokenOf("paragraph_open", e.level, s, end) /\ i = tokenOf("inline", e.level + 1, s, end)
        /\ c = tokenOf("paragraph_close", e.level, s, end)
        /\ U = Append(Append(Append(T, o), i), c)
  OBVIOUS
<1>9. /\ o \in BlockTokens /\ o.type = "paragraph_open" /\ o.level = e.level /\ o.from = s /\ ~o.hidden
      /\ i \in BlockTokens /\ i.type = "inline" /\ i.level = e.level + 1 /\ i.from = s /\ i.to = end
      /\ c \in BlockTokens /\ c.type = "paragraph_close" /\ c.level = e.level
  <2>1. PICK o1, i1, c1, l1 : o1 = "paragraph_open" /\ i1 = "inline" /\ c1 = "paragraph_close" /\ l1 = e.level + 1
    OBVIOUS
  <2>2. o1 \in TokenTypes /\ i1 \in TokenTypes /\ c1 \in TokenTypes
    BY <2>1, Kinds DEF TokenTypes
  <2>3. /\ e.level \in Nat /\ l1 \in Nat /\ s \in Nat /\ end \in Nat
        /\ o = tokenOf(o1, e.level, s, end) /\ i = tokenOf(i1, l1, s, end) /\ c = tokenOf(c1, e.level, s, end)
    BY <1>6, <1>7, <1>8, <2>1
  <2>4. IsToken(o, o1, e.level, s, end) /\ IsToken(i, i1, l1, s, end) /\ IsToken(c, c1, e.level, s, end)
    BY ONLY <2>2, <2>3, TokenMade
  <2> QED BY <2>1, <2>4 DEF IsToken
<1>10. isLeaf(i) /\ Begins(o) /\ ~Begins(c) /\ ~isLeaf(o) /\ ~isLeaf(c)
  BY <1>9, Kinds DEF isLeaf, Begins
<1>11. /\ Len(U) = Len(T) + 3 /\ Len(T) \in Nat /\ U \in Seq(BlockTokens) /\ Grown(T, U)
       /\ U[Len(T) + 1] = o /\ U[Len(T) + 2] = i /\ U[Len(T) + 3] = c /\ U[Len(U)] = c
       /\ Len(T) + 2 \in DOMAIN U /\ Len(T) + 2 \notin DOMAIN T
       /\ \A k \in DOMAIN U : k \in Nat /\ (k \notin DOMAIN T => k = Len(T) + 1 \/ k = Len(T) + 2 \/ k = Len(T) + 3)
       /\ Grown(Append(T, o), U) /\ Len(Append(T, o)) = Len(T) + 1 /\ Append(T, o) \in Seq(BlockTokens)
       /\ \A k \in DOMAIN U : k \notin DOMAIN Append(T, o) => k = Len(T) + 2 \/ k = Len(T) + 3
  <2>1. Wrapped(T, U, o, i, c)
    BY <1>2, <1>8, <1>9, Wraps
  <2> QED BY <2>1 DEF Wrapped
<1>12. NestInv(p, U, e.level)
  <2>1. /\ o.type \in Openers /\ o.type \notin {"container_open", "dl_open"}
        /\ c.type \in DOMAIN Ending /\ Ending[c.type] = o.type
    BY <1>9, Kinds
  <2>2. NestInv(p, T, e.level)
    BY DEF Reading
  <2>3. PICK lev : lev = e.level
    OBVIOUS
  <2>4. T \in Seq(BlockTokens) /\ lev \in Nat /\ NestInv(p, T, lev) /\ U = Append(Append(Append(T, o), i), c)
    BY <1>2, <1>7, <1>8, <2>2, <2>3
  <2>6. IsText(o, i, c, lev)
    BY <1>9, <1>10, <2>1, <2>3 DEF IsText
  <2>5. NestInv(p, U, lev)
    BY ONLY <2>4, <2>6, NestAround
  <2> QED BY <2>3, <2>5
<1>13. Suspended(p, U, f, e)
  <2>1. f \in ListFrames => e.tok \in DOMAIN T /\ T[e.tok].type = "dd_open"
    BY <1>2, TopFacts
  <2>2. OnTop(p, line, tight, T, f, e) /\ s <= e.lineMax
    BY <1>2, <1>6 DEF Reading
  <2>3. PICK U1 : U1 = Append(T, o)
    OBVIOUS
  <2>4. Suspended(p, U1, f, e)
    BY <1>2, <1>6, <1>9, <1>10, <2>1, <2>2, <2>3, BlockBegins
  <2>5. U1 \in Seq(BlockTokens) /\ Grown(U1, U) /\ \A k \in DOMAIN U : k \notin DOMAIN U1 => k = Len(T) + 2 \/ k = Len(T) + 3
    BY <1>11, <2>3
  <2>6. f \in ListFrames => e.tok \in DOMAIN U1
    BY <1>2, <1>9, <2>1, <2>3, Appended
  <2>7. \A k \in DOMAIN U : k \notin DOMAIN U1 => ~ (U[k].level = e.level /\ Begins(U[k]))
    BY <1>7, <1>9, <1>10, <1>11, <2>5
  <2> QED BY <1>11, <2>4, <2>5, <2>6, <2>7, SuspendedStays
<1>14. CoverInv(p, U, end)
  <2>1. p \in Seq(PageLines) /\ CoverInv(p, T, line)
    BY <1>2 DEF GoodPage, Reading
  <2>2. \A l \in DOMAIN p : Covers(i, l) <=> s <= l /\ l < end
    BY <1>6, <1>7, <1>9, <1>10, <2>1, LeafCovers
  <2>3. \A l : ~Covers(o, l) /\ ~Covers(c, l)
    BY <1>9, OthersCoverNot
  <2>4. PICK m \in DOMAIN U : m = Len(T) + 2 /\ m \notin DOMAIN T /\ U[m] = i
    BY <1>11
  <2>5. \A k \in DOMAIN U, l \in DOMAIN p : k \notin DOMAIN T /\ k # m => ~Covers(U[k], l)
    BY <1>11, <2>3, <2>4
  <2>6. \A l \in DOMAIN p : Covers(U[m], l) <=> s <= l /\ l < end
    BY <2>2, <2>4
  <2>7. s <= end
    BY <1>6, <1>7
  <2> QED BY <1>2, <1>6, <1>7, <1>11, <2>1, <2>4, <2>5, <2>6, <2>7, CoverBlock
<1>15. U[Len(U)].type \notin {"dd_open", "dt_open"}
  BY <1>9, <1>11
<1>16. AtInv(p, at, Append(F, f)) /\ AllSuspended(p, T, F, E)
  BY DEF Reading
<1>17. Within(T, U, e.level, line, e.lineMax)
  <2>1. Fits(o, e.level, line, e.lineMax) /\ Fits(i, e.level, line, e.lineMax) /\ Fits(c, e.level, line, e.lineMax)
    BY <1>6, <1>7, <1>9, <1>10 DEF Fits
  <2> QED BY <1>11, <2>1 DEF Within, Fits
<1>18. Reading(p, Behind(p, f, end), at, ~f.hasEmpty, U, F, Marked(p, f, end), E, e)
  BY <1>2, <1>7, <1>11, <1>12, <1>13, <1>14, <1>15, <1>16, <1>17, Resumes
<1>19. bl' = ReadingState(p, Behind(p, f, end), at, ~f.hasEmpty, U, Append(F, Marked(p, f, end)), e)
  BY <1>5, <1>8 DEF ReadingState, WithParagraph
<1>20. PICK l2, h2, g2 : l2 = Behind(p, f, end) /\ h2 = ~f.hasEmpty /\ g2 = Marked(p, f, end)
  OBVIOUS
<1>21. Reading(p, l2, at, h2, U, F, g2, E, e) /\ bl' = ReadingState(p, l2, at, h2, U, Append(F, g2), e)
  BY <1>18, <1>19, <1>20
<1> QED BY ONLY <1>21 DEF IsReading

-----------------------------------------------------------------------------
(* What is known of the frames F, the one on top of which is that of e. *)
Below(p, line, T, F, E, e) ==
  /\ Stack(p, line, T, F, E) /\ AllSuspended(p, T, F, E)
  /\ F \in Seq(Frames) /\ E \in Seq(Ghosts) /\ F # <<>> /\ Len(E) = Len(F) /\ E[Len(E)] = e

(* A frame begins to read behind token t, which opens a block of the frame that was on top. *)
LEMMA StackOpens ==
  ASSUME NEW p, NEW line \in Nat, NEW line2 \in Nat, line <= line2, NEW T \in Seq(BlockTokens),
         NEW U \in Seq(BlockTokens), NEW F \in Seq(Frames), NEW f \in Frames, NEW E \in Seq(Ghosts),
         NEW e \in Ghosts, Stack(p, line, T, F, E), TopOK(p, line, T, F, f, E, e),
         \A i \in DOMAIN E : Narrower(E[i], e), Len(E) = Len(F),
         AllSuspended(p, T, F, E), Grown(T, U), Within(T, U, e.level, line, e.lineMax),
         Suspended(p, U, f, e), NEW F2, F2 = Append(F, f), NEW E2, E2 = Append(E, e)
  PROVE  Below(p, line2, U, F2, E2, e)
<1>0. e.level \in Nat /\ e.lineMax \in Nat /\ \A i \in DOMAIN E : E[i] \in Ghosts /\ E[i].level \in Nat /\ E[i].lineMax \in Nat
  BY GhostFields
<1>1. /\ E2 \in Seq(Ghosts) /\ Len(E2) = Len(E) + 1 /\ Len(E) \in Nat
      /\ DOMAIN E2 = 1..(Len(E) + 1) /\ DOMAIN E = 1..Len(E) /\ E2[Len(E) + 1] = e
      /\ \A k \in DOMAIN E : E2[k] = E[k]
  BY OnFrames
<1>2. F2 \in Seq(Frames) /\ Len(F2) = Len(F) + 1 /\ Len(F) \in Nat /\ (F2 = <<>> <=> Len(F2) = 0)
  BY OnFrames
<1>3. \A i \in DOMAIN E : E[i].level < e.level /\ E[i].level <= e.level /\ e.lineMax <= E[i].lineMax
  BY <1>0 DEF Narrower
<1>4. Stack(p, line, T, F2, E2)
  BY StackPushes
<1>5. \A i \in DOMAIN E2 : E2[i].level <= e.level /\ e.lineMax <= E2[i].lineMax
  <2> TAKE i \in DOMAIN E2
  <2>1. i \in DOMAIN E \/ i = Len(E) + 1
    BY <1>1
  <2>2. CASE i \in DOMAIN E
    BY <1>1, <1>3, <2>2
  <2>3. CASE i = Len(E) + 1
    BY <1>0, <1>1, <2>3
  <2> QED BY <2>1, <2>2, <2>3
<1>6. Stack(p, line2, U, F2, E2)
  <2>1. PICK lev, lm : lev = e.level /\ lm = e.lineMax
    OBVIOUS
  <2>2. lev \in Nat /\ lm \in Nat /\ Within(T, U, lev, line, lm) /\ \A i \in DOMAIN E2 : E2[i].level <= lev /\ lm <= E2[i].lineMax
    BY <1>0, <1>5, <2>1
  <2> QED BY <1>4, <2>2, StackGrows
<1>7. \A k \in DOMAIN U, i \in DOMAIN E : k \notin DOMAIN T => U[k].level # E[i].level
  <2> SUFFICES ASSUME NEW k \in DOMAIN U, NEW i \in DOMAIN E, k \notin DOMAIN T
               PROVE  U[k].level # E[i].level
    OBVIOUS
  <2>1. U[k].level >= e.level /\ U[k].level \in Nat
    BY TokenFields DEF Within
  <2> QED BY <1>0, <1>3, <2>1
<1>8. AllSuspended(p, U, F, E)
  BY <1>7, AllSuspendedStays
<1>9. AllSuspended(p, U, F2, E2)
  BY <1>8, SuspendedPush
<1>10. Len(E2) = Len(F2) /\ F2 # <<>> /\ E2[Len(E2)] = e
  BY <1>1, <1>2
<1> QED BY <1>1, <1>2, <1>6, <1>9, <1>10 DEF Below

(* The lines behind the one being read are as they are in the page. *)
LEMMA LinesAhead ==
  ASSUME NEW p, NEW line, NEW at, NEW tight, NEW T, NEW F, NEW f, NEW E, NEW e,
         Reading(p, line, at, tight, T, F, f, E, e), NEW l \in DOMAIN p, l > line
  PROVE  /\ ~Enters(Append(F, f), l) /\ at[l] = Origin(p, l)
         /\ at[l].indent = p[l].indent /\ at[l].marks = p[l].marks
<1>1. GoodPage(p) /\ \A k \in Nat : k > line => ~Enters(Append(F, f), k)
  BY ReadingFacts
<1>2. l \in Nat /\ Origin(p, l).indent = p[l].indent /\ Origin(p, l).marks = p[l].marks
  BY <1>1, LineFields
<1>3. AtInv(p, at, Append(F, f))
  BY DEF Reading
<1> QED BY <1>1, <1>2, <1>3 DEF AtInv

(* The fields of the frame of a container. *)
IsContainer(g, end, found, lm) ==
  /\ g \in ContainerFrames /\ g \in Frames /\ g \notin ListFrames
  /\ g.endLine = end /\ g.auto_closed = found /\ g.lineMax = lm

(* The frame of a new container has them. *)
LEMMA ContainerFrameFields ==
  ASSUME NEW end \in Nat, NEW found \in BOOLEAN, NEW lm \in Nat, NEW g, g = ContainerFrame(end, found, lm)
  PROVE  IsContainer(g, end, found, lm)
<1>1. /\ g \in ContainerFrames /\ g.endLine = end /\ g.auto_closed = found /\ g.lineMax = lm
  BY DEF ContainerFrame, ContainerFrames
<1> QED BY <1>1, FramesDiffer DEF Frames, IsContainer

(* Container keeps the invariant. *)
LEMMA ContainerKeeps ==
  ASSUME NEW p, NEW line, NEW at, NEW tight, NEW T, NEW F, NEW f, NEW E, NEW e,
         Reading(p, line, at, tight, T, F, f, E, e),
         bl = ReadingState(p, line, at, tight, T, Append(F, f), e), Container
  PROVE  IsReading(bl')
<1>1. /\ Ready(bl, F, f)
      /\ bl.page = p /\ bl.line = line /\ bl.lineMax = e.lineMax /\ bl.blkIndent = e.blk
      /\ bl.ddIndent = e.dd /\ bl.at = at /\ bl.tight = tight /\ bl.level = e.level /\ bl.tokens = T
  BY ReadyThere
<1>2. /\ GoodPage(p) /\ T \in Seq(BlockTokens) /\ F \in Seq(Frames) /\ f \in Frames
      /\ E \in Seq(Ghosts) /\ e \in Ghosts /\ Len(E) = Len(F) /\ tight \in BOOLEAN
      /\ Stack(p, line, T, F, E) /\ TopOK(p, line, T, F, f, E, e)
      /\ \A i \in DOMAIN E : Narrower(E[i], e)
      /\ line \in Nat /\ 1 <= line /\ line <= e.lineMax /\ e.lineMax \in Nat
  BY ReadingFacts
<1>3. reads /\ \E end, found :
           /\ ContainerGoes(bl.page, bl.at, bl.blkIndent, bl.lineMax, start, end, found)
           /\ bl' = StateOf(bl.page, start + 1, end, bl.blkIndent, bl.ddIndent,
                            bl.at, bl.tight, bl.level + 1,
                            Append(bl.tokens, tokenOf("container_open", bl.level, start, end)),
                            Append(Append(F, f), ContainerFrame(end, found, bl.lineMax)))
  BY <1>1, ContainerStep
<1>4. PICK s : s = start
  OBVIOUS
<1>5. PICK end, found :
        /\ ContainerGoes(p, at, e.blk, e.lineMax, s, end, found)
        /\ bl' = StateOf(p, s + 1, end, e.blk, e.dd, at, tight, e.level + 1,
                         Append(T, tokenOf("container_open", e.level, s, end)),
                         Append(Append(F, f), ContainerFrame(end, found, e.lineMax)))
  BY <1>1, <1>3, <1>4
<1>6. /\ s \in Nat /\ line <= s /\ s < e.lineMax /\ s \in DOMAIN p
      /\ \A k \in line..(s - 1) : Blank(p, k)
  BY <1>3, <1>4, BlockStart
<1>7. /\ end \in Nat /\ s < end /\ end <= e.lineMax /\ line <= s + 1 /\ 1 <= s + 1 /\ s + 1 <= end
      /\ s + 1 \in Nat /\ e.level \in Nat /\ e.level + 1 \in Nat /\ found \in BOOLEAN
  <2>1. end \in (s + 1)..e.lineMax /\ found \in BOOLEAN
    BY <1>5 DEF ContainerGoes
  <2> QED BY <1>2, <1>6, <2>1, GhostFields
<1>8. PICK t, U : t = tokenOf("container_open", e.level, s, end) /\ U = Append(T, t)
  OBVIOUS
<1>9. t \in BlockTokens /\ t.type = "container_open" /\ t.level = e.level /\ t.from = s /\ t.to = end
  <2>1. PICK type : type = "container_open"
    OBVIOUS
  <2>2. type \in TokenTypes
    BY <2>1, Kinds DEF TokenTypes
  <2>3. t = tokenOf(type, e.level, s, end) /\ e.level \in Nat /\ s \in Nat /\ end \in Nat
    BY <1>6, <1>7, <1>8, <2>1
  <2>4. IsToken(t, type, e.level, s, end)
    BY ONLY <2>2, <2>3, TokenMade
  <2> QED BY <2>1, <2>4 DEF IsToken
<1>10. Begins(t) /\ ~isLeaf(t) /\ t.type \in Openers
  BY <1>9, Kinds DEF isLeaf, Begins
<1>11. /\ U \in Seq(BlockTokens) /\ Grown(T, U) /\ Within(T, U, e.level, line, e.lineMax)
       /\ Len(U) = Len(T) + 1 /\ Len(T) \in Nat /\ U[Len(T) + 1] = t /\ Len(T) + 1 \in DOMAIN U
       /\ Len(T) + 1 \notin DOMAIN T
       /\ \A k \in DOMAIN U : k \notin DOMAIN T => k = Len(T) + 1 /\ U[k] = t
  <2>1. Fits(t, e.level, line, e.lineMax)
    BY <1>7, <1>9, <1>10 DEF Fits
  <2>2. Added(T, U, t, e.level, line, e.lineMax)
    BY <1>2, <1>7, <1>8, <1>9, <2>1, OneMore
  <2>3. U[Len(T) + 1] = t
    BY <1>2, <1>8, <1>9, Appended
  <2> QED BY <2>2, <2>3 DEF Added
<1>12. Suspended(p, U, f, e)
  <2>1. f \in ListFrames => e.tok \in DOMAIN T /\ T[e.tok].type = "dd_open"
    BY <1>2, TopFacts
  <2>2. OnTop(p, line, tight, T, f, e) /\ s <= e.lineMax
    BY <1>2, <1>6 DEF Reading
  <2> QED BY <1>2, <1>6, <1>8, <1>9, <1>10, <2>1, <2>2, BlockBegins
<1>13. PICK F2, E2, f2, e2, tok :
         /\ F2 = Append(F, f) /\ E2 = Append(E, e) /\ f2 = ContainerFrame(end, found, e.lineMax)
         /\ tok = Len(T) + 1
         /\ e2 = [lineMax |-> end, blk |-> e.blk, dd |-> e.dd, level |-> e.level + 1, tok |-> tok]
  OBVIOUS
<1>14. /\ e2 \in Ghosts /\ e2.lineMax = end /\ e2.blk = e.blk /\ e2.dd = e.dd
       /\ e2.level = e.level + 1 /\ e2.tok = tok /\ tok \in Nat
  <2>1. e.blk \in Nat /\ e.dd \in Nat \cup {-1}
    BY <1>2, GhostFields
  <2> QED BY <1>7, <1>11, <1>13, <2>1 DEF Ghosts
<1>15. /\ f2 \in ContainerFrames /\ f2 \in Frames /\ f2 \notin ListFrames
       /\ f2.endLine = end /\ f2.auto_closed = found /\ f2.lineMax = e.lineMax
  <2>1. PICK lm : lm = e.lineMax
    OBVIOUS
  <2>2. end \in Nat /\ found \in BOOLEAN /\ lm \in Nat /\ f2 = ContainerFrame(end, found, lm)
    BY <1>2, <1>7, <1>13, <2>1
  <2>3. IsContainer(f2, end, found, lm)
    BY ONLY <2>2, ContainerFrameFields
  <2> QED BY <2>1, <2>3 DEF IsContainer
<1>16. /\ Stack(p, s + 1, U, F2, E2) /\ AllSuspended(p, U, F2, E2)
       /\ F2 \in Seq(Frames) /\ E2 \in Seq(Ghosts) /\ F2 # <<>> /\ Len(E2) = Len(F2) /\ E2[Len(E2)] = e
  <2>1. AllSuspended(p, T, F, E)
    BY DEF Reading
  <2>2. PICK x : x = s + 1
    OBVIOUS
  <2>3. x \in Nat /\ line <= x /\ F2 = Append(F, f) /\ E2 = Append(E, e)
    BY <1>7, <1>13, <2>2
  <2>4. Below(p, x, U, F2, E2, e)
    BY ONLY <1>2, <1>11, <1>12, <2>1, <2>3, StackOpens
  <2> QED BY <2>2, <2>4 DEF Below
<1>17. p \in Seq(PageLines) /\ DOMAIN p = 1..Len(p) /\ Len(p) \in Nat
  BY <1>2 DEF GoodPage
<1>18. FenceAlone(p, t)
  BY <1>5, <1>9 DEF FenceAlone, ContainerGoes
<1>19. NestInv(p, U, e2.level) /\ IsOpen(U, e2.level, tok)
  <2>1. NestInv(p, T, e.level)
    BY DEF Reading
  <2>2. NestInv(p, U, e.level + 1) /\ IsOpen(U, e.level + 1, Len(T) + 1)
    BY <1>2, <1>7, <1>8, <1>9, <1>10, <1>18, <2>1, NestOpen
  <2> QED BY <1>13, <1>14, <2>2
<1>20. EndsList(p, e2)
  <2>1. CASE end = e.lineMax
    <3>1. EndsList(p, e)
      BY <1>2 DEF TopOK
    <3> QED BY <1>14, <2>1, <3>1 DEF EndsList
  <2>2. CASE end # e.lineMax
    <3>1. end \in DOMAIN p /\ (at[end].marks = <<>> \/ at[end].indent < e.blk)
      BY <1>5, <2>2 DEF ContainerGoes
    <3>2. end > line
      BY <1>2, <1>6, <1>7
    <3>3. at[end].indent = p[end].indent /\ at[end].marks = p[end].marks
      BY <3>1, <3>2, LinesAhead
    <3> QED BY <1>14, <3>1, <3>3 DEF EndsList
  <2> QED BY <2>1, <2>2
<1>21. ContainerOK(p, s + 1, U, f2, e, e2)
  <2>1. \A k \in (s + 1)..(e2.lineMax - 1) : k \in DOMAIN p /\ ~Blank(p, k) => p[k].indent >= e2.blk
    <3> SUFFICES ASSUME NEW k \in (s + 1)..(end - 1), k \in DOMAIN p, ~Blank(p, k)
                 PROVE  p[k].indent >= e.blk
      BY <1>14
    <3>1. at[k].indent >= e.blk
      BY <1>5 DEF ContainerGoes
    <3>2. k > line
      BY <1>2, <1>6, <1>7
    <3> QED BY <3>1, <3>2, LinesAhead
  <2>2. \A k \in DOMAIN U : ~ (k > tok)
    BY <1>11, <1>13, Appended, <1>2, <1>8, <1>9
  <2>3. U[tok].type = "container_open" /\ U[tok].from = s /\ s < s + 1
    BY <1>6, <1>9, <1>11, <1>13
  <2>4. f2.auto_closed => e2.lineMax < e.lineMax /\ p[e2.lineMax].markers >= p[s].markers
    BY <1>5, <1>14, <1>15 DEF ContainerGoes
  <2> QED BY <1>7, <1>14, <1>15, <1>19, <2>1, <2>2, <2>3, <2>4 DEF ContainerOK
<1>22. TopOK(p, s + 1, U, F2, f2, E2, e2)
  <2>1. Narrower(e, e2)
    <3>1. e.blk \in Nat
      BY <1>2, GhostFields
    <3> QED BY <1>7, <1>14, <3>1 DEF Narrower
  <2>2. FrameOK(p, s + 1, U, f2, E2[Len(E2)], e2) /\ Narrower(E2[Len(E2)], e2)
    BY <1>16, <1>21, <2>1 DEF FrameOK
  <2> QED BY <1>14, <1>15, <1>16, <1>20, <2>2 DEF TopOK
<1>23. Stack(p, s + 1, U, Append(F2, f2), Append(E2, e2))
  BY <1>14, <1>15, <1>16, <1>22, StackPushes
<1>24. AtInv(p, at, Append(F2, f2))
  <2>1. AtInv(p, at, F2)
    BY <1>13 DEF Reading
  <2> QED BY <1>15, <1>16, <2>1, AtAside
<1>25. CoverInv(p, U, s + 1)
  <2>1. PICK c \in DOMAIN U : c = Len(T) + 1 /\ c \notin DOMAIN T /\ U[c] = t
    BY <1>11
  <2>2. \A k \in DOMAIN U, l \in DOMAIN p : k \notin DOMAIN T /\ k # c => ~Covers(U[k], l)
    BY <1>11, <2>1
  <2>3. \A l \in DOMAIN p : Covers(U[c], l) <=> s <= l /\ l < s + 1
    BY <1>6, <1>9, <1>10, <1>17, <2>1 DEF Covers
  <2>4. s <= s + 1 /\ CoverInv(p, T, line)
    BY <1>6 DEF Reading
  <2> QED BY <1>2, <1>6, <1>7, <1>11, <1>17, <2>1, <2>2, <2>3, <2>4, CoverBlock
<1>26. PICK x : x = s + 1
  OBVIOUS
<1>27. Reading(p, x, at, tight, U, F2, f2, E2, e2)
  <2>1. x \in 1..e2.lineMax
    BY <1>7, <1>14, <1>26
  <2>2. OnTop(p, x, tight, U, f2, e2)
    BY <1>15 DEF OnTop
  <2>3. /\ Stack(p, x, U, Append(F2, f2), Append(E2, e2)) /\ CoverInv(p, U, x)
    BY <1>23, <1>25, <1>26
  <2> QED BY <1>2, <1>11, <1>14, <1>15, <1>16, <1>19, <1>24, <2>1, <2>2, <2>3 DEF Reading
<1>28. bl' = ReadingState(p, x, at, tight, U, Append(F2, f2), e2)
  BY <1>5, <1>8, <1>13, <1>14, <1>26 DEF ReadingState
<1> QED BY ONLY <1>27, <1>28 DEF IsReading

-----------------------------------------------------------------------------
(* The frame below the one on top. *)
LEMMA Under ==
  ASSUME NEW F \in Seq(Frames), NEW E \in Seq(Ghosts), F # <<>>, Len(E) = Len(F)
  PROVE  \E F1 \in Seq(Frames), g \in Frames, E1 \in Seq(Ghosts), ge \in Ghosts :
           F = Append(F1, g) /\ E = Append(E1, ge) /\ E[Len(E)] = ge
<1>1. PICK n \in Nat : n + 1 = Len(F)
  <2>1. Len(F) \in Nat /\ Len(F) # 0
    OBVIOUS
  <2>2. Len(F) - 1 \in Nat /\ (Len(F) - 1) + 1 = Len(F)
    BY <2>1
  <2> QED BY <2>2
<1>2. PICK F1, E1, g, ge : F1 = [i \in 1..n |-> F[i]] /\ E1 = [i \in 1..n |-> E[i]] /\ g = F[n + 1] /\ ge = E[n + 1]
  OBVIOUS
<1>3. DOMAIN F = 1..(n + 1) /\ DOMAIN E = 1..(n + 1) /\ Len(E) = n + 1
  BY <1>1
<1>4. g \in Frames /\ ge \in Ghosts /\ F1 \in Seq(Frames) /\ E1 \in Seq(Ghosts) /\ Len(F1) = n /\ Len(E1) = n
  <2>1. n + 1 \in 1..(n + 1) /\ \A i \in 1..n : i \in 1..(n + 1)
    OBVIOUS
  <2>2. \A i \in 1..n : F[i] \in Frames /\ E[i] \in Ghosts
    BY <1>3, <2>1
  <2>3. F1 \in [1..n -> Frames] /\ E1 \in [1..n -> Ghosts]
    BY <1>2, <2>2
  <2> QED BY <1>1, <1>2, <1>3, <2>1, <2>3
<1>5. F = Append(F1, g)
  <2>1. PICK F2 : F2 = Append(F1, g)
    OBVIOUS
  <2>2. F2 \in Seq(Frames) /\ DOMAIN F2 = 1..(n + 1) /\ Len(F2) = n + 1 /\ F2[n + 1] = g /\ \A k \in 1..n : F2[k] = F1[k]
    BY <1>4, <2>1, OnFrames
  <2>3. \A k \in 1..(n + 1) : F2[k] = F[k]
    <3> TAKE k \in 1..(n + 1)
    <3>1. CASE k \in 1..n
      BY <1>2, <2>2, <3>1
    <3>2. CASE k = n + 1
      BY <1>2, <2>2, <3>2
    <3> QED BY <3>1, <3>2
  <2> QED BY <1>1, <2>1, <2>2, <2>3
<1>6. E = Append(E1, ge)
  <2>1. PICK E2 : E2 = Append(E1, ge)
    OBVIOUS
  <2>2. E2 \in Seq(Ghosts) /\ DOMAIN E2 = 1..(n + 1) /\ Len(E2) = n + 1 /\ E2[n + 1] = ge /\ \A k \in 1..n : E2[k] = E1[k]
    BY <1>4, <2>1, OnFrames
  <2>3. \A k \in 1..(n + 1) : E2[k] = E[k]
    <3> TAKE k \in 1..(n + 1)
    <3>1. CASE k \in 1..n
      BY <1>2, <2>2, <3>1
    <3>2. CASE k = n + 1
      BY <1>2, <2>2, <3>2
    <3> QED BY <3>1, <3>2
  <2> QED BY <1>3, <2>1, <2>2, <2>3
<1> QED BY <1>2, <1>3, <1>4, <1>5, <1>6

(* What is known of frame g below the one on top. *)
BelowTop(p, line, T, F, g, E, ge) ==
  /\ F \in Seq(Frames) /\ g \in Frames /\ E \in Seq(Ghosts) /\ ge \in Ghosts
  /\ Stack(p, line, T, F, E) /\ TopOK(p, line, T, F, g, E, ge) /\ Len(E) = Len(F)
  /\ \A i \in DOMAIN E : Narrower(E[i], ge)
  /\ AllSuspended(p, T, F, E) /\ Suspended(p, T, g, ge)
  /\ g \in ListFrames => ge.tok \in DOMAIN T /\ T[ge.tok].type = "dd_open"
  /\ g.endLine = ge.lineMax

(* The frame below the one on top waits. *)
LEMMA TopUnder ==
  ASSUME NEW p, NEW line, NEW at, NEW tight, NEW T, NEW F, NEW f, NEW E, NEW e,
         Reading(p, line, at, tight, T, F, f, E, e), F # <<>>
  PROVE  \E F1, g, E1, ge : /\ F = Append(F1, g) /\ E = Append(E1, ge) /\ E[Len(E)] = ge
                            /\ BelowTop(p, line, T, F1, g, E1, ge)
<1>1. /\ GoodPage(p) /\ F \in Seq(Frames) /\ E \in Seq(Ghosts) /\ Len(E) = Len(F) /\ Stack(p, line, T, F, E)
  BY ReadingFacts
<1>2. PICK F1 \in Seq(Frames), g \in Frames, E1 \in Seq(Ghosts), ge \in Ghosts :
           F = Append(F1, g) /\ E = Append(E1, ge) /\ E[Len(E)] = ge
  BY <1>1, Under
<1>3. /\ Stack(p, line, T, F1, E1) /\ TopOK(p, line, T, F1, g, E1, ge)
      /\ Len(E1) = Len(F1) /\ \A i \in DOMAIN E1 : Narrower(E1[i], ge)
  BY <1>1, <1>2, StackPops
<1>4. AllSuspended(p, T, F1, E1) /\ Suspended(p, T, g, ge)
  <2>1. AllSuspended(p, T, F, E)
    BY DEF Reading
  <2> QED BY <1>2, <1>3, <2>1, SuspendedPush
<1>5. /\ g \in ListFrames => ge.tok \in DOMAIN T /\ T[ge.tok].type = "dd_open"
      /\ g.endLine = ge.lineMax
  BY <1>1, <1>2, <1>3, TopFacts
<1>6. BelowTop(p, line, T, F1, g, E1, ge)
  BY <1>2, <1>3, <1>4, <1>5 DEF BelowTop
<1> QED BY <1>2, <1>6

-----------------------------------------------------------------------------
(* What a container that ends leaves: all its lines have been read. *)
LEMMA ContainerEnds ==
  ASSUME NEW p, NEW line, NEW at, NEW tight, NEW T, NEW F, NEW f, NEW E, NEW e,
         Reading(p, line, at, tight, T, F, f, E, e),
         bl = ReadingState(p, line, at, tight, T, Append(F, f), e), ends, f \in ContainerFrames
  PROVE  start = e.lineMax /\ \A k \in line..(e.lineMax - 1) : Blank(p, k)
<1>1. /\ Ready(bl, F, f)
      /\ bl.page = p /\ bl.line = line /\ bl.lineMax = e.lineMax /\ bl.blkIndent = e.blk /\ bl.at = at
  BY ReadyThere
<1>2. /\ GoodPage(p) /\ F \in Seq(Frames) /\ f \in Frames /\ E \in Seq(Ghosts) /\ e \in Ghosts
      /\ Len(E) = Len(F) /\ Stack(p, line, T, F, E) /\ TopOK(p, line, T, F, f, E, e)
      /\ \A i \in DOMAIN E : Narrower(E[i], e)
      /\ line \in Nat /\ line <= e.lineMax /\ e.lineMax \in Nat
  BY ReadingFacts
<1>3. PICK eo : ContainerOK(p, line, T, f, eo, e)
  BY <1>2, TopFacts
<1>4. /\ IsStart(p, line, e.lineMax, start)
      /\ \/ start = e.lineMax
         \/ start \in DOMAIN p /\ start < e.lineMax /\ ~Blank(p, start) /\ at[start].indent < e.blk
  BY <1>1, EndsThere
<1>5. PICK s : s = start
  OBVIOUS
<1>6. s \in line..e.lineMax /\ \A k \in line..(s - 1) : Blank(p, k)
  BY <1>4, <1>5 DEF IsStart
<1>7. s = e.lineMax
  <2> SUFFICES ASSUME s # e.lineMax PROVE FALSE
    OBVIOUS
  <2>1. s \in DOMAIN p /\ s < e.lineMax /\ ~Blank(p, s) /\ at[s].indent < e.blk
    BY <1>4, <1>5
  <2>2. s \in line..(e.lineMax - 1)
    BY <1>2, <1>6, <2>1
  <2>3. p[s].indent >= e.blk
    BY <1>3, <2>1, <2>2 DEF ContainerOK
  <2>4. AtInv(p, at, Append(F, f))
    BY DEF Reading
  <2>5. at[s].indent \in Nat /\ at[s].indent >= p[s].indent /\ p[s].indent \in Nat
    BY <1>2, <2>1, <2>4, AtIndent
  <2> QED BY <1>2, <2>1, <2>3, <2>5, GhostFields
<1> QED BY <1>5, <1>6, <1>7

(* CloseContainer keeps the invariant. *)
LEMMA CloseContainerKeeps ==
  ASSUME NEW p, NEW line, NEW at, NEW tight, NEW T, NEW F, NEW f, NEW E, NEW e,
         Reading(p, line, at, tight, T, F, f, E, e),
         bl = ReadingState(p, line, at, tight, T, Append(F, f), e), CloseContainer
  PROVE  IsReading(bl')
<1>1. /\ Ready(bl, F, f)
      /\ bl.page = p /\ bl.line = line /\ bl.lineMax = e.lineMax /\ bl.blkIndent = e.blk
      /\ bl.ddIndent = e.dd /\ bl.at = at /\ bl.tight = tight /\ bl.level = e.level /\ bl.tokens = T
  BY ReadyThere
<1>2. /\ GoodPage(p) /\ T \in Seq(BlockTokens) /\ F \in Seq(Frames) /\ f \in Frames
      /\ E \in Seq(Ghosts) /\ e \in Ghosts /\ Len(E) = Len(F) /\ tight \in BOOLEAN
      /\ Stack(p, line, T, F, E) /\ TopOK(p, line, T, F, f, E, e)
      /\ \A i \in DOMAIN E : Narrower(E[i], e)
      /\ line \in Nat /\ 1 <= line /\ line <= e.lineMax /\ e.lineMax \in Nat
  BY ReadingFacts
<1>3. ends /\ f \in ContainerFrames
  <2>1. ends /\ frameOn.rule = "container"
    BY DEF CloseContainer
  <2>2. frameOn = f
    BY <1>1, <2>1, EndsThere
  <2> QED BY <1>2, <2>1, <2>2, FramesDiffer DEF Frames
<1>4. F # <<>> /\ ContainerOK(p, line, T, f, E[Len(E)], e)
  BY <1>2, <1>3, TopFacts
<1>5. PICK F1, g, E1, ge : /\ F = Append(F1, g) /\ E = Append(E1, ge) /\ E[Len(E)] = ge
                           /\ BelowTop(p, line, T, F1, g, E1, ge)
  BY <1>4, TopUnder
<1>6. ContainerOK(p, line, T, f, ge, e)
  BY <1>4, <1>5
<1>7. /\ F1 \in Seq(Frames) /\ g \in Frames /\ E1 \in Seq(Ghosts) /\ ge \in Ghosts
      /\ Stack(p, line, T, F1, E1) /\ TopOK(p, line, T, F1, g, E1, ge) /\ Len(E1) = Len(F1)
      /\ \A i \in DOMAIN E1 : Narrower(E1[i], ge)
      /\ AllSuspended(p, T, F1, E1) /\ Suspended(p, T, g, ge)
      /\ g \in ListFrames => ge.tok \in DOMAIN T /\ T[ge.tok].type = "dd_open"
      /\ g.endLine = ge.lineMax
  BY <1>5 DEF BelowTop
<1>8. /\ f.lineMax = ge.lineMax /\ f.endLine = e.lineMax /\ e.lineMax <= ge.lineMax
      /\ f.auto_closed => e.lineMax < ge.lineMax
      /\ e.blk = ge.blk /\ e.dd = ge.dd /\ e.level = ge.level + 1
      /\ IsOpen(T, e.level, e.tok) /\ T[e.tok].type = "container_open"
      /\ \A k \in DOMAIN T : k > e.tok /\ isLeaf(T[k]) => T[k].from > T[e.tok].from /\ T[k].to <= e.lineMax
      /\ f.auto_closed => p[e.lineMax].markers >= p[T[e.tok].from].markers
  BY <1>6 DEF ContainerOK
<1>9. \E nx : /\ nx \in {f.endLine, f.endLine + 1} /\ (nx > f.endLine <=> f.auto_closed)
              /\ bl' = StateOf(bl.page, Behind(bl.page, g, nx), f.lineMax, bl.blkIndent,
                     bl.ddIndent, bl.at, ~g.hasEmpty, bl.level - 1,
                     Append(bl.tokens, tokenOf("container_close", bl.level - 1, f.endLine, nx)),
                     Append(F1, Marked(bl.page, g, nx)))
  BY <1>1, <1>5, <1>7, CloseContainerStep
<1>10. /\ ge.level \in Nat /\ ge.lineMax \in Nat /\ e.level \in Nat /\ e.level - 1 = ge.level /\ e.level >= 1
  <2>1. ge.level \in Nat /\ ge.lineMax \in Nat /\ e.level \in Nat
    BY <1>2, <1>7, GhostFields
  <2> QED BY <1>8, <2>1
<1>11. PICK lm \in Nat, nx \in Nat : lm = e.lineMax /\ nx \in {lm, lm + 1} /\ (nx > lm <=> f.auto_closed)
              /\ bl' = StateOf(p, Behind(p, g, nx), ge.lineMax, ge.blk, ge.dd, at, ~g.hasEmpty, ge.level,
                     Append(T, tokenOf("container_close", ge.level, lm, nx)),
                     Append(F1, Marked(p, g, nx)))
  BY <1>1, <1>2, <1>8, <1>9, <1>10
<1>12. lm <= nx /\ nx <= ge.lineMax /\ line <= nx /\ 1 <= nx
  <2>1. f.auto_closed => lm < ge.lineMax
    BY <1>8, <1>11
  <2>2. lm <= ge.lineMax /\ line <= lm
    BY <1>2, <1>8, <1>11
  <2> QED BY <1>2, <1>10, <1>11, <2>1, <2>2
<1>13. \A k \in line..(lm - 1) : Blank(p, k)
  BY <1>3, <1>11, ContainerEnds
<1>14. PICK t, U : t = tokenOf("container_close", ge.level, lm, nx) /\ U = Append(T, t)
  OBVIOUS
<1>15. t \in BlockTokens /\ t.type = "container_close" /\ t.level = ge.level /\ t.from = lm /\ t.to = nx
  <2>1. PICK type : type = "container_close"
    OBVIOUS
  <2>2. type \in TokenTypes
    BY <2>1, Kinds DEF TokenTypes
  <2>3. t = tokenOf(type, ge.level, lm, nx) /\ ge.level \in Nat /\ lm \in Nat /\ nx \in Nat
    BY <1>10, <1>11, <1>14, <2>1
  <2>4. IsToken(t, type, ge.level, lm, nx)
    BY ONLY <2>2, <2>3, TokenMade
  <2> QED BY <2>1, <2>4 DEF IsToken
<1>16. ~Begins(t) /\ ~isLeaf(t) /\ t.type \in DOMAIN Ending /\ Ending[t.type] = "container_open"
  BY <1>15, Kinds DEF isLeaf, Begins
<1>17. /\ U \in Seq(BlockTokens) /\ Grown(T, U) /\ Within(T, U, ge.level, line, ge.lineMax)
       /\ Len(U) = Len(T) + 1 /\ U[Len(U)] = t /\ Len(T) + 1 \in DOMAIN U
       /\ Len(T) + 1 \notin DOMAIN T
       /\ \A k \in DOMAIN U : k \notin DOMAIN T => k = Len(T) + 1 /\ U[k] = t
  <2>1. Fits(t, ge.level, line, ge.lineMax)
    BY <1>10, <1>15, <1>16 DEF Fits
  <2>2. Added(T, U, t, ge.level, line, ge.lineMax)
    BY <1>2, <1>10, <1>14, <1>15, <2>1, OneMore
  <2> QED BY <2>2 DEF Added
<1>18. PICK tok : tok = e.tok
  OBVIOUS
<1>19. /\ tok \in DOMAIN T /\ T[tok].type = "container_open" /\ IsOpen(T, e.level, tok)
       /\ U[tok] = T[tok]
  BY <1>8, <1>17, <1>18 DEF IsOpen, Grown
<1>20. NestInv(p, U, ge.level)
  <2>1. NestInv(p, T, e.level)
    BY DEF Reading
  <2>2. T[tok].type = "container_open" =>
           /\ \A k \in DOMAIN T : k > tok /\ isLeaf(T[k]) => T[k].from > T[tok].from /\ T[k].to <= t.from
           /\ t.to > t.from => p[t.from].markers >= p[T[tok].from].markers
    BY <1>8, <1>11, <1>15, <1>18
  <2>3. HiddenRight(p, U, tok, Len(T) + 1)
    BY <1>19 DEF HiddenRight
  <2>4. t.level = e.level - 1 /\ Ending[t.type] = T[tok].type
    BY <1>10, <1>15, <1>16, <1>19
  <2>5. NestInv(p, U, e.level - 1)
    BY <1>2, <1>10, <1>14, <1>15, <1>16, <1>19, <2>1, <2>2, <2>3, <2>4, NestClose
  <2> QED BY <1>10, <2>5
<1>21. Suspended(p, U, g, ge)
  <2>1. \A k \in DOMAIN U : k \notin DOMAIN T => ~ (U[k].level = ge.level /\ Begins(U[k]))
    BY <1>16, <1>17
  <2> QED BY <1>2, <1>7, <1>17, <2>1, SuspendedStays
<1>22. CoverInv(p, U, nx)
  <2>1. p \in Seq(PageLines) /\ CoverInv(p, T, line)
    BY <1>2 DEF GoodPage, Reading
  <2>2. PICK c \in DOMAIN U : c = Len(T) + 1 /\ c \notin DOMAIN T /\ U[c] = t
    BY <1>17
  <2>3. \A k \in DOMAIN U, l \in DOMAIN p : k \notin DOMAIN T /\ k # c => ~Covers(U[k], l)
    BY <1>17, <2>2
  <2>4. \A l \in DOMAIN p : Covers(U[c], l) <=> lm <= l /\ l < nx
    BY <1>11, <1>15, <1>16, <2>1, <2>2 DEF Covers
  <2>5. line <= lm
    BY <1>2, <1>11
  <2> QED BY <1>2, <1>11, <1>12, <1>13, <1>17, <2>1, <2>2, <2>3, <2>4, <2>5, CoverBlock
<1>23. AtInv(p, at, Append(F1, g))
  <2>1. AtInv(p, at, Append(F, f))
    BY DEF Reading
  <2>2. f \notin ListFrames
    BY <1>3, FramesDiffer
  <2>3. AtInv(p, at, F)
    BY <1>2, <2>1, <2>2, AtAside
  <2> QED BY <1>5, <2>3
<1>24. U[Len(U)].type \notin {"dd_open", "dt_open"}
  BY <1>15, <1>17
<1>25. Reading(p, Behind(p, g, nx), at, ~g.hasEmpty, U, F1, Marked(p, g, nx), E1, ge)
  BY <1>2, <1>7, <1>11, <1>12, <1>17, <1>20, <1>21, <1>22, <1>23, <1>24, Resumes
<1>26. bl' = ReadingState(p, Behind(p, g, nx), at, ~g.hasEmpty, U, Append(F1, Marked(p, g, nx)), ge)
  BY <1>11, <1>14 DEF ReadingState
<1>27. PICK l2, h2, g2 : l2 = Behind(p, g, nx) /\ h2 = ~g.hasEmpty /\ g2 = Marked(p, g, nx)
  OBVIOUS
<1>28. Reading(p, l2, at, h2, U, F1, g2, E1, ge) /\ bl' = ReadingState(p, l2, at, h2, U, Append(F1, g2), ge)
  BY <1>25, <1>26, <1>27
<1> QED BY ONLY <1>28 DEF IsReading

-----------------------------------------------------------------------------
(* The tokens of a list that is being read: token i opened it, and a term. *)
ListSoFar(T, i, lev) ==
  /\ IsOpen(T, lev, i) /\ T[i].type = "dl_open" /\ T[i + 1].type = "dt_open" /\ i + 1 \in DOMAIN T
  /\ \A k \in DOMAIN T : k > i =>
       /\ T[k].type = "dl_open" => T[k].level >= lev + 1
       /\ T[k].type = "paragraph_open" /\ T[k].level = lev + 1 => ~T[k].hidden

(* Token t opens a definition on line l. *)
IsDefinition(t, lev, l) ==
  t \in BlockTokens /\ t.type = "dd_open" /\ t.level = lev /\ t.from = l /\ t.to = l

(* What the state is in a definition on line l, eo being of the frame below. *)
ItemGhost(p, eo, l, tok) ==
  [lineMax |-> eo.lineMax, blk |-> p[l].indent + 2, dd |-> p[l].indent + 2, level |-> eo.level + 2, tok |-> tok]

(* The fields of the frame of a list. *)
IsListFrame(f, x, h, d, i, t, q, z) ==
  /\ f \in ListFrames /\ f \in Frames /\ f.endLine = x /\ f.hasEmpty = h /\ f.ddLine = d
  /\ f.listTok = i /\ f.tight = t /\ f.prevEmptyEnd = q /\ f.saved = z

(* The frame of a new list has them. *)
LEMMA ListFrameTyped ==
  ASSUME NEW x \in Nat, NEW h \in BOOLEAN, NEW d \in Nat, NEW i \in Nat, NEW t \in BOOLEAN,
         NEW q \in BOOLEAN, NEW z \in Saved, NEW f, f = ListFrame(x, h, d, i, t, q, z)
  PROVE  IsListFrame(f, x, h, d, i, t, q, z)
<1>1. f \in ListFrames
  BY DEF ListFrame, ListFrames
<1>2. /\ f.endLine = x /\ f.hasEmpty = h /\ f.ddLine = d
      /\ f.listTok = i /\ f.tight = t /\ f.prevEmptyEnd = q /\ f.saved = z
  BY DEF ListFrame
<1> QED BY <1>1, <1>2 DEF Frames, IsListFrame

(* The definition on line l begins, the frames below that of its list being those of F. *)
ItemStarts(p, l, at, tight, T, t, U, F, E, eo, lev, i, tt, q) ==
  /\ GoodPage(p) /\ l \in DOMAIN p /\ tight \in BOOLEAN /\ T \in Seq(BlockTokens) /\ U = Append(T, t)
  /\ eo \in Ghosts /\ Below(p, l, U, F, E, eo) /\ AtInv(p, at, F)
  /\ \A k \in DOMAIN F : F[k] \in ListFrames => F[k].ddLine < l
  /\ EndsList(p, eo) /\ DefinesAt(p, at, eo.blk, l) /\ l < eo.lineMax
  /\ lev \in Nat /\ lev = eo.level + 1 /\ IsDefinition(t, lev, l)
  /\ NestInv(p, T, lev) /\ i \in Nat /\ ListSoFar(T, i, lev) /\ CoverInv(p, T, l)
  /\ tt \in BOOLEAN /\ (tt <=> ~Loose(p, T, i, Len(T)))
  /\ q \in BOOLEAN /\ (q <=> Split(p, U, Len(U), lev))

(* So it is being read, its frame on top. *)
LEMMA ItemEntered ==
  ASSUME NEW p, NEW l, NEW at, NEW tight, NEW T, NEW t, NEW U, NEW F, NEW E, NEW eo, NEW lev, NEW i,
         NEW tt, NEW q, ItemStarts(p, l, at, tight, T, t, U, F, E, eo, lev, i, tt, q),
         NEW no, no = FALSE, NEW yes, yes = TRUE, NEW tok, tok = Len(U),
         NEW e, e = ItemGhost(p, eo, l, tok), NEW z, z = SavedOf(eo.blk, eo.dd, at, tight, l),
         NEW f, f = ListFrame(eo.lineMax, no, l, i, tt, q, z), NEW at2, at2 = EnteredAt(at, l)
  PROVE  Reading(p, l, at2, yes, U, F, f, E, e)
<1> /\ GoodPage(p) /\ l \in DOMAIN p /\ tight \in BOOLEAN /\ T \in Seq(BlockTokens) /\ U = Append(T, t)
    /\ eo \in Ghosts /\ Below(p, l, U, F, E, eo) /\ AtInv(p, at, F)
    /\ \A k \in DOMAIN F : F[k] \in ListFrames => F[k].ddLine < l
    /\ EndsList(p, eo) /\ DefinesAt(p, at, eo.blk, l) /\ l < eo.lineMax
    /\ lev \in Nat /\ lev = eo.level + 1 /\ IsDefinition(t, lev, l)
    /\ NestInv(p, T, lev) /\ i \in Nat /\ ListSoFar(T, i, lev) /\ CoverInv(p, T, l)
    /\ tt \in BOOLEAN /\ (tt <=> ~Loose(p, T, i, Len(T)))
    /\ q \in BOOLEAN /\ (q <=> Split(p, U, Len(U), lev))
  BY DEF ItemStarts
<1>1. /\ Stack(p, l, U, F, E) /\ AllSuspended(p, U, F, E)
      /\ F \in Seq(Frames) /\ E \in Seq(Ghosts) /\ F # <<>> /\ Len(E) = Len(F) /\ E[Len(E)] = eo
  BY DEF Below
<1>2. /\ eo.lineMax \in Nat /\ eo.blk \in Nat /\ eo.dd \in Nat \cup {-1} /\ eo.level \in Nat
  BY GhostFields
<1>3. ~Enters(F, l)
  <2>1. l \in Nat
    BY LineFields
  <2>2. \A k \in DOMAIN F : F[k] \in ListFrames => F[k].ddLine # l
    BY <2>1
  <2> QED BY <2>2 DEF Enters
<1>4. /\ at[l] = Origin(p, l) /\ at[l].indent = p[l].indent /\ at[l].marks = p[l].marks
      /\ l \in Nat /\ Origin(p, l) \in Ats /\ p[l].indent \in Nat
  <2>1. at[l] = Origin(p, l)
    BY <1>3 DEF AtInv
  <2> QED BY <2>1, LineFields
<1>5. p[l].marks # <<>> /\ p[l].indent >= eo.blk /\ ~Blank(p, l)
  <2>1. p[l].marks # <<>> /\ p[l].indent >= eo.blk
    BY <1>4 DEF DefinesAt
  <2> QED BY <2>1, LineFields
<1>6. z \in Saved /\ z.blkIndent = eo.blk /\ z.ddIndent = eo.dd /\ z.at = Origin(p, l)
  BY <1>2, <1>4 DEF SavedOf, Saved
<1>7. /\ f \in ListFrames /\ f \in Frames /\ f.endLine = eo.lineMax /\ f.hasEmpty = no /\ f.ddLine = l
      /\ f.listTok = i /\ f.tight = tt /\ f.prevEmptyEnd = q /\ f.saved = z
  <2>1. PICK x : x = eo.lineMax
    OBVIOUS
  <2>2. x \in Nat /\ no \in BOOLEAN /\ l \in Nat /\ f = ListFrame(x, no, l, i, tt, q, z)
    BY <1>2, <1>4, <2>1
  <2>3. z \in Saved /\ i \in Nat /\ tt \in BOOLEAN /\ q \in BOOLEAN
    BY <1>6
  <2>4. IsListFrame(f, x, no, l, i, tt, q, z)
    BY ONLY <2>2, <2>3, ListFrameTyped
  <2> QED BY <2>1, <2>4 DEF IsListFrame
<1>8. t \in BlockTokens /\ t.type = "dd_open" /\ t.level = lev /\ t.from = l
  BY DEF IsDefinition
<1>9. t.type \in Openers /\ ~isLeaf(t) /\ Begins(t)
  BY <1>8, Kinds DEF isLeaf, Begins
<1>10. /\ U \in Seq(BlockTokens) /\ Len(U) = Len(T) + 1 /\ Len(T) \in Nat
       /\ DOMAIN U = 1..(Len(T) + 1) /\ DOMAIN T = 1..Len(T)
       /\ U[Len(T) + 1] = t /\ Len(T) + 1 \in DOMAIN U
       /\ \A k \in DOMAIN T : k \in DOMAIN U /\ U[k] = T[k]
       /\ \A k \in DOMAIN U : k \in Nat /\ (k \in DOMAIN T \/ k = Len(T) + 1)
       /\ Grown(T, U)
  <2>1. T \in Seq(BlockTokens) /\ t \in BlockTokens /\ U = Append(T, t)
    BY <1>8
  <2>2. /\ U \in Seq(BlockTokens) /\ Len(U) = Len(T) + 1 /\ Len(T) \in Nat
        /\ DOMAIN U = 1..(Len(T) + 1) /\ DOMAIN T = 1..Len(T)
        /\ U[Len(T) + 1] = t /\ Len(T) + 1 \in DOMAIN U
        /\ \A k \in DOMAIN T : k \in DOMAIN U /\ U[k] = T[k]
    BY ONLY <2>1, Appended
  <2>3. \A k \in DOMAIN U : k \in Nat /\ (k \in DOMAIN T \/ k = Len(T) + 1)
    BY <2>2
  <2>4. Grown(T, U)
    BY <2>2 DEF Grown
  <2> QED BY ONLY <2>2, <2>3, <2>4
<1>11. /\ e \in Ghosts /\ e.lineMax = eo.lineMax /\ e.blk = p[l].indent + 2 /\ e.dd = p[l].indent + 2
       /\ e.level = eo.level + 2 /\ e.level = lev + 1 /\ e.tok = tok /\ tok \in Nat /\ tok = Len(T) + 1
       /\ e.blk \in Nat
  BY <1>2, <1>4, <1>10 DEF ItemGhost, Ghosts
<1>12. U[tok] = t /\ tok \in DOMAIN U
  BY <1>10, <1>11
<1>13. NestInv(p, U, e.level) /\ IsOpen(U, e.level, tok)
  <2>1. FenceAlone(p, t)
    BY <1>8 DEF FenceAlone
  <2>2. NestInv(p, U, lev + 1) /\ IsOpen(U, lev + 1, Len(T) + 1)
    BY <1>8, <1>9, <2>1, NestOpen
  <2> QED BY <1>11, <2>2
<1>14. /\ IsOpen(T, lev, i) /\ T[i].type = "dl_open" /\ T[i + 1].type = "dt_open" /\ i + 1 \in DOMAIN T
       /\ \A k \in DOMAIN T : k > i =>
            /\ T[k].type = "dl_open" => T[k].level >= lev + 1
            /\ T[k].type = "paragraph_open" /\ T[k].level = lev + 1 => ~T[k].hidden
       /\ i \in DOMAIN T
  BY DEF ListSoFar, IsOpen
<1>15. IsOpen(U, lev, i) /\ U[i].type = "dl_open" /\ U[i + 1].type = "dt_open" /\ i < tok
  <2>1. \A j \in DOMAIN U : j \notin DOMAIN T => U[j].level >= lev
    BY <1>8, <1>10
  <2>2. IsOpen(U, lev, i)
    BY <1>10, <1>14, <2>1, OpenStays
  <2>3. i < tok
    BY <1>10, <1>11, <1>14
  <2> QED BY <1>10, <1>14, <2>2, <2>3
<1>16. \A k \in DOMAIN U : k > i =>
         /\ U[k].type = "dl_open" => U[k].level >= e.level
         /\ U[k].type = "paragraph_open" /\ U[k].level = e.level => ~U[k].hidden
  <2> SUFFICES ASSUME NEW k \in DOMAIN U, k > i
               PROVE  /\ U[k].type = "dl_open" => U[k].level >= e.level
                      /\ U[k].type = "paragraph_open" /\ U[k].level = e.level => ~U[k].hidden
    OBVIOUS
  <2>1. CASE k \in DOMAIN T
    BY <1>10, <1>11, <1>14, <2>1
  <2>2. CASE k = Len(T) + 1
    BY <1>8, <1>10, <2>2
  <2> QED BY <1>10, <2>1, <2>2
<1>17. f.tight <=> ~Loose(p, U, f.listTok, e.tok - 1)
  <2>1. e.tok - 1 = Len(T)
    BY <1>10, <1>11
  <2>2. Len(T) \in DOMAIN T
    BY <1>10, <1>14
  <2>3. PICK n : n = Len(T)
    OBVIOUS
  <2>4. Loose(p, U, i, n) <=> Loose(p, T, i, n)
    BY <1>10, <1>14, <2>2, <2>3, LooseStays
  <2> QED BY <1>7, <2>1, <2>3, <2>4
<1>18. ListOK(p, l, U, f, eo, e)
  <2>1. e.blk >= eo.blk
    BY <1>2, <1>4, <1>5, <1>11
  <2>2. e.level - 1 = lev
    BY <1>11
  <2>3. f.prevEmptyEnd <=> Split(p, U, e.tok, e.level - 1)
    BY <1>7, <1>11, <2>2
  <2>4. IsOpen(U, e.level - 1, f.listTok) /\ U[f.listTok].type = "dl_open" /\ f.listTok < e.tok /\ U[f.listTok + 1].type = "dt_open"
    BY <1>7, <1>11, <1>15, <2>2
  <2>5. IsOpen(U, e.level, e.tok) /\ U[e.tok].type = "dd_open"
    BY <1>8, <1>11, <1>12, <1>13
  <2>6. f.ddLine \in DOMAIN p /\ p[f.ddLine].marks # <<>> /\ ~Blank(p, f.ddLine) /\ f.ddLine <= l /\ f.ddLine < e.lineMax
    BY <1>4, <1>5, <1>7, <1>11
  <2>7. \A k \in DOMAIN U : k > f.listTok =>
         /\ U[k].type = "dl_open" => U[k].level >= e.level
         /\ U[k].type = "paragraph_open" /\ U[k].level = e.level => ~U[k].hidden
    BY <1>7, <1>16
  <2>8. /\ f.endLine = e.lineMax /\ e.lineMax = eo.lineMax
        /\ f.saved.blkIndent = eo.blk /\ f.saved.ddIndent = eo.dd /\ f.saved.at = Origin(p, f.ddLine)
        /\ e.blk = p[f.ddLine].indent + 2 /\ e.dd = e.blk /\ e.level = eo.level + 2
    BY <1>6, <1>7, <1>11
  <2> QED BY <1>7, <1>17, <2>1, <2>3, <2>4, <2>5, <2>6, <2>7, <2>8 DEF ListOK
<1>19. EndsList(p, e)
  <2>1. e.lineMax \in DOMAIN p => p[e.lineMax].marks = <<>> \/ p[e.lineMax].indent < eo.blk
    BY <1>11 DEF EndsList
  <2>2. e.lineMax \in DOMAIN p => p[e.lineMax].indent \in Nat
    BY LineFields
  <2>3. p[l].indent \in Nat /\ eo.blk \in Nat /\ e.blk > eo.blk
    BY <1>2, <1>4, <1>5, <1>11
  <2> QED BY <1>11, <2>1, <2>2, <2>3 DEF EndsList
<1>20. Narrower(eo, e)
  <2>1. e.blk >= eo.blk
    BY <1>2, <1>4, <1>5, <1>11
  <2> QED BY <1>2, <1>11, <2>1 DEF Narrower
<1>21. TopOK(p, l, U, F, f, E, e)
  BY <1>1, <1>7, <1>11, <1>18, <1>19, <1>20 DEF TopOK, FrameOK
<1>22. Stack(p, l, U, Append(F, f), Append(E, e))
  BY <1>1, <1>7, <1>11, <1>21, StackPushes
<1>23. AtInv(p, at2, Append(F, f))
  <2>1. f.ddLine \in DOMAIN p /\ ~Enters(F, f.ddLine) /\ p[f.ddLine].marks # <<>>
    BY <1>3, <1>5, <1>7
  <2>2. AtInv(p, EnteredAt(at, f.ddLine), Append(F, f))
    BY <1>1, <1>7, <2>1, AtEnters
  <2> QED BY <1>7, <2>2
<1>24. CoverInv(p, U, l)
  <2>1. \A k \in DOMAIN U, m \in DOMAIN p : k \notin DOMAIN T => ~Covers(U[k], m)
    BY <1>8, <1>10, OthersCoverNot
  <2>2. \A m \in DOMAIN p : ~ (l <= m /\ m < l)
    BY <1>4, LineFields
  <2>3. p \in Seq(PageLines) /\ l <= l
    BY <1>4 DEF GoodPage
  <2> QED BY <1>4, <1>10, <2>1, <2>2, <2>3, CoverStays
<1>25. OnTop(p, l, yes, U, f, e)
  <2>1. \A k \in DOMAIN U : ~ (k > e.tok)
    BY <1>10, <1>11
  <2>2. ~AnyParted(p, U, e) /\ ~ (\E k : Block(U, k, e))
    BY <2>1 DEF AnyParted, Block
  <2> QED BY <1>7, <1>11, <2>2 DEF OnTop
<1>26. l \in 1..e.lineMax
  BY <1>2, <1>4, <1>11 DEF GoodPage
<1> QED BY <1>1, <1>7, <1>10, <1>11, <1>13, <1>22, <1>23, <1>24, <1>25, <1>26 DEF Reading

-----------------------------------------------------------------------------
(* The tokens o, i and c of a term on line s. *)
TermOf(o, i, c, lev, s) ==
  /\ IsText(o, i, c, lev)
  /\ o.type = "dt_open" /\ o.from = s /\ o.to = s + 1
  /\ i.type = "inline" /\ i.from = s /\ i.to = s + 1
  /\ c.type = "dt_close" /\ c.from = s /\ c.to = s + 1

(* U is T with the tokens of a term behind it. *)
IsTerm(T, U, lev, s) ==
  \E o, i, c : U = Append(Append(Append(T, o), i), c) /\ Wrapped(T, U, o, i, c) /\ TermOf(o, i, c, lev, s)

(* WithTerm is such. *)
LEMMA TermAdded ==
  ASSUME NEW T \in Seq(BlockTokens), NEW lev \in Nat, NEW s \in Nat, NEW U, U = WithTerm(T, lev, s)
  PROVE  IsTerm(T, U, lev, s)
<1>1. PICK o, i, c :
        /\ o = tokenOf("dt_open", lev, s, s + 1) /\ i = tokenOf("inline", lev + 1, s, s + 1)
        /\ c = tokenOf("dt_close", lev, s, s + 1)
  OBVIOUS
<1>2. /\ o \in BlockTokens /\ o.type = "dt_open" /\ o.level = lev /\ o.from = s /\ o.to = s + 1
      /\ i \in BlockTokens /\ i.type = "inline" /\ i.level = lev + 1 /\ i.from = s /\ i.to = s + 1
      /\ c \in BlockTokens /\ c.type = "dt_close" /\ c.level = lev /\ c.from = s /\ c.to = s + 1
  <2>1. PICK o1, i1, c1, l1, x : o1 = "dt_open" /\ i1 = "inline" /\ c1 = "dt_close" /\ l1 = lev + 1 /\ x = s + 1
    OBVIOUS
  <2>2. o1 \in TokenTypes /\ i1 \in TokenTypes /\ c1 \in TokenTypes
    BY <2>1, Kinds DEF TokenTypes
  <2>3. /\ lev \in Nat /\ l1 \in Nat /\ s \in Nat /\ x \in Nat
        /\ o = tokenOf(o1, lev, s, x) /\ i = tokenOf(i1, l1, s, x) /\ c = tokenOf(c1, lev, s, x)
    BY <1>1, <2>1
  <2>4. IsToken(o, o1, lev, s, x) /\ IsToken(i, i1, l1, s, x) /\ IsToken(c, c1, lev, s, x)
    BY ONLY <2>2, <2>3, TokenMade
  <2> QED BY <2>1, <2>4 DEF IsToken
<1>3. isLeaf(i)
  BY <1>2 DEF isLeaf
<1>4. TermOf(o, i, c, lev, s)
  BY <1>2, <1>3, Kinds DEF TermOf, IsText
<1>5. U = Append(Append(Append(T, o), i), c)
  BY <1>1 DEF WithTerm
<1>6. Wrapped(T, U, o, i, c)
  <2>1. T \in Seq(BlockTokens) /\ o \in BlockTokens /\ i \in BlockTokens /\ c \in BlockTokens
    BY <1>2
  <2> QED BY ONLY <1>5, <2>1, Wraps
<1> QED BY <1>4, <1>5, <1>6 DEF IsTerm

(* U is T with a term behind it that is of line s, on the level of its list. *)
TermBehind(p, T, U, lev, s) ==
  /\ U \in Seq(BlockTokens) /\ Grown(T, U) /\ Len(U) = Len(T) + 3 /\ Len(T) \in Nat
  /\ NestInv(p, U, lev)
  /\ U[Len(T) + 1].type = "dt_open" /\ U[Len(U)].type = "dt_close" /\ Len(T) + 1 \in DOMAIN U
  /\ \A k \in DOMAIN U : k \notin DOMAIN T =>
       /\ U[k].level >= lev /\ U[k].type \in {"dt_open", "inline", "dt_close"}
       /\ U[k].from = s /\ U[k].to = s + 1
       /\ U[k].level = lev + 1 => U[k - 1].type = "dt_open"
  /\ Len(T) + 2 \in DOMAIN U /\ Len(T) + 2 \notin DOMAIN T
  /\ \A l \in DOMAIN p : Covers(U[Len(T) + 2], l) <=> s <= l /\ l < s + 1
  /\ \A k \in DOMAIN U, l \in DOMAIN p : k \notin DOMAIN T /\ k # Len(T) + 2 => ~Covers(U[k], l)

(* The tokens of a term are closed, and only one of them is of its line. *)
LEMMA TermFacts ==
  ASSUME NEW p, p \in Seq(PageLines), NEW T \in Seq(BlockTokens), NEW lev \in Nat, NEW s \in Nat, NEW U,
         U = WithTerm(T, lev, s), NestInv(p, T, lev)
  PROVE  TermBehind(p, T, U, lev, s)
<1>1. PICK o, i, c : U = Append(Append(Append(T, o), i), c) /\ Wrapped(T, U, o, i, c) /\ TermOf(o, i, c, lev, s)
  BY TermAdded DEF IsTerm
<1>2. /\ IsText(o, i, c, lev)
      /\ o.type = "dt_open" /\ o.from = s /\ o.to = s + 1 /\ o.level = lev
      /\ i.type = "inline" /\ i.from = s /\ i.to = s + 1 /\ i.level = lev + 1 /\ isLeaf(i)
      /\ c.type = "dt_close" /\ c.from = s /\ c.to = s + 1 /\ c.level = lev
  BY <1>1 DEF TermOf, IsText
<1>3. NestInv(p, U, lev)
  BY <1>1, <1>2, NestAround
<1>4. PICK n \in Nat : n = Len(T)
  BY <1>1 DEF Wrapped
<1>5. /\ Len(U) = n + 3 /\ U \in Seq(BlockTokens) /\ Grown(T, U)
      /\ U[n + 1] = o /\ U[n + 2] = i /\ U[n + 3] = c
      /\ n + 2 \in DOMAIN U /\ n + 2 \notin DOMAIN T
      /\ \A k \in DOMAIN U : k \in Nat /\ (k \notin DOMAIN T => k = n + 1 \/ k = n + 2 \/ k = n + 3)
  BY <1>1, <1>4 DEF Wrapped
<1>6. \A k \in DOMAIN U : k \notin DOMAIN T =>
              /\ U[k].level >= lev /\ U[k].type \in {"dt_open", "inline", "dt_close"}
              /\ U[k].from = s /\ U[k].to = s + 1
              /\ U[k].level = lev + 1 => U[k - 1].type = "dt_open"
  <2> SUFFICES ASSUME NEW k \in DOMAIN U, k \notin DOMAIN T
               PROVE  /\ U[k].level >= lev /\ U[k].type \in {"dt_open", "inline", "dt_close"}
                      /\ U[k].from = s /\ U[k].to = s + 1
                      /\ U[k].level = lev + 1 => U[k - 1].type = "dt_open"
    OBVIOUS
  <2>1. CASE k = n + 1
    BY <1>2, <1>5, <2>1
  <2>2. CASE k = n + 2
    <3>1. k - 1 = n + 1
      BY <2>2
    <3> QED BY <1>2, <1>5, <2>2, <3>1
  <2>3. CASE k = n + 3
    BY <1>2, <1>5, <2>3
  <2> QED BY <1>5, <2>1, <2>2, <2>3
<1>7. \A l \in DOMAIN p : Covers(U[n + 2], l) <=> s <= l /\ l < s + 1
  <2>1. PICK y \in Nat : y = s + 1
    OBVIOUS
  <2>2. \A l \in DOMAIN p : Covers(i, l) <=> s <= l /\ l < y
    BY <1>2, <2>1, LeafCovers
  <2> QED BY <1>5, <2>1, <2>2
<1>8. \A k \in DOMAIN U, l \in DOMAIN p : k \notin DOMAIN T /\ k # n + 2 => ~Covers(U[k], l)
  <2>1. \A l : ~Covers(o, l) /\ ~Covers(c, l)
    BY <1>2, OthersCoverNot
  <2> QED BY <1>5, <2>1
<1>9. U[n + 1].type = "dt_open" /\ U[Len(U)].type = "dt_close" /\ n + 1 \in DOMAIN U
  BY <1>2, <1>5
<1> QED BY <1>3, <1>4, <1>5, <1>6, <1>7, <1>8, <1>9 DEF TermBehind

-----------------------------------------------------------------------------
(* The term on line s is read, and the empty line behind it if there is one. *)
LEMMA TermCovers ==
  ASSUME NEW p, GoodPage(p), NEW T \in Seq(BlockTokens), NEW U \in Seq(BlockTokens), NEW lev,
         NEW line \in Nat, NEW s \in Nat, line <= s, \A k \in line..(s - 1) : Blank(p, k),
         CoverInv(p, T, line), TermBehind(p, T, U, lev, s), NEW l, l = DefLine(p, s)
  PROVE  CoverInv(p, U, l) /\ l \in Nat /\ s < l
<1>1. p \in Seq(PageLines)
  BY DEF GoodPage
<1>2. PICK c \in DOMAIN U : c = Len(T) + 2 /\ c \notin DOMAIN T
  BY DEF TermBehind
<1>3. /\ \A k \in DOMAIN U, m \in DOMAIN p : k \notin DOMAIN T /\ k # c => ~Covers(U[k], m)
      /\ \A m \in DOMAIN p : Covers(U[c], m) <=> s <= m /\ m < s + 1
      /\ Grown(T, U)
  BY <1>2 DEF TermBehind
<1>4. PICK x \in Nat : x = s + 1 /\ s <= x
  OBVIOUS
<1>5. \A m \in DOMAIN p : Covers(U[c], m) <=> s <= m /\ m < x
  BY <1>3, <1>4
<1>6. CoverInv(p, U, x)
  BY <1>1, <1>2, <1>3, <1>4, <1>5, CoverBlock
<1>7. l \in Nat /\ x <= l /\ s < l /\ \A m \in DOMAIN p : x <= m /\ m < l => Blank(p, m)
  <2>1. CASE Blank(p, s + 1)
    <3>1. l = s + 2
      BY <2>1 DEF DefLine
    <3> QED BY <1>1, <1>4, <2>1, <3>1
  <2>2. CASE ~Blank(p, s + 1)
    <3>1. l = s + 1
      BY <2>2 DEF DefLine
    <3> QED BY <1>1, <1>4, <3>1
  <2> QED BY <2>1, <2>2
<1>8. CoverInv(p, U, l)
  <2>1. Grown(U, U) /\ \A k \in DOMAIN U, m \in DOMAIN p : k \notin DOMAIN U => ~Covers(U[k], m)
    <3>1. Len(U) \in Nat
      OBVIOUS
    <3> QED BY <3>1 DEF Grown
  <2> QED BY <1>1, <1>4, <1>6, <1>7, <2>1, CoverStays
<1> QED BY <1>7, <1>8

(* The token of a definition on line l. *)
LEMMA DefinitionMade ==
  ASSUME NEW lev \in Nat, NEW l \in Nat, NEW t, t = tokenOf("dd_open", lev, l, l)
  PROVE  IsDefinition(t, lev, l)
<1>1. PICK type : type = "dd_open"
  OBVIOUS
<1>2. type \in TokenTypes
  BY <1>1, Kinds DEF TokenTypes
<1>3. lev \in Nat /\ l \in Nat /\ t = tokenOf(type, lev, l, l)
  BY <1>1
<1>4. IsToken(t, type, lev, l, l)
  BY ONLY <1>2, <1>3, TokenMade
<1> QED BY <1>1, <1>4 DEF IsToken, IsDefinition

(* A term and the token that opens a list are a list of one term. *)
LEMMA ListBegins ==
  ASSUME NEW p, NEW T \in Seq(BlockTokens), NEW U \in Seq(BlockTokens), NEW lev \in Nat, NEW s,
         NEW i \in Nat, i = Len(T), IsOpen(T, lev, i), T[i].type = "dl_open", TermBehind(p, T, U, lev, s)
  PROVE  ListSoFar(U, i, lev) /\ ~Loose(p, U, i, Len(U))
<1>1. /\ Grown(T, U) /\ Len(U) = i + 3
      /\ U[i + 1].type = "dt_open" /\ i + 1 \in DOMAIN U
      /\ \A k \in DOMAIN U : k \notin DOMAIN T =>
           /\ U[k].level >= lev /\ U[k].type \in {"dt_open", "inline", "dt_close"}
           /\ U[k].level = lev + 1 => U[k - 1].type = "dt_open"
  BY DEF TermBehind
<1>2. i \in DOMAIN T /\ DOMAIN T = 1..i /\ DOMAIN U = 1..(i + 3) /\ T[i].level = lev - 1
  BY <1>1 DEF IsOpen
<1>3. IsOpen(U, lev, i)
  BY <1>1, OpenStays
<1>4. U[i] = T[i]
  BY <1>1, <1>2 DEF Grown
<1>5. \A k \in DOMAIN U : k > i => k \notin DOMAIN T
  BY <1>2
<1>6. ListSoFar(U, i, lev)
  <2>1. \A k \in DOMAIN U : k > i => U[k].type # "dl_open" /\ U[k].type # "paragraph_open"
    BY <1>1, <1>5
  <2> QED BY <1>1, <1>3, <1>4, <2>1 DEF ListSoFar
<1>7. ~Loose(p, U, i, Len(U))
  <2> SUFFICES ASSUME NEW k \in i..(i + 3),
                      Parted(p, U, k, U[i].level + 2) \/ Split(p, U, k, U[i].level + 1)
               PROVE  FALSE
    BY <1>1 DEF Loose
  <2>1. k \in DOMAIN U /\ U[i].level + 2 = lev + 1 /\ U[i].level + 1 = lev
    BY <1>2, <1>4
  <2>2. CASE k = i
    BY <1>2, <1>4, <2>1, <2>2 DEF Parted, Split
  <2>3. CASE k # i
    <3>1. k \notin DOMAIN T
      BY <1>5, <2>3
    <3> QED BY <1>1, <2>1, <3>1 DEF Parted, Split
  <2> QED BY <2>2, <2>3
<1> QED BY <1>6, <1>7

-----------------------------------------------------------------------------
(* Deflist keeps the invariant. *)
LEMMA DeflistKeeps ==
  ASSUME NEW p, NEW line, NEW at, NEW tight, NEW T, NEW F, NEW f, NEW E, NEW e,
         Reading(p, line, at, tight, T, F, f, E, e),
         bl = ReadingState(p, line, at, tight, T, Append(F, f), e), Deflist
  PROVE  IsReading(bl')
<1>1. /\ Ready(bl, F, f)
      /\ bl.page = p /\ bl.line = line /\ bl.lineMax = e.lineMax /\ bl.blkIndent = e.blk
      /\ bl.ddIndent = e.dd /\ bl.at = at /\ bl.tight = tight /\ bl.level = e.level /\ bl.tokens = T
  BY ReadyThere
<1>2. /\ GoodPage(p) /\ T \in Seq(BlockTokens) /\ F \in Seq(Frames) /\ f \in Frames
      /\ E \in Seq(Ghosts) /\ e \in Ghosts /\ Len(E) = Len(F) /\ tight \in BOOLEAN
      /\ Stack(p, line, T, F, E) /\ TopOK(p, line, T, F, f, E, e)
      /\ \A i \in DOMAIN E : Narrower(E[i], e)
      /\ line \in Nat /\ 1 <= line /\ line <= e.lineMax /\ e.lineMax \in Nat
  BY ReadingFacts
<1>3. /\ reads
      /\ \E l : /\ l = DefLine(bl.page, start)
                /\ DefinesAt(bl.page, bl.at, bl.blkIndent, l) /\ l <= bl.lineMax
                /\ bl' = ListState(bl, F, f, start, l)
  BY <1>1, DeflistStep
<1>4. PICK s, l, lev : s = start /\ l = DefLine(p, s) /\ lev = e.level + 1
  OBVIOUS
<1>5. PICK T1, t1 : t1 = tokenOf("dl_open", e.level, s, s) /\ T1 = Append(T, t1)
  OBVIOUS
<1>6. PICK T2, t3, U : T2 = WithTerm(T1, lev, s) /\ t3 = tokenOf("dd_open", lev, l, l) /\ U = Append(T2, t3)
  OBVIOUS
<1>7. PICK no, yes, tok, i, z, f2, e2, F2, E2, at2 :
        /\ no = FALSE /\ yes = TRUE /\ tok = Len(U) /\ i = Len(T) + 1
        /\ z = SavedOf(e.blk, e.dd, at, tight, l) /\ f2 = ListFrame(e.lineMax, no, l, i, yes, no, z)
        /\ e2 = ItemGhost(p, e, l, tok) /\ F2 = Append(F, f) /\ E2 = Append(E, e) /\ at2 = EnteredAt(at, l)
  OBVIOUS
<1>8. /\ DefinesAt(p, at, e.blk, l) /\ l <= e.lineMax
      /\ bl' = StateOf(p, l, e.lineMax, at[l].indent + 2, at[l].indent + 2, at2, yes, e.level + 2,
                       U, Append(F2, f2))
  <2>1. /\ DefinesAt(bl.page, bl.at, bl.blkIndent, l) /\ l <= bl.lineMax /\ bl' = ListState(bl, F, f, s, l)
    BY <1>1, <1>3, <1>4
  <2>2. bl' = StateOf(p, l, e.lineMax, at[l].indent + 2, at[l].indent + 2, at2, yes, e.level + 2,
                      U, Append(F2, f2))
    BY ONLY <1>1, <1>4, <1>5, <1>6, <1>7, <2>1 DEF ListState
  <2> QED BY <1>1, <2>1, <2>2
<1>9. /\ s \in Nat /\ line <= s /\ s < e.lineMax /\ s \in DOMAIN p
      /\ \A k \in line..(s - 1) : Blank(p, k)
  BY <1>3, <1>4, BlockStart
<1>10. e.level \in Nat /\ lev \in Nat /\ lev = e.level + 1
  BY <1>2, <1>4, GhostFields
<1>11. t1 \in BlockTokens /\ t1.type = "dl_open" /\ t1.level = e.level /\ t1.from = s
  <2>1. PICK type : type = "dl_open"
    OBVIOUS
  <2>2. type \in TokenTypes
    BY <2>1, Kinds DEF TokenTypes
  <2>3. t1 = tokenOf(type, e.level, s, s) /\ e.level \in Nat /\ s \in Nat
    BY <1>5, <1>9, <1>10, <2>1
  <2>4. IsToken(t1, type, e.level, s, s)
    BY ONLY <2>2, <2>3, TokenMade
  <2> QED BY <2>1, <2>4 DEF IsToken
<1>12. t1.type \in Openers /\ Begins(t1) /\ ~isLeaf(t1)
  BY <1>11, Kinds DEF Begins, isLeaf
<1>13. /\ T1 \in Seq(BlockTokens) /\ Grown(T, T1) /\ Within(T, T1, e.level, line, e.lineMax)
       /\ Len(T1) = i /\ T1[i] = t1 /\ i \in DOMAIN T1 /\ i \in Nat
       /\ \A k \in DOMAIN T1 : k \notin DOMAIN T => T1[k] = t1
  <2>1. Fits(t1, e.level, line, e.lineMax)
    BY <1>10, <1>11, <1>12 DEF Fits
  <2>2. Added(T, T1, t1, e.level, line, e.lineMax)
    BY <1>2, <1>5, <1>10, <1>11, <2>1, OneMore
  <2> QED BY <1>7, <2>2 DEF Added
<1>14. NestInv(p, T1, lev) /\ IsOpen(T1, lev, i)
  <2>1. NestInv(p, T, e.level)
    BY DEF Reading
  <2>2. FenceAlone(p, t1)
    BY <1>11 DEF FenceAlone
  <2>3. NestInv(p, T1, e.level + 1) /\ IsOpen(T1, e.level + 1, Len(T) + 1)
    BY <1>2, <1>5, <1>10, <1>11, <1>12, <2>1, <2>2, NestOpen
  <2> QED BY <1>4, <1>7, <2>3
<1>15. Suspended(p, T1, f, e)
  <2>1. f \in ListFrames => e.tok \in DOMAIN T /\ T[e.tok].type = "dd_open"
    BY <1>2, TopFacts
  <2>2. OnTop(p, line, tight, T, f, e) /\ s <= e.lineMax
    BY <1>2, <1>9 DEF Reading
  <2> QED BY <1>2, <1>5, <1>9, <1>11, <1>12, <2>1, <2>2, BlockBegins
<1>16. CoverInv(p, T1, line)
  <2>1. \A k \in DOMAIN T1, m \in DOMAIN p : k \notin DOMAIN T => ~Covers(T1[k], m)
    BY <1>11, <1>13, OthersCoverNot
  <2>2. p \in Seq(PageLines) /\ CoverInv(p, T, line) /\ line <= line
    BY <1>2 DEF GoodPage, Reading
  <2>3. \A m \in DOMAIN p : ~ (line <= m /\ m < line)
    BY <1>2, <2>2
  <2> QED BY <1>2, <1>13, <2>1, <2>2, <2>3, CoverStays
<1>17. TermBehind(p, T1, T2, lev, s)
  <2>1. p \in Seq(PageLines)
    BY <1>2 DEF GoodPage
  <2> QED BY <1>6, <1>9, <1>10, <1>13, <1>14, <2>1, TermFacts
<1>18. /\ T2 \in Seq(BlockTokens) /\ Grown(T1, T2) /\ NestInv(p, T2, lev) /\ T2[Len(T2)].type = "dt_close"
       /\ \A k \in DOMAIN T2 : k \notin DOMAIN T1 =>
            /\ T2[k].level >= lev /\ T2[k].type \in {"dt_open", "inline", "dt_close"}
            /\ T2[k].from = s /\ T2[k].to = s + 1
       /\ Len(T2) \in Nat /\ Len(T2) > 0
  BY <1>17 DEF TermBehind
<1>19. CoverInv(p, T2, l) /\ l \in Nat /\ s < l
  BY <1>2, <1>4, <1>9, <1>13, <1>16, <1>17, <1>18, TermCovers
<1>20. ListSoFar(T2, i, lev) /\ ~Loose(p, T2, i, Len(T2))
  <2>1. T1[i].type = "dl_open"
    BY <1>11, <1>13
  <2> QED BY <1>10, <1>13, <1>14, <1>17, <1>18, <2>1, ListBegins
<1>21. IsDefinition(t3, lev, l)
  BY <1>6, <1>10, <1>19, DefinitionMade
<1>22. t3 \in BlockTokens /\ t3.type = "dd_open" /\ t3.level = lev /\ t3.from = l
  BY <1>21 DEF IsDefinition
<1>23. /\ U \in Seq(BlockTokens) /\ Len(U) = Len(T2) + 1
       /\ Grown(T2, U) /\ U[Len(U)] = t3 /\ Len(T2) \in DOMAIN T2
       /\ \A k \in DOMAIN U : k \in DOMAIN T2 \/ U[k] = t3
  <2>1. T2 \in Seq(BlockTokens) /\ t3 \in BlockTokens /\ U = Append(T2, t3)
    BY <1>6, <1>18, <1>22
  <2>2. /\ U \in Seq(BlockTokens) /\ Len(U) = Len(T2) + 1 /\ Len(T2) \in Nat /\ DOMAIN T2 = 1..Len(T2)
        /\ U[Len(T2) + 1] = t3
        /\ \A k \in DOMAIN U : k \in Nat /\ (k \in DOMAIN T2 \/ k = Len(T2) + 1)
        /\ Grown(T2, U)
    BY ONLY <2>1, Appended
  <2> QED BY <1>18, <2>2
<1>24. Grown(T1, U) /\ Grown(T, U)
  BY <1>13, <1>18, <1>23 DEF Grown
<1>25. \A k \in DOMAIN U : k \notin DOMAIN T1 =>
         /\ U[k].level >= lev /\ U[k].type \in {"dt_open", "inline", "dt_close", "dd_open"}
         /\ isLeaf(U[k]) => U[k].from = s /\ U[k].to = s + 1
  <2> SUFFICES ASSUME NEW k \in DOMAIN U, k \notin DOMAIN T1
               PROVE  /\ U[k].level >= lev /\ U[k].type \in {"dt_open", "inline", "dt_close", "dd_open"}
                      /\ isLeaf(U[k]) => U[k].from = s /\ U[k].to = s + 1
    OBVIOUS
  <2>1. CASE k \in DOMAIN T2
    <3>1. U[k] = T2[k]
      BY <1>23, <2>1 DEF Grown
    <3> QED BY <1>18, <2>1, <3>1
  <2>2. CASE U[k] = t3
    BY <1>10, <1>22, <2>2 DEF isLeaf
  <2> QED BY <1>23, <2>1, <2>2
<1>26. Within(T, U, e.level, line, e.lineMax)
  <2> SUFFICES ASSUME NEW k \in DOMAIN U, k \notin DOMAIN T
               PROVE  /\ U[k].level >= e.level
                      /\ isLeaf(U[k]) => U[k].from >= line /\ U[k].to <= e.lineMax
                      /\ U[k].type = "paragraph_open" => ~U[k].hidden
    BY DEF Within
  <2>1. CASE k \in DOMAIN T1
    <3>1. U[k] = T1[k]
      BY <1>24, <2>1 DEF Grown
    <3> QED BY <1>13, <2>1, <3>1 DEF Within
  <2>2. CASE k \notin DOMAIN T1
    <3>1. U[k].level \in Nat
      BY <1>23, TokenFields
    <3>2. U[k].level >= e.level
      BY <1>10, <1>25, <2>2, <3>1
    <3>3. isLeaf(U[k]) => U[k].from >= line /\ U[k].to <= e.lineMax
      BY <1>2, <1>9, <1>25, <2>2
    <3> QED BY <1>25, <2>2, <3>2, <3>3
  <2> QED BY <2>1, <2>2
<1>27. Suspended(p, U, f, e)
  <2>1. \A k \in DOMAIN U : k \notin DOMAIN T1 => ~ (U[k].level = e.level /\ Begins(U[k]))
    BY <1>10, <1>25
  <2>2. f \in ListFrames => e.tok \in DOMAIN T1
    BY <1>2, <1>13, TopFacts DEF Grown
  <2> QED BY <1>13, <1>15, <1>23, <1>24, <2>1, <2>2, SuspendedStays
<1>28. line <= l
  BY <1>2, <1>9, <1>19
<1>29. Below(p, l, U, F2, E2, e)
  <2>1. AllSuspended(p, T, F, E)
    BY DEF Reading
  <2>2. U \in Seq(BlockTokens) /\ Grown(T, U) /\ F2 = Append(F, f) /\ E2 = Append(E, e) /\ l \in Nat
    BY <1>7, <1>19, <1>23, <1>24
  <2> QED BY ONLY <1>2, <1>26, <1>27, <1>28, <2>1, <2>2, StackOpens
<1>30. AtInv(p, at, F2)
  BY <1>7 DEF Reading
<1>31. \A k \in DOMAIN F2 : F2[k] \in ListFrames => F2[k].ddLine < l
  <2> SUFFICES ASSUME NEW k \in DOMAIN F2, F2[k] \in ListFrames
               PROVE  F2[k].ddLine < l
    OBVIOUS
  <2>1. Stack(p, line, T, F2, E2)
    BY <1>7 DEF Reading
  <2>2. F2[k].ddLine <= line
    BY <2>1, ListsOpen DEF ListOK
  <2>3. F2[k].ddLine \in Nat
    BY DEF ListFrames
  <2> QED BY <1>2, <1>9, <1>19, <2>2, <2>3
<1>32. EndsList(p, e)
  BY <1>2 DEF TopOK
<1>33. l \in DOMAIN p /\ at[l].indent = p[l].indent /\ at[l].marks = p[l].marks
  <2>1. l \in DOMAIN p /\ l > line
    BY <1>2, <1>8, <1>9, <1>19 DEF DefinesAt
  <2> QED BY <2>1, LinesAhead
<1>34. l < e.lineMax
  <2>1. l # e.lineMax
    BY <1>8, <1>32, <1>33, <1>2, LineFields, GhostFields DEF DefinesAt, EndsList
  <2> QED BY <1>2, <1>8, <1>19, <2>1
<1>35. no <=> Split(p, U, Len(U), lev)
  <2>1. Len(U) - 1 = Len(T2) /\ U[Len(T2)] = T2[Len(T2)]
    BY <1>18, <1>23 DEF Grown
  <2>2. U[Len(U) - 1].type # "dd_close"
    BY <1>18, <2>1
  <2> QED BY <1>7, <2>2 DEF Split
<1>36. yes <=> ~Loose(p, T2, i, Len(T2))
  BY <1>7, <1>20
<1>37. yes \in BOOLEAN /\ no \in BOOLEAN
  BY <1>7
<1>38. Reading(p, l, at2, yes, U, F2, f2, E2, e2)
  <2>1. ItemStarts(p, l, at, tight, T2, t3, U, F2, E2, e, lev, i, yes, no)
    BY <1>2, <1>6, <1>8, <1>10, <1>13, <1>18, <1>19, <1>20, <1>21, <1>29, <1>30, <1>31, <1>32, <1>33,
       <1>34, <1>35, <1>36, <1>37 DEF ItemStarts
  <2> QED BY ONLY <1>7, <2>1, ItemEntered
<1>39. bl' = ReadingState(p, l, at2, yes, U, Append(F2, f2), e2)
  <2>1. e2.lineMax = e.lineMax /\ e2.blk = p[l].indent + 2 /\ e2.dd = p[l].indent + 2 /\ e2.level = e.level + 2
    BY <1>7 DEF ItemGhost
  <2> QED BY <1>8, <1>33, <2>1 DEF ReadingState
<1> QED BY ONLY <1>38, <1>39 DEF IsReading

-----------------------------------------------------------------------------
(* Tokens of the list on top leave what is known of the frames below it. *)
LEMMA BelowStays ==
  ASSUME NEW p, NEW line \in Nat, NEW line2 \in Nat, line <= line2, NEW T \in Seq(BlockTokens),
         NEW U \in Seq(BlockTokens), NEW F, NEW E, NEW eo \in Ghosts, Below(p, line, T, F, E, eo),
         \A k \in DOMAIN E : E[k].level <= eo.level /\ eo.lineMax <= E[k].lineMax, Grown(T, U),
         NEW lev \in Nat, lev = eo.level + 1, Within(T, U, lev, line, eo.lineMax)
  PROVE  Below(p, line2, U, F, E, eo)
<1>1. /\ Stack(p, line, T, F, E) /\ AllSuspended(p, T, F, E)
      /\ F \in Seq(Frames) /\ E \in Seq(Ghosts) /\ F # <<>> /\ Len(E) = Len(F) /\ E[Len(E)] = eo
  BY DEF Below
<1>2. eo.level \in Nat /\ eo.lineMax \in Nat /\ \A k \in DOMAIN E : E[k].level \in Nat
  BY <1>1, GhostFields
<1>3. Stack(p, line2, U, F, E)
  <2>1. PICK lm : lm = eo.lineMax
    OBVIOUS
  <2>2. lm \in Nat /\ Within(T, U, lev, line, lm) /\ \A k \in DOMAIN E : E[k].level <= lev /\ lm <= E[k].lineMax
    BY <1>2, <2>1
  <2>3. /\ line \in Nat /\ line2 \in Nat /\ line <= line2 /\ T \in Seq(BlockTokens) /\ U \in Seq(BlockTokens)
        /\ lev \in Nat /\ Grown(T, U) /\ Stack(p, line, T, F, E)
    BY <1>1
  <2> QED BY ONLY <2>2, <2>3, StackGrows
<1>4. \A k \in DOMAIN U, i \in DOMAIN E : k \notin DOMAIN T => U[k].level # E[i].level
  <2> SUFFICES ASSUME NEW k \in DOMAIN U, NEW i \in DOMAIN E, k \notin DOMAIN T
               PROVE  U[k].level # E[i].level
    OBVIOUS
  <2>1. U[k].level >= lev /\ U[k].level \in Nat
    BY TokenFields DEF Within
  <2> QED BY <1>2, <2>1
<1>5. AllSuspended(p, U, F, E)
  BY <1>1, <1>4, AllSuspendedStays
<1> QED BY <1>1, <1>3, <1>5 DEF Below

(* What is known of a list whose definition has been read; eo is of the frame below it. *)
ListKnown(p, line, at, tight, T, F, f, E, e, eo, lev) ==
  /\ GoodPage(p) /\ T \in Seq(BlockTokens) /\ F \in Seq(Frames) /\ E \in Seq(Ghosts) /\ e \in Ghosts
  /\ F # <<>> /\ Len(E) = Len(F) /\ eo \in Ghosts /\ eo = E[Len(E)]
  /\ line \in Nat /\ 1 <= line /\ line <= e.lineMax /\ e.lineMax \in Nat
  /\ ListOK(p, line, T, f, eo, e) /\ Below(p, line, T, F, E, eo) /\ EndsList(p, eo)
  /\ \A k \in DOMAIN E : E[k].level <= eo.level /\ eo.lineMax <= E[k].lineMax
  /\ \A k \in DOMAIN F : F[k] \in ListFrames => F[k].ddLine < f.ddLine
  /\ lev \in Nat /\ lev = eo.level + 1 /\ e.level = lev + 1
  /\ f \in ListFrames /\ f.ddLine \in Nat /\ f.listTok \in Nat /\ f.saved.tight \in BOOLEAN

(* So it is for the list on top. *)
LEMMA ListThere ==
  ASSUME NEW p, NEW line, NEW at, NEW tight, NEW T, NEW F, NEW f, NEW E, NEW e,
         Reading(p, line, at, tight, T, F, f, E, e), f \in ListFrames
  PROVE  \E eo, lev : ListKnown(p, line, at, tight, T, F, f, E, e, eo, lev)
<1>1. /\ GoodPage(p) /\ T \in Seq(BlockTokens) /\ F \in Seq(Frames) /\ f \in Frames
      /\ E \in Seq(Ghosts) /\ e \in Ghosts /\ Len(E) = Len(F) /\ tight \in BOOLEAN
      /\ Stack(p, line, T, F, E) /\ TopOK(p, line, T, F, f, E, e)
      /\ \A i \in DOMAIN E : Narrower(E[i], e)
      /\ line \in Nat /\ 1 <= line /\ line <= e.lineMax /\ e.lineMax \in Nat
  BY ReadingFacts
<1>2. F # <<>> /\ ListOK(p, line, T, f, E[Len(E)], e)
  BY <1>1, TopFacts
<1>3. PICK eo : eo = E[Len(E)]
  OBVIOUS
<1>4. Len(E) \in Nat /\ Len(E) \in DOMAIN E /\ DOMAIN E = 1..Len(E)
  BY <1>1, <1>2
<1>5. eo \in Ghosts /\ eo.level \in Nat /\ eo.lineMax \in Nat /\ e.level \in Nat
  <2>1. eo \in Ghosts
    BY <1>1, <1>3, <1>4
  <2> QED BY <1>1, <2>1, GhostFields
<1>6. \A k \in DOMAIN E : E[k].level <= eo.level /\ eo.lineMax <= E[k].lineMax
  <2> SUFFICES ASSUME NEW k \in DOMAIN E
               PROVE  E[k].level <= eo.level /\ eo.lineMax <= E[k].lineMax
    OBVIOUS
  <2>1. E[k].level \in Nat /\ E[k].lineMax \in Nat
    BY <1>1, GhostFields
  <2>2. CASE k = Len(E)
    BY <1>3, <1>5, <2>1, <2>2
  <2>3. CASE k # Len(E)
    <3>1. k < Len(E)
      BY <1>4, <2>3
    <3>2. Narrower(E[k], eo)
      BY <1>1, <1>3, <1>4, <3>1 DEF Stack
    <3> QED BY <1>5, <2>1, <3>2 DEF Narrower
  <2> QED BY <2>2, <2>3
<1>7. EndsList(p, eo) /\ \A k \in DOMAIN F : F[k] \in ListFrames => F[k].ddLine < f.ddLine
  BY <1>1, <1>3, <1>4 DEF Stack, TopOK
<1>8. f.ddLine \in Nat /\ f.listTok \in Nat /\ f.saved.tight \in BOOLEAN
  BY DEF ListFrames, Saved
<1>9. PICK lev : lev = eo.level + 1
  OBVIOUS
<1>10. e.level = eo.level + 2
  BY <1>2, <1>3 DEF ListOK
<1>11. lev \in Nat /\ e.level = lev + 1
  BY <1>5, <1>9, <1>10
<1>12. Below(p, line, T, F, E, eo)
  <2>1. AllSuspended(p, T, F, E)
    BY DEF Reading
  <2> QED BY <1>1, <1>2, <1>3, <2>1 DEF Below
<1>13. ListKnown(p, line, at, tight, T, F, f, E, e, eo, lev)
  BY <1>1, <1>2, <1>3, <1>5, <1>6, <1>7, <1>8, <1>9, <1>11, <1>12 DEF ListKnown
<1> QED BY <1>13

-----------------------------------------------------------------------------
(* Where the definition on top ends: behind its line, which is not empty. *)
LEMMA ItemEnd ==
  ASSUME NEW p, NEW line, NEW at, NEW tight, NEW T, NEW F, NEW f, NEW E, NEW e, NEW eo, NEW lev,
         Reading(p, line, at, tight, T, F, f, E, e),
         bl = ReadingState(p, line, at, tight, T, Append(F, f), e), ends, f \in ListFrames,
         ListKnown(p, line, at, tight, T, F, f, E, e, eo, lev), NEW s, s = start
  PROVE  /\ s \in Nat /\ line <= s /\ s <= e.lineMax /\ f.ddLine < s
         /\ \A k \in line..(s - 1) : Blank(p, k)
         /\ EndsEmpty(p, f, s) <=> Blank(p, s - 1)
<1>1. /\ Ready(bl, F, f)
      /\ bl.page = p /\ bl.line = line /\ bl.lineMax = e.lineMax /\ bl.blkIndent = e.blk /\ bl.at = at
  BY ReadyThere
<1>2. /\ GoodPage(p) /\ line \in Nat /\ e.lineMax \in Nat /\ ListOK(p, line, T, f, eo, e) /\ f.ddLine \in Nat /\ e \in Ghosts
  BY DEF ListKnown
<1>3. /\ IsStart(p, line, e.lineMax, s)
      /\ \/ s = e.lineMax
         \/ s \in DOMAIN p /\ s < e.lineMax /\ ~Blank(p, s) /\ at[s].indent < e.blk
  BY <1>1, EndsThere
<1>4. s \in Nat /\ line <= s /\ s <= e.lineMax /\ \A k \in line..(s - 1) : Blank(p, k)
  BY <1>2, <1>3 DEF IsStart
<1>5. /\ f.ddLine \in DOMAIN p /\ p[f.ddLine].marks # <<>> /\ ~Blank(p, f.ddLine)
      /\ f.ddLine <= line /\ f.ddLine < e.lineMax /\ e.blk = p[f.ddLine].indent + 2
  BY <1>2 DEF ListOK
<1>6. s # f.ddLine
  <2> SUFFICES ASSUME s = f.ddLine PROVE FALSE
    OBVIOUS
  <2>1. at[s].indent < e.blk
    BY <1>2, <1>3, <1>5
  <2>2. Enters(Append(F, f), s)
    <3>1. F \in Seq(Frames) /\ f \in Frames
      BY DEF Frames, ListKnown
    <3> QED BY <3>1, EntersOneMore
  <2>3. AtInv(p, at, Append(F, f))
    BY DEF Reading
  <2>4. at[s] = Entered(p, s)
    BY <1>5, <2>2, <2>3 DEF AtInv
  <2>5. Entered(p, s).indent \in Nat /\ Entered(p, s).indent >= p[s].indent + 2
    BY <1>2, <1>5, LineFields
  <2> QED BY <1>2, <1>5, <2>1, <2>4, <2>5, GhostFields
<1>7. f.ddLine < s
  BY <1>2, <1>4, <1>5, <1>6
<1>8. EndsEmpty(p, f, s) <=> Blank(p, s - 1)
  <2>1. CASE Blank(p, s - 1)
    <3>1. s - 1 # f.ddLine
      BY <1>5, <2>1
    <3>2. s - f.ddLine > 1
      BY <1>2, <1>4, <1>7, <3>1
    <3> QED BY <2>1, <3>2 DEF EndsEmpty
  <2>2. CASE ~Blank(p, s - 1)
    BY <2>2 DEF EndsEmpty
  <2> QED BY <2>1, <2>2
<1> QED BY <1>4, <1>7, <1>8

(* What is known when the definition has been closed, before line s. *)
ItemLeft(p, line, at, tight, T, F, f, E, e, eo, lev, s, T1, at1) ==
  /\ T1 \in Seq(BlockTokens) /\ Grown(T, T1) /\ Len(T1) = Len(T) + 1 /\ Len(T1) \in DOMAIN T1
  /\ Within(T, T1, lev, line, eo.lineMax)
  /\ T1[Len(T1)].type = "dd_close" /\ T1[Len(T1)].level = lev
  /\ \A k \in DOMAIN T1 : k \notin DOMAIN T => k = Len(T1)
  /\ NestInv(p, T1, lev) /\ ListSoFar(T1, f.listTok, lev)
  /\ (f.tight /\ tight /\ ~f.prevEmptyEnd) <=> ~Loose(p, T1, f.listTok, Len(T1))
  /\ CoverInv(p, T1, s) /\ AtInv(p, at1, F)
  /\ \A l \in DOMAIN p : l >= s => at[l] = Origin(p, l) /\ at1[l] = Origin(p, l)

(* So it is when the token that closes the definition is added. *)
LEMMA ItemLeaves ==
  ASSUME NEW p, NEW line, NEW at, NEW tight, NEW T, NEW F, NEW f, NEW E, NEW e, NEW eo, NEW lev,
         Reading(p, line, at, tight, T, F, f, E, e), f \in ListFrames,
         ListKnown(p, line, at, tight, T, F, f, E, e, eo, lev), NEW s,
         s \in Nat, line <= s, f.ddLine < s, \A k \in line..(s - 1) : Blank(p, k),
         NEW T1, T1 = Append(T, tokenOf("dd_close", lev, s, s)), NEW at1, at1 = Restored(at, f)
  PROVE  ItemLeft(p, line, at, tight, T, F, f, E, e, eo, lev, s, T1, at1)
<1>1. /\ GoodPage(p) /\ T \in Seq(BlockTokens) /\ F \in Seq(Frames) /\ e \in Ghosts /\ eo \in Ghosts
      /\ line \in Nat /\ ListOK(p, line, T, f, eo, e)
      /\ \A k \in DOMAIN F : F[k] \in ListFrames => F[k].ddLine < f.ddLine
      /\ lev \in Nat /\ lev = eo.level + 1 /\ e.level = lev + 1
      /\ f.ddLine \in Nat /\ f.listTok \in Nat
  BY DEF ListKnown
<1>2. f \in Frames /\ e.level \in Nat /\ eo.level \in Nat /\ eo.lineMax \in Nat
  BY <1>1, GhostFields DEF Frames
<1>3. /\ IsOpen(T, e.level, e.tok) /\ T[e.tok].type = "dd_open"
      /\ IsOpen(T, e.level - 1, f.listTok) /\ T[f.listTok].type = "dl_open"
      /\ f.listTok < e.tok /\ T[f.listTok + 1].type = "dt_open"
      /\ \A k \in DOMAIN T : k > f.listTok =>
           /\ T[k].type = "dl_open" => T[k].level >= e.level
           /\ T[k].type = "paragraph_open" /\ T[k].level = e.level => ~T[k].hidden
      /\ f.saved.at = Origin(p, f.ddLine) /\ f.ddLine \in DOMAIN p
  BY <1>1 DEF ListOK
<1>4. PICK t : t = tokenOf("dd_close", lev, s, s)
  OBVIOUS
<1>5. t \in BlockTokens /\ t.type = "dd_close" /\ t.level = lev /\ t.from = s
  <2>1. PICK type : type = "dd_close"
    OBVIOUS
  <2>2. type \in TokenTypes
    BY <2>1, Kinds DEF TokenTypes
  <2>3. t = tokenOf(type, lev, s, s) /\ lev \in Nat /\ s \in Nat
    BY <1>1, <1>4, <2>1
  <2>4. IsToken(t, type, lev, s, s)
    BY ONLY <2>2, <2>3, TokenMade
  <2> QED BY <2>1, <2>4 DEF IsToken
<1>6. ~Begins(t) /\ ~isLeaf(t) /\ t.type \in DOMAIN Ending /\ Ending[t.type] = "dd_open"
  BY <1>5, Kinds DEF isLeaf, Begins
<1>7. T1 = Append(T, t)
  BY <1>4
<1>8. /\ T1 \in Seq(BlockTokens) /\ Grown(T, T1) /\ Within(T, T1, lev, line, eo.lineMax)
      /\ Len(T1) = Len(T) + 1 /\ Len(T) \in Nat /\ T1[Len(T1)] = t /\ Len(T1) \in DOMAIN T1
      /\ Len(T1) \notin DOMAIN T
      /\ \A k \in DOMAIN T1 : k \notin DOMAIN T => k = Len(T1) /\ T1[k] = t
  <2>1. Fits(t, lev, line, eo.lineMax)
    BY <1>1, <1>5, <1>6 DEF Fits
  <2>2. PICK lm : lm = eo.lineMax
    OBVIOUS
  <2>3. Added(T, T1, t, lev, line, lm)
    BY <1>1, <1>5, <1>7, <2>1, <2>2, OneMore
  <2> QED BY <2>2, <2>3 DEF Added
<1>9. PICK tok, i : tok = e.tok /\ i = f.listTok
  OBVIOUS
<1>10. tok \in DOMAIN T /\ T1[tok] = T[tok] /\ T[tok].type = "dd_open" /\ IsOpen(T, e.level, tok)
  BY <1>3, <1>8, <1>9 DEF IsOpen, Grown
<1>11. NestInv(p, T1, lev)
  <2>1. NestInv(p, T, e.level)
    BY DEF Reading
  <2>2. HiddenRight(p, T1, tok, Len(T) + 1)
    BY <1>10 DEF HiddenRight
  <2>3. e.level >= 1 /\ t.level = e.level - 1 /\ e.level - 1 = lev /\ Ending[t.type] = T[tok].type
    BY <1>1, <1>5, <1>6, <1>10
  <2>4. T[tok].type = "container_open" =>
           /\ \A k \in DOMAIN T : k > tok /\ isLeaf(T[k]) => T[k].from > T[tok].from /\ T[k].to <= t.from
           /\ t.to > t.from => p[t.from].markers >= p[T[tok].from].markers
    BY <1>10
  <2>5. NestInv(p, T1, e.level - 1)
    BY <1>1, <1>2, <1>5, <1>6, <1>7, <1>10, <2>1, <2>2, <2>3, <2>4, NestClose
  <2> QED BY <2>3, <2>5
<1>12. IsOpen(T, lev, i) /\ i \in DOMAIN T /\ T[i].level = lev - 1 /\ i \in Nat /\ i + 1 \in DOMAIN T
  <2>1. IsOpen(T, lev, i)
    BY <1>1, <1>3, <1>9
  <2>2. i < tok /\ tok \in DOMAIN T /\ i \in Nat /\ i \in DOMAIN T
    BY <1>1, <1>3, <1>9, <1>10 DEF IsOpen
  <2> QED BY <1>1, <2>1, <2>2 DEF IsOpen
<1>13. IsOpen(T1, lev, i)
  <2>1. \A j \in DOMAIN T1 : j \notin DOMAIN T => T1[j].level >= lev
    BY <1>1, <1>5, <1>8
  <2> QED BY <1>1, <1>8, <1>12, <2>1, OpenStays
<1>14. ListSoFar(T1, i, lev)
  <2>1. T1[i].type = "dl_open" /\ T1[i + 1].type = "dt_open" /\ i + 1 \in DOMAIN T1
    BY <1>3, <1>8, <1>9, <1>12 DEF Grown
  <2>2. \A k \in DOMAIN T1 : k > i =>
           /\ T1[k].type = "dl_open" => T1[k].level >= lev + 1
           /\ T1[k].type = "paragraph_open" /\ T1[k].level = lev + 1 => ~T1[k].hidden
    <3> SUFFICES ASSUME NEW k \in DOMAIN T1, k > i
                 PROVE  /\ T1[k].type = "dl_open" => T1[k].level >= lev + 1
                        /\ T1[k].type = "paragraph_open" /\ T1[k].level = lev + 1 => ~T1[k].hidden
      OBVIOUS
    <3>1. CASE k \in DOMAIN T
      <4>1. T1[k] = T[k]
        BY <1>8, <3>1 DEF Grown
      <4> QED BY <1>1, <1>3, <1>9, <3>1, <4>1
    <3>2. CASE k \notin DOMAIN T
      BY <1>5, <1>8, <3>2
    <3> QED BY <3>1, <3>2
  <2> QED BY <1>13, <2>1, <2>2 DEF ListSoFar
<1>15. (f.tight /\ tight /\ ~f.prevEmptyEnd) <=> ~Loose(p, T1, i, Len(T1))
  <2>1. tight <=> ~AnyParted(p, T, e)
    BY DEF Reading, OnTop
  <2>2. (f.tight /\ tight /\ ~f.prevEmptyEnd) <=> ~Loose(p, T, f.listTok, Len(T))
    BY <1>1, <2>1, LooseSoFar
  <2>3. PICK n : n = Len(T1)
    OBVIOUS
  <2>4. n \in Nat /\ Len(T) <= n /\ n = Len(T) + 1 /\ n \notin DOMAIN T /\ n \in DOMAIN T1
    BY <1>8, <2>3
  <2>5. \A k \in (Len(T) + 1)..n : ~Parted(p, T1, k, T[i].level + 2) /\ ~Split(p, T1, k, T[i].level + 1)
    <3> SUFFICES ASSUME NEW k \in (Len(T) + 1)..n
                 PROVE  ~Parted(p, T1, k, T[i].level + 2) /\ ~Split(p, T1, k, T[i].level + 1)
      OBVIOUS
    <3>1. k = n /\ T1[k] = t
      BY <1>8, <2>3, <2>4
    <3> QED BY <1>5, <1>6, <3>1 DEF Parted, Split
  <2>6. Loose(p, T1, i, n) <=> Loose(p, T, i, Len(T))
    BY <1>1, <1>8, <1>12, <2>4, <2>5, LooseMore
  <2> QED BY <1>9, <2>2, <2>3, <2>6
<1>16. CoverInv(p, T1, s)
  <2>1. \A k \in DOMAIN T1, m \in DOMAIN p : k \notin DOMAIN T => ~Covers(T1[k], m)
    BY <1>5, <1>8, OthersCoverNot
  <2>2. p \in Seq(PageLines) /\ CoverInv(p, T, line)
    BY <1>1 DEF GoodPage, Reading
  <2>3. \A m \in DOMAIN p : line <= m /\ m < s => Blank(p, m)
    <3> SUFFICES ASSUME NEW m \in DOMAIN p, line <= m, m < s PROVE Blank(p, m)
      OBVIOUS
    <3>1. m \in Nat
      BY <2>2
    <3> QED BY <1>1, <3>1
  <2> QED BY <1>1, <1>8, <2>1, <2>2, <2>3, CoverStays
<1>17. AtInv(p, at1, F)
  <2>1. AtInv(p, at, Append(F, f))
    BY DEF Reading
  <2>2. \A k \in DOMAIN F : F[k] \in ListFrames => F[k].ddLine # f.ddLine
    <3> SUFFICES ASSUME NEW k \in DOMAIN F, F[k] \in ListFrames PROVE F[k].ddLine # f.ddLine
      OBVIOUS
    <3>1. F[k].ddLine \in Nat /\ F[k].ddLine < f.ddLine
      BY <1>1 DEF ListFrames
    <3> QED BY <1>1, <3>1
  <2>3. ~Enters(F, f.ddLine)
    BY <2>2 DEF Enters
  <2>4. AtInv(p, Restored(at, f), F)
    BY <1>1, <1>3, <2>1, <2>3, AtRestores
  <2> QED BY <2>4
<1>18. \A l \in DOMAIN p : l >= s => at[l] = Origin(p, l) /\ at1[l] = Origin(p, l)
  <2> SUFFICES ASSUME NEW l \in DOMAIN p, l >= s
               PROVE  at[l] = Origin(p, l) /\ at1[l] = Origin(p, l)
    OBVIOUS
  <2>1. l \in Nat /\ f.ddLine < l
    BY <1>1, LineFields
  <2>2. ~Enters(F, l)
    <3> SUFFICES ASSUME NEW k \in DOMAIN F, F[k] \in ListFrames PROVE F[k].ddLine # l
      BY DEF Enters
    <3>1. F[k].ddLine \in Nat /\ F[k].ddLine < f.ddLine
      BY <1>1 DEF ListFrames
    <3> QED BY <1>1, <2>1, <3>1
  <2>3. ~Enters(Append(F, f), l)
    BY <1>1, <1>2, <2>1, <2>2, EntersOneMore
  <2>4. AtInv(p, at, Append(F, f))
    BY DEF Reading
  <2> QED BY <1>17, <2>2, <2>3, <2>4 DEF AtInv
<1>19. T1[Len(T1)].type = "dd_close" /\ T1[Len(T1)].level = lev
  BY <1>5, <1>8
<1> QED BY <1>8, <1>9, <1>11, <1>14, <1>15, <1>16, <1>17, <1>18, <1>19 DEF ItemLeft

-----------------------------------------------------------------------------
(* Behind the tokens T2 a definition of the same list begins on line l. *)
GoesOnAt(p, line, at, tight, T, f, eo, lev, s, l, T2, q) ==
  /\ T2 \in Seq(BlockTokens) /\ Grown(T, T2) /\ Within(T, T2, lev, line, eo.lineMax) /\ T2 # <<>>
  /\ NestInv(p, T2, lev) /\ ListSoFar(T2, f.listTok, lev)
  /\ (f.tight /\ tight /\ ~f.prevEmptyEnd) <=> ~Loose(p, T2, f.listTok, Len(T2))
  /\ CoverInv(p, T2, l) /\ q \in BOOLEAN
  /\ q <=> T2[Len(T2)].type = "dd_close" /\ Blank(p, l - 1)
  /\ l \in Nat /\ s <= l /\ l < eo.lineMax /\ DefinesAt(p, at, eo.blk, l)

(* The next definition of a list is being read. *)
LEMMA NextItemKeeps ==
  ASSUME NEW p, NEW line, NEW at, NEW tight, NEW T, NEW F, NEW f, NEW E, NEW e, NEW eo, NEW lev,
         bl = ReadingState(p, line, at, tight, T, Append(F, f), e),
         ListKnown(p, line, at, tight, T, F, f, E, e, eo, lev), NEW s,
         s \in Nat, line <= s, f.ddLine < s, NEW T1, NEW at1, at1 = Restored(at, f),
         ItemLeft(p, line, at, tight, T, F, f, E, e, eo, lev, s, T1, at1),
         NEW T2, NEW l, NEW q, GoesOnAt(p, line, at, tight, T, f, eo, lev, s, l, T2, q),
         bl' = NextItemState(bl, F, f, s, l, T2, q)
  PROVE  IsReading(bl')
<1>1. /\ GoodPage(p) /\ T \in Seq(BlockTokens) /\ F \in Seq(Frames) /\ E \in Seq(Ghosts) /\ e \in Ghosts
      /\ eo \in Ghosts /\ line \in Nat /\ ListOK(p, line, T, f, eo, e) /\ Below(p, line, T, F, E, eo)
      /\ EndsList(p, eo) /\ \A k \in DOMAIN E : E[k].level <= eo.level /\ eo.lineMax <= E[k].lineMax
      /\ \A k \in DOMAIN F : F[k] \in ListFrames => F[k].ddLine < f.ddLine
      /\ lev \in Nat /\ lev = eo.level + 1 /\ e.level = lev + 1
      /\ f \in ListFrames /\ f.ddLine \in Nat /\ f.listTok \in Nat /\ f.saved.tight \in BOOLEAN
  BY DEF ListKnown
<1>2. /\ e.lineMax = eo.lineMax /\ f.saved.blkIndent = eo.blk /\ f.saved.ddIndent = eo.dd
      /\ e.level = eo.level + 2
  BY <1>1 DEF ListOK
<1>3. AtInv(p, at1, F) /\ \A m \in DOMAIN p : m >= s => at[m] = Origin(p, m) /\ at1[m] = Origin(p, m)
  BY DEF ItemLeft
<1>4. /\ T2 \in Seq(BlockTokens) /\ Grown(T, T2) /\ Within(T, T2, lev, line, eo.lineMax) /\ T2 # <<>>
      /\ NestInv(p, T2, lev) /\ ListSoFar(T2, f.listTok, lev)
      /\ (f.tight /\ tight /\ ~f.prevEmptyEnd) <=> ~Loose(p, T2, f.listTok, Len(T2))
      /\ CoverInv(p, T2, l) /\ q \in BOOLEAN
      /\ q <=> T2[Len(T2)].type = "dd_close" /\ Blank(p, l - 1)
      /\ l \in Nat /\ s <= l /\ l < eo.lineMax /\ DefinesAt(p, at, eo.blk, l)
  BY DEF GoesOnAt
<1>5. PICK t, U : t = tokenOf("dd_open", lev, l, l) /\ U = Append(T2, t)
  OBVIOUS
<1>6. PICK no, yes, tok, i, tt, st, z, f2, e2, at2 :
        /\ no = FALSE /\ yes = TRUE /\ tok = Len(U) /\ i = f.listTok /\ st = f.saved.tight
        /\ tt = (f.tight /\ tight /\ ~f.prevEmptyEnd)
        /\ z = SavedOf(eo.blk, eo.dd, at1, st, l) /\ f2 = ListFrame(eo.lineMax, no, l, i, tt, q, z)
        /\ e2 = ItemGhost(p, eo, l, tok) /\ at2 = EnteredAt(at1, l)
  OBVIOUS
<1>7. IsDefinition(t, lev, l)
  BY <1>1, <1>4, <1>5, DefinitionMade
<1>8. t \in BlockTokens /\ t.type = "dd_open" /\ t.level = lev /\ t.from = l /\ ~isLeaf(t)
  BY <1>7 DEF IsDefinition, isLeaf
<1>9. /\ U \in Seq(BlockTokens) /\ Len(U) = Len(T2) + 1 /\ Len(T2) \in Nat /\ Len(T2) \in DOMAIN T2
      /\ U[Len(U)] = t /\ U[Len(T2)] = T2[Len(T2)] /\ Grown(T2, U) /\ Within(T2, U, lev, line, eo.lineMax)
  <2>1. Fits(t, lev, line, eo.lineMax)
    BY <1>1, <1>8 DEF Fits
  <2>2. PICK lm : lm = eo.lineMax
    OBVIOUS
  <2>3. Added(T2, U, t, lev, line, lm)
    BY <1>1, <1>4, <1>5, <1>8, <2>1, <2>2, OneMore
  <2>4. Len(T2) \in DOMAIN T2
    BY <1>4
  <2> QED BY <2>2, <2>3, <2>4 DEF Added, Grown
<1>10. Grown(T, U) /\ Within(T, U, lev, line, eo.lineMax)
  <2>1. PICK lm : lm = eo.lineMax
    OBVIOUS
  <2>2. Within(T, T2, lev, line, lm) /\ Within(T2, U, lev, line, lm)
    BY <1>4, <1>9, <2>1
  <2>3. Grown(T, U) /\ Within(T, U, lev, line, lm)
    BY <1>1, <1>4, <1>9, <2>2, GrownTwice
  <2> QED BY <2>1, <2>3
<1>11. Below(p, l, U, F, E, eo)
  <2>1. line <= l
    BY <1>1, <1>4
  <2> QED BY <1>1, <1>4, <1>9, <1>10, <2>1, BelowStays
<1>12. l \in DOMAIN p /\ DefinesAt(p, at1, eo.blk, l) /\ at1[l].indent = p[l].indent
  <2>1. l \in DOMAIN p
    BY <1>4 DEF DefinesAt
  <2>2. at[l] = Origin(p, l) /\ at1[l] = Origin(p, l)
    BY <1>3, <1>4, <2>1
  <2> QED BY <1>4, <2>1, <2>2 DEF DefinesAt, Origin
<1>13. \A k \in DOMAIN F : F[k] \in ListFrames => F[k].ddLine < l
  <2> SUFFICES ASSUME NEW k \in DOMAIN F, F[k] \in ListFrames PROVE F[k].ddLine < l
    OBVIOUS
  <2>1. F[k].ddLine \in Nat /\ F[k].ddLine < f.ddLine
    BY <1>1 DEF ListFrames
  <2> QED BY <1>1, <1>4, <2>1
<1>14. q <=> Split(p, U, Len(U), lev)
  <2>1. Len(U) - 1 = Len(T2)
    BY <1>9
  <2> QED BY <1>4, <1>8, <1>9, <2>1 DEF Split, Apart
<1>15. tt \in BOOLEAN /\ (tt <=> ~Loose(p, T2, i, Len(T2)))
  BY <1>4, <1>6
<1>16. ItemStarts(p, l, at1, st, T2, t, U, F, E, eo, lev, i, tt, q)
  <2>1. st \in BOOLEAN /\ i \in Nat /\ ListSoFar(T2, i, lev)
    BY <1>1, <1>4, <1>6
  <2> QED BY <1>1, <1>3, <1>4, <1>5, <1>7, <1>11, <1>12, <1>13, <1>14, <1>15, <2>1 DEF ItemStarts
<1>17. Reading(p, l, at2, yes, U, F, f2, E, e2)
  BY ONLY <1>6, <1>16, ItemEntered
<1>18. bl' = ReadingState(p, l, at2, yes, U, Append(F, f2), e2)
  <2>1. /\ bl.page = p /\ bl.lineMax = e.lineMax /\ bl.at = at /\ bl.tight = tight /\ bl.level = e.level
    BY DEF ReadingState, StateOf
  <2>2. e2.lineMax = eo.lineMax /\ e2.blk = p[l].indent + 2 /\ e2.dd = p[l].indent + 2 /\ e2.level = eo.level + 2
    BY <1>6 DEF ItemGhost
  <2>3. e.level - 1 = lev
    BY <1>1
  <2>4. bl' = StateOf(p, l, e.lineMax, at1[l].indent + 2, at1[l].indent + 2, EnteredAt(at1, l), TRUE, e.level,
              Append(T2, tokenOf("dd_open", e.level - 1, l, l)),
              Append(F, ListFrame(e.lineMax, FALSE, l, f.listTok, f.tight /\ tight /\ ~f.prevEmptyEnd, q,
                                   SavedOf(f.saved.blkIndent, f.saved.ddIndent, at1, f.saved.tight, l))))
    BY <2>1 DEF NextItemState
  <2>5. bl' = StateOf(p, l, e2.lineMax, e2.blk, e2.dd, at2, yes, e2.level, U, Append(F, f2))
    BY ONLY <1>2, <1>5, <1>6, <1>12, <2>2, <2>3, <2>4
  <2> QED BY <2>5 DEF ReadingState
<1> QED BY ONLY <1>17, <1>18 DEF IsReading

-----------------------------------------------------------------------------
(* NextDefinition keeps the invariant. *)
LEMMA NextDefinitionKeeps ==
  ASSUME NEW p, NEW line, NEW at, NEW tight, NEW T, NEW F, NEW f, NEW E, NEW e,
         Reading(p, line, at, tight, T, F, f, E, e),
         bl = ReadingState(p, line, at, tight, T, Append(F, f), e), NextDefinition
  PROVE  IsReading(bl')
<1>1. /\ Ready(bl, F, f)
      /\ bl.page = p /\ bl.line = line /\ bl.lineMax = e.lineMax /\ bl.blkIndent = e.blk
      /\ bl.ddIndent = e.dd /\ bl.at = at /\ bl.tight = tight /\ bl.level = e.level /\ bl.tokens = T
  BY ReadyThere
<1>2. /\ ends /\ f \in ListFrames
      /\ start < bl.lineMax /\ DefinesAt(bl.page, bl.at, f.saved.blkIndent, start)
      /\ bl' = NextItemState(bl, F, f, start, start,
                     Append(bl.tokens, tokenOf("dd_close", bl.level - 1, start, start)),
                     EndsEmpty(bl.page, f, start))
  BY <1>1, NextDefinitionStep
<1>3. PICK eo, lev : ListKnown(p, line, at, tight, T, F, f, E, e, eo, lev)
  BY <1>2, ListThere
<1>4. /\ T \in Seq(BlockTokens) /\ lev \in Nat /\ e.level = lev + 1
      /\ ListOK(p, line, T, f, eo, e) /\ e.level - 1 = lev
  BY <1>3 DEF ListKnown
<1>5. e.lineMax = eo.lineMax /\ f.saved.blkIndent = eo.blk
  BY <1>4 DEF ListOK
<1>6. PICK s, at1, T1, q : /\ s = start /\ at1 = Restored(at, f)
                           /\ T1 = Append(T, tokenOf("dd_close", lev, s, s)) /\ q = EndsEmpty(p, f, s)
  OBVIOUS
<1>7. /\ s < eo.lineMax /\ DefinesAt(p, at, eo.blk, s)
      /\ bl' = NextItemState(bl, F, f, s, s, T1, q)
  BY <1>1, <1>2, <1>4, <1>5, <1>6
<1>8. /\ s \in Nat /\ line <= s /\ s <= e.lineMax /\ f.ddLine < s
      /\ \A k \in line..(s - 1) : Blank(p, k)
      /\ EndsEmpty(p, f, s) <=> Blank(p, s - 1)
  BY <1>2, <1>3, <1>6, ItemEnd
<1>9. ItemLeft(p, line, at, tight, T, F, f, E, e, eo, lev, s, T1, at1)
  BY <1>2, <1>3, <1>6, <1>8, ItemLeaves
<1>10. /\ T1 \in Seq(BlockTokens) /\ Grown(T, T1) /\ Len(T1) = Len(T) + 1 /\ Len(T1) \in DOMAIN T1
       /\ Within(T, T1, lev, line, eo.lineMax)
       /\ T1[Len(T1)].type = "dd_close"
       /\ NestInv(p, T1, lev) /\ ListSoFar(T1, f.listTok, lev)
       /\ (f.tight /\ tight /\ ~f.prevEmptyEnd) <=> ~Loose(p, T1, f.listTok, Len(T1))
       /\ CoverInv(p, T1, s)
  BY <1>9 DEF ItemLeft
<1>11. T1 # <<>> /\ s <= s
  BY <1>8, <1>10
<1>12. q \in BOOLEAN /\ (q <=> Blank(p, s - 1))
  BY <1>6, <1>8 DEF EndsEmpty
<1>13. GoesOnAt(p, line, at, tight, T, f, eo, lev, s, s, T1, q)
  BY <1>7, <1>8, <1>10, <1>11, <1>12 DEF GoesOnAt
<1> QED BY <1>3, <1>6, <1>7, <1>8, <1>9, <1>13, NextItemKeeps

(* A list goes on with a term. *)
LEMMA TermGoesOn ==
  ASSUME NEW p, NEW T \in Seq(BlockTokens), NEW U \in Seq(BlockTokens), NEW lev \in Nat, NEW s,
         NEW i \in Nat, ListSoFar(T, i, lev), TermBehind(p, T, U, lev, s)
  PROVE  ListSoFar(U, i, lev) /\ (Loose(p, U, i, Len(U)) <=> Loose(p, T, i, Len(T)))
<1>1. /\ Grown(T, U) /\ Len(U) = Len(T) + 3 /\ Len(T) \in Nat
      /\ \A k \in DOMAIN U : k \notin DOMAIN T =>
           /\ U[k].level >= lev /\ U[k].type \in {"dt_open", "inline", "dt_close"}
           /\ U[k].level = lev + 1 => U[k - 1].type = "dt_open"
  BY DEF TermBehind
<1>2. /\ IsOpen(T, lev, i) /\ T[i].type = "dl_open" /\ T[i + 1].type = "dt_open" /\ i + 1 \in DOMAIN T
      /\ \A k \in DOMAIN T : k > i =>
           /\ T[k].type = "dl_open" => T[k].level >= lev + 1
           /\ T[k].type = "paragraph_open" /\ T[k].level = lev + 1 => ~T[k].hidden
      /\ i \in DOMAIN T /\ T[i].level = lev - 1
  BY DEF ListSoFar, IsOpen
<1>3. IsOpen(U, lev, i)
  BY <1>1, <1>2, OpenStays
<1>4. U[i] = T[i] /\ U[i + 1] = T[i + 1] /\ i + 1 \in DOMAIN U
  BY <1>1, <1>2 DEF Grown
<1>5. \A k \in DOMAIN U : k > i =>
           /\ U[k].type = "dl_open" => U[k].level >= lev + 1
           /\ U[k].type = "paragraph_open" /\ U[k].level = lev + 1 => ~U[k].hidden
  <2> SUFFICES ASSUME NEW k \in DOMAIN U, k > i
               PROVE  /\ U[k].type = "dl_open" => U[k].level >= lev + 1
                      /\ U[k].type = "paragraph_open" /\ U[k].level = lev + 1 => ~U[k].hidden
    OBVIOUS
  <2>1. CASE k \in DOMAIN T
    <3>1. U[k] = T[k]
      BY <1>1, <2>1 DEF Grown
    <3> QED BY <1>2, <2>1, <3>1
  <2>2. CASE k \notin DOMAIN T
    BY <1>1, <2>2
  <2> QED BY <2>1, <2>2
<1>6. ListSoFar(U, i, lev)
  BY <1>2, <1>3, <1>4, <1>5 DEF ListSoFar
<1>7. Loose(p, U, i, Len(U)) <=> Loose(p, T, i, Len(T))
  <2>1. PICK n \in Nat : n = Len(U) /\ Len(T) <= n
    BY <1>1
  <2>2. \A k \in (Len(T) + 1)..n : ~Parted(p, U, k, T[i].level + 2) /\ ~Split(p, U, k, T[i].level + 1)
    <3> SUFFICES ASSUME NEW k \in (Len(T) + 1)..n
                 PROVE  ~Parted(p, U, k, T[i].level + 2) /\ ~Split(p, U, k, T[i].level + 1)
      OBVIOUS
    <3>1. k \in DOMAIN U /\ k \notin DOMAIN T
      BY <1>1, <2>1
    <3>2. T[i].level + 2 = lev + 1
      BY <1>2
    <3> QED BY <1>1, <3>1, <3>2 DEF Parted, Split
  <2>3. Loose(p, U, i, n) <=> Loose(p, T, i, Len(T))
    BY <1>1, <1>2, <2>1, <2>2, LooseMore
  <2> QED BY <2>1, <2>3
<1> QED BY <1>6, <1>7

(* NextTerm keeps the invariant. *)
LEMMA NextTermKeeps ==
  ASSUME NEW p, NEW line, NEW at, NEW tight, NEW T, NEW F, NEW f, NEW E, NEW e,
         Reading(p, line, at, tight, T, F, f, E, e),
         bl = ReadingState(p, line, at, tight, T, Append(F, f), e), NextTerm
  PROVE  IsReading(bl')
<1>1. /\ Ready(bl, F, f)
      /\ bl.page = p /\ bl.line = line /\ bl.lineMax = e.lineMax /\ bl.blkIndent = e.blk
      /\ bl.ddIndent = e.dd /\ bl.at = at /\ bl.tight = tight /\ bl.level = e.level /\ bl.tokens = T
  BY ReadyThere
<1>2. /\ ends /\ f \in ListFrames /\ start < bl.lineMax
      /\ LET l == DefLine(bl.page, start)
         IN  /\ l < bl.lineMax /\ DefinesAt(bl.page, bl.at, f.saved.blkIndent, l)
             /\ bl' = NextItemState(bl, F, f, start, l,
                     WithTerm(Append(bl.tokens, tokenOf("dd_close", bl.level - 1, start, start)),
                              bl.level - 1, start),
                     FALSE)
  BY <1>1, NextTermStep
<1>3. PICK eo, lev : ListKnown(p, line, at, tight, T, F, f, E, e, eo, lev)
  BY <1>2, ListThere
<1>4. /\ GoodPage(p) /\ T \in Seq(BlockTokens) /\ lev \in Nat /\ e.level = lev + 1 /\ f.listTok \in Nat
      /\ ListOK(p, line, T, f, eo, e) /\ e.level - 1 = lev /\ e \in Ghosts /\ line \in Nat
      /\ e.lineMax \in Nat /\ f.ddLine \in Nat /\ eo \in Ghosts
  BY <1>3 DEF ListKnown
<1>5. e.lineMax = eo.lineMax /\ f.saved.blkIndent = eo.blk
  BY <1>4 DEF ListOK
<1>6. PICK s, l, at1, T1, T2, q :
        /\ s = start /\ l = DefLine(p, s) /\ at1 = Restored(at, f)
        /\ T1 = Append(T, tokenOf("dd_close", lev, s, s)) /\ T2 = WithTerm(T1, lev, s) /\ q = FALSE
  OBVIOUS
<1>7. /\ s < eo.lineMax /\ l < eo.lineMax /\ DefinesAt(p, at, eo.blk, l)
      /\ bl' = NextItemState(bl, F, f, s, l, T2, q)
  BY <1>1, <1>2, <1>4, <1>5, <1>6
<1>8. /\ s \in Nat /\ line <= s /\ s <= e.lineMax /\ f.ddLine < s
      /\ \A k \in line..(s - 1) : Blank(p, k)
  BY <1>2, <1>3, <1>6, ItemEnd
<1>9. ItemLeft(p, line, at, tight, T, F, f, E, e, eo, lev, s, T1, at1)
  BY <1>2, <1>3, <1>6, <1>8, ItemLeaves
<1>10. /\ T1 \in Seq(BlockTokens) /\ Grown(T, T1)
       /\ Within(T, T1, lev, line, eo.lineMax)
       /\ NestInv(p, T1, lev) /\ ListSoFar(T1, f.listTok, lev)
       /\ (f.tight /\ tight /\ ~f.prevEmptyEnd) <=> ~Loose(p, T1, f.listTok, Len(T1))
       /\ CoverInv(p, T1, s)
  BY <1>9 DEF ItemLeft
<1>11. TermBehind(p, T1, T2, lev, s)
  BY <1>4, <1>6, <1>8, <1>10, TermFacts DEF GoodPage
<1>12. /\ T2 \in Seq(BlockTokens) /\ Grown(T1, T2) /\ NestInv(p, T2, lev) /\ T2[Len(T2)].type = "dt_close"
       /\ \A k \in DOMAIN T2 : k \notin DOMAIN T1 =>
            /\ T2[k].level >= lev /\ T2[k].type \in {"dt_open", "inline", "dt_close"}
            /\ T2[k].from = s /\ T2[k].to = s + 1
       /\ Len(T2) = Len(T1) + 3 /\ Len(T1) \in Nat
  BY <1>11 DEF TermBehind
<1>13. CoverInv(p, T2, l) /\ l \in Nat /\ s < l
  <2>1. \A k \in s..(s - 1) : Blank(p, k)
    BY <1>8
  <2>2. PICK s2 \in Nat : s2 = s
    BY <1>8
  <2>3. /\ GoodPage(p) /\ T1 \in Seq(BlockTokens) /\ T2 \in Seq(BlockTokens) /\ l = DefLine(p, s) /\ s \in Nat
        /\ s2 <= s /\ (\A k \in s2..(s - 1) : Blank(p, k)) /\ CoverInv(p, T1, s2) /\ TermBehind(p, T1, T2, lev, s)
    BY <1>4, <1>6, <1>8, <1>10, <1>11, <1>12, <2>1, <2>2
  <2> QED BY ONLY <2>3, TermCovers
<1>14. ListSoFar(T2, f.listTok, lev) /\ (Loose(p, T2, f.listTok, Len(T2)) <=> Loose(p, T1, f.listTok, Len(T1)))
  BY <1>4, <1>10, <1>11, <1>12, TermGoesOn
<1>15. Within(T1, T2, lev, line, eo.lineMax)
  <2>1. line <= s /\ s + 1 <= eo.lineMax
    BY <1>4, <1>5, <1>7, <1>8
  <2> QED BY <1>12, <2>1 DEF Within
<1>16. Grown(T, T2) /\ Within(T, T2, lev, line, eo.lineMax)
  <2>1. PICK lm : lm = eo.lineMax
    OBVIOUS
  <2>2. Within(T, T1, lev, line, lm) /\ Within(T1, T2, lev, line, lm)
    BY <1>10, <1>15, <2>1
  <2>3. Grown(T, T2) /\ Within(T, T2, lev, line, lm)
    BY <1>4, <1>10, <1>12, <2>2, GrownTwice
  <2> QED BY <2>1, <2>3
<1>17. q \in BOOLEAN /\ (q <=> T2[Len(T2)].type = "dd_close" /\ Blank(p, l - 1)) /\ T2 # <<>> /\ s <= l
  <2>1. T2 # <<>>
    BY <1>12
  <2>2. s <= l
    BY <1>8, <1>13
  <2>3. q \in BOOLEAN /\ ~q
    BY <1>6
  <2> QED BY <1>12, <2>1, <2>2, <2>3
<1>18. GoesOnAt(p, line, at, tight, T, f, eo, lev, s, l, T2, q)
  BY <1>7, <1>10, <1>12, <1>13, <1>14, <1>16, <1>17 DEF GoesOnAt
<1> QED BY <1>3, <1>6, <1>7, <1>8, <1>9, <1>18, NextItemKeeps

-----------------------------------------------------------------------------
(* The tokens that close a definition and its list. *)
IsClose(t, type, lev) == t \in BlockTokens /\ t.type = type /\ t.level = lev

(* A definition is closed by token t, its list by token t2. *)
Closes(t, t2, L) == IsClose(t, "dd_close", L + 1) /\ IsClose(t2, "dl_close", L)

(* The list of token i is closed behind the tokens M. *)
ListEnds(p, line, at, M, F, g, E, eo, s, t, t2, M1, M2, i) ==
  /\ GoodPage(p) /\ line \in Nat /\ 1 <= line /\ M \in Seq(BlockTokens)
  /\ F \in Seq(Frames) /\ g \in Frames /\ E \in Seq(Ghosts) /\ eo \in Ghosts
  /\ Stack(p, line, M, Append(F, g), Append(E, eo)) /\ AllSuspended(p, M, Append(F, g), Append(E, eo))
  /\ CoverInv(p, M, line) /\ AtInv(p, at, Append(F, g))
  /\ s \in Nat /\ line <= s /\ s <= eo.lineMax /\ \A k \in line..(s - 1) : Blank(p, k)
  /\ Closes(t, t2, eo.level) /\ M1 = Append(M, t) /\ M2 = Append(M1, t2)
  /\ NestInv(p, M1, eo.level + 1) /\ IsOpen(M1, eo.level + 1, i) /\ M1[i].type = "dl_open"
  /\ HiddenRight(p, M2, i, Len(M1) + 1)

(* So the frame below, g, goes on behind it. *)
LEMMA ListCloses ==
  ASSUME NEW p, NEW line, NEW at, NEW M, NEW F, NEW g, NEW E, NEW eo, NEW s, NEW t, NEW t2,
         NEW M1, NEW M2, NEW i, ListEnds(p, line, at, M, F, g, E, eo, s, t, t2, M1, M2, i)
  PROVE  Reading(p, Behind(p, g, s), at, ~g.hasEmpty, M2, F, Marked(p, g, s), E, eo)
<1>1. /\ GoodPage(p) /\ line \in Nat /\ 1 <= line /\ M \in Seq(BlockTokens)
      /\ F \in Seq(Frames) /\ g \in Frames /\ E \in Seq(Ghosts) /\ eo \in Ghosts
      /\ Stack(p, line, M, Append(F, g), Append(E, eo)) /\ AllSuspended(p, M, Append(F, g), Append(E, eo))
      /\ CoverInv(p, M, line) /\ AtInv(p, at, Append(F, g))
      /\ s \in Nat /\ line <= s /\ s <= eo.lineMax /\ \A k \in line..(s - 1) : Blank(p, k)
      /\ Closes(t, t2, eo.level) /\ M1 = Append(M, t) /\ M2 = Append(M1, t2)
      /\ NestInv(p, M1, eo.level + 1) /\ IsOpen(M1, eo.level + 1, i) /\ M1[i].type = "dl_open"
      /\ HiddenRight(p, M2, i, Len(M1) + 1)
  BY DEF ListEnds
<1>2. /\ Stack(p, line, M, F, E) /\ TopOK(p, line, M, F, g, E, eo)
      /\ Len(E) = Len(F) /\ \A k \in DOMAIN E : Narrower(E[k], eo)
  BY <1>1, StackPops
<1>3. AllSuspended(p, M, F, E) /\ Suspended(p, M, g, eo)
  BY <1>1, <1>2, SuspendedPush
<1>4. PICK L, lev : L = eo.level /\ lev = L + 1
  OBVIOUS
<1>5. L \in Nat /\ lev \in Nat /\ eo.lineMax \in Nat /\ lev >= 1 /\ lev - 1 = L
  BY <1>1, <1>4, GhostFields
<1>6. /\ t \in BlockTokens /\ t.type = "dd_close" /\ t.level = lev
      /\ t2 \in BlockTokens /\ t2.type = "dl_close" /\ t2.level = L
  BY <1>1, <1>4 DEF Closes, IsClose
<1>7. /\ ~Begins(t) /\ ~isLeaf(t) /\ ~Begins(t2) /\ ~isLeaf(t2)
      /\ t2.type \in DOMAIN Ending /\ Ending[t2.type] = "dl_open"
  BY <1>6, Kinds DEF Begins, isLeaf
<1>8. PICK lm : lm = eo.lineMax
  OBVIOUS
<1>9. /\ M1 \in Seq(BlockTokens) /\ Grown(M, M1) /\ Within(M, M1, L, line, lm)
      /\ \A k \in DOMAIN M1 : k \notin DOMAIN M => M1[k] = t
  <2>1. Fits(t, L, line, lm)
    BY <1>5, <1>4, <1>6, <1>7 DEF Fits
  <2>2. Added(M, M1, t, L, line, lm)
    BY <1>1, <1>5, <1>6, <2>1, OneMore
  <2> QED BY <2>2 DEF Added
<1>10. /\ M2 \in Seq(BlockTokens) /\ Grown(M1, M2) /\ Within(M1, M2, L, line, lm)
       /\ M2[Len(M2)] = t2
       /\ \A k \in DOMAIN M2 : k \notin DOMAIN M1 => M2[k] = t2
  <2>1. Fits(t2, L, line, lm)
    BY <1>5, <1>6, <1>7 DEF Fits
  <2>2. Added(M1, M2, t2, L, line, lm)
    BY <1>1, <1>5, <1>6, <1>9, <2>1, OneMore
  <2> QED BY <2>2 DEF Added
<1>11. Grown(M, M2) /\ Within(M, M2, L, line, lm)
  BY <1>1, <1>9, <1>10, GrownTwice
<1>12. \A k \in DOMAIN M2 : k \notin DOMAIN M => M2[k] = t \/ M2[k] = t2
  BY <1>9, <1>10 DEF Grown
<1>13. NestInv(p, M2, L)
  <2>1. M1[i].type = "container_open" =>
           /\ \A k \in DOMAIN M1 : k > i /\ isLeaf(M1[k]) => M1[k].from > M1[i].from /\ M1[k].to <= t2.from
           /\ t2.to > t2.from => p[t2.from].markers >= p[M1[i].from].markers
    BY <1>1
  <2>2. Ending[t2.type] = M1[i].type /\ t2.level = lev - 1
    BY <1>1, <1>5, <1>6, <1>7
  <2>3. NestInv(p, M1, lev) /\ IsOpen(M1, lev, i)
    BY <1>1, <1>4
  <2>4. NestInv(p, M2, lev - 1)
    BY <1>1, <1>5, <1>6, <1>7, <1>9, <2>1, <2>2, <2>3, NestClose
  <2> QED BY <1>5, <2>4
<1>14. Suspended(p, M2, g, eo)
  <2>1. g \in ListFrames => eo.tok \in DOMAIN M
    BY <1>1, <1>2, TopFacts
  <2>2. \A k \in DOMAIN M2 : k \notin DOMAIN M => ~ (M2[k].level = eo.level /\ Begins(M2[k]))
    BY <1>7, <1>12
  <2> QED BY <1>1, <1>3, <1>10, <1>11, <2>1, <2>2, SuspendedStays
<1>15. CoverInv(p, M2, s)
  <2>1. \A k \in DOMAIN M2, m \in DOMAIN p : k \notin DOMAIN M => ~Covers(M2[k], m)
    BY <1>6, <1>12, OthersCoverNot
  <2>2. p \in Seq(PageLines)
    BY <1>1 DEF GoodPage
  <2>3. \A m \in DOMAIN p : line <= m /\ m < s => Blank(p, m)
    <3> SUFFICES ASSUME NEW m \in DOMAIN p, line <= m, m < s PROVE Blank(p, m)
      OBVIOUS
    <3>1. m \in Nat
      BY <2>2
    <3> QED BY <1>1, <3>1
  <2> QED BY <1>1, <1>10, <1>11, <2>1, <2>2, <2>3, CoverStays
<1>16. M2[Len(M2)].type \notin {"dd_open", "dt_open"} /\ 1 <= s
  BY <1>1, <1>6, <1>10
<1>17. NestInv(p, M2, eo.level) /\ Within(M, M2, eo.level, line, eo.lineMax)
  BY <1>4, <1>8, <1>11, <1>13
<1> QED BY <1>1, <1>2, <1>3, <1>10, <1>11, <1>14, <1>15, <1>16, <1>17, Resumes

-----------------------------------------------------------------------------
(* The list of token i is to be closed by token t; its paragraphs are hidden as tt says. *)
ListHides(p, T, L, lev, t, i, tt) ==
  /\ T \in Seq(BlockTokens) /\ L \in Nat /\ lev \in Nat /\ lev = L + 1 /\ IsClose(t, "dl_close", L)
  /\ IsOpen(T, lev, i) /\ T[i].type = "dl_open" /\ tt \in BOOLEAN /\ (tt <=> ~Loose(p, T, i, Len(T)))
  /\ \A k \in DOMAIN T : k > i /\ T[k].level = lev + 1 /\ T[k].type = "paragraph_open" => (T[k].hidden <=> tt)

(* A list that is closed shows or hides its paragraphs as it is loose or tight. *)
LEMMA ListHidden ==
  ASSUME NEW p, NEW T, NEW L, NEW lev, NEW t, NEW i, NEW tt, ListHides(p, T, L, lev, t, i, tt),
         NEW U, U = Append(T, t)
  PROVE  HiddenRight(p, U, i, Len(T) + 1)
<1>0. /\ T \in Seq(BlockTokens) /\ L \in Nat /\ lev \in Nat /\ lev = L + 1 /\ IsClose(t, "dl_close", L)
      /\ IsOpen(T, lev, i) /\ T[i].type = "dl_open" /\ tt \in BOOLEAN /\ (tt <=> ~Loose(p, T, i, Len(T)))
      /\ \A k \in DOMAIN T : k > i /\ T[k].level = lev + 1 /\ T[k].type = "paragraph_open" => (T[k].hidden <=> tt)
  BY DEF ListHides
<1>1. t \in BlockTokens /\ t.type = "dl_close" /\ t.level = L
  BY <1>0 DEF IsClose
<1>2. ~Begins(t)
  BY <1>1, Kinds DEF Begins, isLeaf
<1>3. /\ U \in Seq(BlockTokens) /\ Len(U) = Len(T) + 1 /\ Len(T) \in Nat
      /\ DOMAIN U = 1..(Len(T) + 1) /\ DOMAIN T = 1..Len(T) /\ U[Len(T) + 1] = t
      /\ \A k \in DOMAIN T : k \in DOMAIN U /\ U[k] = T[k]
      /\ \A k \in DOMAIN U : k \in Nat /\ (k \in DOMAIN T \/ k = Len(T) + 1)
      /\ Grown(T, U)
  <2>1. T \in Seq(BlockTokens) /\ t \in BlockTokens /\ U = Append(T, t)
    BY <1>0, <1>1
  <2>2. /\ U \in Seq(BlockTokens) /\ Len(U) = Len(T) + 1 /\ Len(T) \in Nat
        /\ DOMAIN U = 1..(Len(T) + 1) /\ DOMAIN T = 1..Len(T) /\ U[Len(T) + 1] = t
        /\ \A k \in DOMAIN T : k \in DOMAIN U /\ U[k] = T[k]
    BY ONLY <2>1, Appended
  <2>3. \A k \in DOMAIN U : k \in Nat /\ (k \in DOMAIN T \/ k = Len(T) + 1)
    BY <2>2
  <2>4. Grown(T, U)
    BY <2>2 DEF Grown
  <2> QED BY <2>2, <2>3, <2>4
<1>4. i \in DOMAIN T /\ T[i].level = L /\ i \in Nat /\ U[i] = T[i]
  BY <1>0, <1>3 DEF IsOpen
<1>5. PICK n \in Nat : n = Len(T) + 1 /\ Len(T) <= n
  BY <1>3
<1>6. Loose(p, U, i, n) <=> ~tt
  <2>1. \A k \in (Len(T) + 1)..n : ~Parted(p, U, k, T[i].level + 2) /\ ~Split(p, U, k, T[i].level + 1)
    <3> SUFFICES ASSUME NEW k \in (Len(T) + 1)..n
                 PROVE  ~Parted(p, U, k, T[i].level + 2) /\ ~Split(p, U, k, T[i].level + 1)
      OBVIOUS
    <3>1. k = Len(T) + 1 /\ U[k] = t
      BY <1>3, <1>5
    <3> QED BY <1>1, <1>2, <3>1 DEF Parted, Split
  <2>2. Loose(p, U, i, n) <=> Loose(p, T, i, Len(T))
    BY <1>0, <1>3, <1>4, <1>5, <2>1, LooseMore
  <2> QED BY <1>0, <2>2
<1>7. \A k \in i..n : U[k].level = U[i].level + 2 /\ U[k].type = "paragraph_open" => (U[k].hidden <=> tt)
  <2> SUFFICES ASSUME NEW k \in i..n, U[k].level = U[i].level + 2, U[k].type = "paragraph_open"
               PROVE  U[k].hidden <=> tt
    OBVIOUS
  <2>1. k \in DOMAIN U
    BY <1>3, <1>4, <1>5
  <2>2. k \in DOMAIN T
    BY <1>1, <1>3, <2>1
  <2>3. k # i
    BY <1>0, <1>4
  <2>4. U[k] = T[k] /\ U[i].level + 2 = lev + 1 /\ k > i
    BY <1>0, <1>3, <1>4, <2>2, <2>3
  <2> QED BY <1>0, <2>2, <2>4
<1>8. HiddenRight(p, U, i, n)
  BY <1>6, <1>7 DEF HiddenRight
<1> QED BY <1>5, <1>8

(* What is known of the tokens of a list whose definition has been closed. *)
ListClosable(p, line, at1, T, F, g, E, eo, s, t, t2, T1, i) ==
  /\ GoodPage(p) /\ line \in Nat /\ 1 <= line /\ T \in Seq(BlockTokens)
  /\ F \in Seq(Frames) /\ g \in Frames /\ E \in Seq(Ghosts) /\ eo \in Ghosts
  /\ Stack(p, line, T, Append(F, g), Append(E, eo)) /\ AllSuspended(p, T, Append(F, g), Append(E, eo))
  /\ CoverInv(p, T, line) /\ AtInv(p, at1, Append(F, g))
  /\ s \in Nat /\ line <= s /\ s <= eo.lineMax /\ \A k \in line..(s - 1) : Blank(p, k)
  /\ Closes(t, t2, eo.level) /\ T1 = Append(T, t)
  /\ NestInv(p, T1, eo.level + 1) /\ ListSoFar(T1, i, eo.level + 1) /\ i \in Nat

(* A loose list is closed as it is. *)
LEMMA LooseListEnds ==
  ASSUME NEW p, NEW line, NEW at1, NEW T, NEW F, NEW g, NEW E, NEW eo, NEW s, NEW t, NEW t2, NEW T1, NEW i,
         ListClosable(p, line, at1, T, F, g, E, eo, s, t, t2, T1, i), Loose(p, T1, i, Len(T1)),
         NEW T2, T2 = Append(T1, t2)
  PROVE  ListEnds(p, line, at1, T, F, g, E, eo, s, t, t2, T1, T2, i)
<1>1. /\ GoodPage(p) /\ line \in Nat /\ 1 <= line /\ T \in Seq(BlockTokens)
      /\ F \in Seq(Frames) /\ g \in Frames /\ E \in Seq(Ghosts) /\ eo \in Ghosts
      /\ Stack(p, line, T, Append(F, g), Append(E, eo)) /\ AllSuspended(p, T, Append(F, g), Append(E, eo))
      /\ CoverInv(p, T, line) /\ AtInv(p, at1, Append(F, g))
      /\ s \in Nat /\ line <= s /\ s <= eo.lineMax /\ \A k \in line..(s - 1) : Blank(p, k)
      /\ Closes(t, t2, eo.level) /\ T1 = Append(T, t)
      /\ NestInv(p, T1, eo.level + 1) /\ ListSoFar(T1, i, eo.level + 1) /\ i \in Nat
  BY DEF ListClosable
<1>2. PICK L, lev, no : L = eo.level /\ lev = L + 1 /\ no = FALSE
  OBVIOUS
<1>3. L \in Nat /\ lev \in Nat
  BY <1>1, <1>2, GhostFields
<1>4. t \in BlockTokens /\ IsClose(t2, "dl_close", L)
  BY <1>1, <1>2 DEF Closes, IsClose
<1>5. T1 \in Seq(BlockTokens)
  BY <1>1, <1>4
<1>6. /\ IsOpen(T1, lev, i) /\ T1[i].type = "dl_open"
      /\ \A k \in DOMAIN T1 : k > i /\ T1[k].type = "paragraph_open" /\ T1[k].level = lev + 1 => ~T1[k].hidden
  BY <1>1, <1>2 DEF ListSoFar
<1>7. HiddenRight(p, T2, i, Len(T1) + 1)
  <2>1. no \in BOOLEAN /\ (no <=> ~Loose(p, T1, i, Len(T1)))
    BY <1>2
  <2>2. \A k \in DOMAIN T1 : k > i /\ T1[k].level = lev + 1 /\ T1[k].type = "paragraph_open" => (T1[k].hidden <=> no)
    BY <1>2, <1>6
  <2>3. lev = L + 1 /\ T2 = Append(T1, t2)
    BY <1>2
  <2>4. ListHides(p, T1, L, lev, t2, i, no)
    BY <1>3, <1>4, <1>5, <1>6, <2>1, <2>2, <2>3 DEF ListHides
  <2> QED BY ONLY <2>3, <2>4, ListHidden
<1> QED BY <1>1, <1>2, <1>6, <1>7 DEF ListEnds

(* The paragraphs of a tight list are hidden when it is closed. *)
LEMMA TightListEnds ==
  ASSUME NEW p, NEW line, NEW at1, NEW T, NEW F, NEW g, NEW E, NEW eo, NEW s, NEW t, NEW t2, NEW T1, NEW i,
         ListClosable(p, line, at1, T, F, g, E, eo, s, t, t2, T1, i), ~Loose(p, T1, i, Len(T1)),
         NEW M, M = Tightened(T, eo.level, i), NEW M1, M1 = Append(M, t), NEW M2, M2 = Append(M1, t2)
  PROVE  ListEnds(p, line, at1, M, F, g, E, eo, s, t, t2, M1, M2, i)
<1>1. /\ GoodPage(p) /\ line \in Nat /\ 1 <= line /\ T \in Seq(BlockTokens)
      /\ F \in Seq(Frames) /\ g \in Frames /\ E \in Seq(Ghosts) /\ eo \in Ghosts
      /\ Stack(p, line, T, Append(F, g), Append(E, eo)) /\ AllSuspended(p, T, Append(F, g), Append(E, eo))
      /\ CoverInv(p, T, line) /\ AtInv(p, at1, Append(F, g))
      /\ s \in Nat /\ line <= s /\ s <= eo.lineMax /\ \A k \in line..(s - 1) : Blank(p, k)
      /\ Closes(t, t2, eo.level) /\ T1 = Append(T, t)
      /\ NestInv(p, T1, eo.level + 1) /\ ListSoFar(T1, i, eo.level + 1) /\ i \in Nat
  BY DEF ListClosable
<1>2. PICK L, lev, yes, F2, E2 : L = eo.level /\ lev = L + 1 /\ yes = TRUE /\ F2 = Append(F, g) /\ E2 = Append(E, eo)
  OBVIOUS
<1>3. L \in Nat /\ lev \in Nat /\ lev + 1 = L + 2
  BY <1>1, <1>2, GhostFields
<1>4. t \in BlockTokens /\ t.type = "dd_close" /\ IsClose(t2, "dl_close", L)
  BY <1>1, <1>2 DEF Closes, IsClose
<1>5. T1 \in Seq(BlockTokens)
  BY <1>1, <1>4
<1>6. /\ IsOpen(T1, lev, i) /\ T1[i].type = "dl_open" /\ T1[i + 1].type = "dt_open"
      /\ \A k \in DOMAIN T1 : k > i /\ T1[k].type = "dl_open" => T1[k].level >= lev + 1
      /\ i \in DOMAIN T1
  BY <1>1, <1>2 DEF ListSoFar, IsOpen
<1>7. M \in Seq(BlockTokens) /\ SameButHidden(T, M) /\ M = Tightened(T, L, i)
  <2>1. M = Tightened(T, L, i)
    BY <1>2
  <2> QED BY <1>1, <1>3, <2>1, TightenedTokens
<1>8. M1 = Tightened(T1, L, i)
  <2>1. t.type \notin {"paragraph_open", "paragraph_close"}
    BY <1>4
  <2>2. Tightened(Append(T, t), L, i) = Append(Tightened(T, L, i), t)
    BY <1>1, <1>3, <1>4, <2>1, MarkBehind
  <2> QED BY <1>1, <1>7, <2>2
<1>9. /\ M1 \in Seq(BlockTokens) /\ Len(M1) = Len(T1) /\ SameButHidden(T1, M1)
      /\ \A k \in DOMAIN T1 : k > i + 1 /\ T1[k].level = L + 2 /\ T1[k].type = "paragraph_open" => M1[k].hidden
  <2>1. T1 \in Seq(BlockTokens) /\ L \in Nat /\ i \in Nat /\ M1 = Tightened(T1, L, i)
    BY <1>1, <1>3, <1>5, <1>8
  <2>2. Tightened(T1, L, i) \in Seq(BlockTokens) /\ SameButHidden(T1, Tightened(T1, L, i))
    BY ONLY <2>1, TightenedTokens
  <2>3. \A k \in DOMAIN T1 : k > i + 1 /\ T1[k].level = L + 2 /\ T1[k].type = "paragraph_open" => M1[k].hidden
    BY ONLY <2>1, TightenedTokens
  <2>4. Len(M1) = Len(T1)
    BY <2>1, <2>2 DEF SameButHidden
  <2> QED BY <2>1, <2>2, <2>3, <2>4
<1>10. DOMAIN M1 = DOMAIN T1 /\ \A k \in DOMAIN T1 : M1[k].type = T1[k].type /\ M1[k].level = T1[k].level
  BY <1>9 DEF SameButHidden
<1>11. NestInv(p, M1, lev) /\ IsOpen(M1, lev, i) /\ M1[i].type = "dl_open"
  <2>1. NestInv(p, T1, lev) /\ IsOpen(T1, L + 1, i)
    BY <1>1, <1>2, <1>6
  <2>2. \A k \in DOMAIN T1 : k > i /\ T1[k].type = "dl_open" => T1[k].level >= L + 2
    BY <1>3, <1>6
  <2>3. NestInv(p, M1, lev)
    BY <1>3, <1>5, <1>8, <2>1, <2>2, MarkNest
  <2>4. IsOpen(M1, lev, i)
    BY <1>5, <1>6, <1>9, HiddenNothingElse
  <2> QED BY <1>6, <1>10, <2>3, <2>4
<1>12. HiddenRight(p, M2, i, Len(M1) + 1)
  <2>1. Loose(p, M1, i, Len(T1)) <=> Loose(p, T1, i, Len(T1))
    <3>1. PICK n \in Nat : n = Len(T1) /\ n <= Len(T1)
      BY <1>5
    <3>2. Loose(p, M1, i, n) <=> Loose(p, T1, i, n)
      BY <1>5, <1>6, <1>9, <3>1, HiddenLoose
    <3> QED BY <3>1, <3>2
  <2>2. yes \in BOOLEAN /\ (yes <=> ~Loose(p, M1, i, Len(M1)))
    BY <1>2, <1>9, <2>1
  <2>3. \A k \in DOMAIN M1 : k > i /\ M1[k].level = lev + 1 /\ M1[k].type = "paragraph_open" => (M1[k].hidden <=> yes)
    <3> SUFFICES ASSUME NEW k \in DOMAIN M1, k > i, M1[k].level = lev + 1, M1[k].type = "paragraph_open"
                 PROVE  M1[k].hidden
      BY <1>2
    <3>1. k \in DOMAIN T1 /\ T1[k].level = L + 2 /\ T1[k].type = "paragraph_open" /\ k \in Nat
      BY <1>3, <1>5, <1>10
    <3>2. k # i + 1
      BY <1>6, <3>1
    <3>3. k > i + 1
      BY <1>1, <3>1, <3>2
    <3> QED BY <1>9, <3>1, <3>3
  <2>4. lev = L + 1 /\ M2 = Append(M1, t2)
    BY <1>2
  <2>5. ListHides(p, M1, L, lev, t2, i, yes)
    BY <1>3, <1>4, <1>9, <1>11, <2>2, <2>3, <2>4 DEF ListHides
  <2> QED BY ONLY <2>4, <2>5, ListHidden
<1>13. Stack(p, line, M, F2, E2)
  <2>1. Stack(p, line, T, F2, E2)
    BY <1>1, <1>2
  <2>2. \A k \in DOMAIN E2 : E2[k].level <= L
    <3>1. /\ E2 \in Seq(Ghosts) /\ Len(E) \in Nat /\ DOMAIN E2 = 1..(Len(E) + 1) /\ DOMAIN E = 1..Len(E)
          /\ E2[Len(E) + 1] = eo /\ \A k \in DOMAIN E : E2[k] = E[k]
      BY <1>1, <1>2, OnFrames
    <3>2. \A k \in DOMAIN E : Narrower(E[k], eo) /\ E[k].level \in Nat
      <4>1. Stack(p, line, T, Append(F, g), Append(E, eo)) /\ F \in Seq(Frames) /\ g \in Frames
            /\ E \in Seq(Ghosts) /\ eo \in Ghosts
        BY <1>1
      <4>2. \A k \in DOMAIN E : Narrower(E[k], eo)
        BY ONLY <4>1, StackPops
      <4>3. \A k \in DOMAIN E : E[k] \in Ghosts
        BY <4>1
      <4> QED BY <4>2, <4>3, GhostFields
    <3> SUFFICES ASSUME NEW k \in DOMAIN E2 PROVE E2[k].level <= L
      OBVIOUS
    <3>3. CASE k \in DOMAIN E
      BY <1>2, <1>3, <3>1, <3>2, <3>3 DEF Narrower
    <3>4. CASE k = Len(E) + 1
      BY <1>2, <1>3, <3>1, <3>4
    <3> QED BY <3>1, <3>3, <3>4
  <2> QED BY <1>1, <1>3, <1>7, <2>1, <2>2, MarkStack
<1>14. AllSuspended(p, M, F2, E2)
  <2>1. Stack(p, line, T, F2, E2) /\ AllSuspended(p, T, F2, E2)
    BY <1>1, <1>2
  <2> QED BY <1>1, <1>7, <2>1, MarkSuspended
<1>15. CoverInv(p, M, line)
  BY <1>1, <1>7, MarkCover
<1> QED BY <1>1, <1>2, <1>7, <1>11, <1>12, <1>13, <1>14, <1>15 DEF ListEnds

-----------------------------------------------------------------------------
(* In both cases frame g goes on. *)
LEMMA ListClosed ==
  ASSUME NEW p, NEW line, NEW at1, NEW T, NEW F, NEW g, NEW E, NEW eo, NEW s, NEW t, NEW t2, NEW T1, NEW i,
         ListClosable(p, line, at1, T, F, g, E, eo, s, t, t2, T1, i),
         NEW tt \in BOOLEAN, tt <=> ~Loose(p, T1, i, Len(T1)), NEW T2, T2 = Append(T1, t2),
         NEW T3, T3 = IF tt THEN Tightened(T2, eo.level, i) ELSE T2
  PROVE  Reading(p, Behind(p, g, s), at1, ~g.hasEmpty, T3, F, Marked(p, g, s), E, eo)
<1>1. CASE ~tt
  <2>1. Loose(p, T1, i, Len(T1)) /\ T3 = T2
    BY <1>1
  <2>2. ListEnds(p, line, at1, T, F, g, E, eo, s, t, t2, T1, T2, i)
    BY <2>1, LooseListEnds
  <2>3. Reading(p, Behind(p, g, s), at1, ~g.hasEmpty, T2, F, Marked(p, g, s), E, eo)
    BY ONLY <2>2, ListCloses
  <2> QED BY <2>1, <2>3
<1>2. CASE tt
  <2>1. PICK M, M1, M2 : M = Tightened(T, eo.level, i) /\ M1 = Append(M, t) /\ M2 = Append(M1, t2)
    OBVIOUS
  <2>2. ~Loose(p, T1, i, Len(T1))
    BY <1>2
  <2>3. ListEnds(p, line, at1, M, F, g, E, eo, s, t, t2, M1, M2, i)
    BY ONLY <2>1, <2>2, TightListEnds, ListClosable(p, line, at1, T, F, g, E, eo, s, t, t2, T1, i)
  <2>4. Reading(p, Behind(p, g, s), at1, ~g.hasEmpty, M2, F, Marked(p, g, s), E, eo)
    BY ONLY <2>3, ListCloses
  <2>5. T3 = M2
    <3>1. PICK L : L = eo.level
      OBVIOUS
    <3>2. /\ T \in Seq(BlockTokens) /\ t \in BlockTokens /\ t2 \in BlockTokens /\ L \in Nat /\ i \in Nat
          /\ t.type \notin {"paragraph_open", "paragraph_close"}
          /\ t2.type \notin {"paragraph_open", "paragraph_close"}
          /\ T1 = Append(T, t)
      BY <3>1, GhostFields DEF ListClosable, Closes, IsClose
    <3>3. T1 \in Seq(BlockTokens)
      BY <3>2
    <3>4. Tightened(Append(T, t), L, i) = Append(Tightened(T, L, i), t)
      BY <3>2, MarkBehind
    <3>5. Tightened(Append(T1, t2), L, i) = Append(Tightened(T1, L, i), t2)
      BY <3>2, <3>3, MarkBehind
    <3> QED BY ONLY <1>2, <2>1, <3>1, <3>2, <3>4, <3>5, T2 = Append(T1, t2), T3 = IF tt THEN Tightened(T2, eo.level, i) ELSE T2
  <2> QED BY <2>4, <2>5
<1> QED BY <1>1, <1>2

(* The tokens that close a definition and a list. *)
LEMMA CloseMade ==
  ASSUME NEW type, type \in {"dd_close", "dl_close"}, NEW L \in Nat, NEW s \in Nat,
         NEW t, t = tokenOf(type, L, s, s)
  PROVE  IsClose(t, type, L)
<1>1. type \in TokenTypes
  BY Kinds DEF TokenTypes
<1>2. IsToken(t, type, L, s, s)
  BY ONLY <1>1, L \in Nat, s \in Nat, t = tokenOf(type, L, s, s), TokenMade
<1> QED BY <1>2 DEF IsToken, IsClose

(* EndList keeps the invariant. *)
LEMMA EndListKeeps ==
  ASSUME NEW p, NEW line, NEW at, NEW tight, NEW T, NEW F, NEW f, NEW E, NEW e,
         Reading(p, line, at, tight, T, F, f, E, e),
         bl = ReadingState(p, line, at, tight, T, Append(F, f), e), EndList
  PROVE  IsReading(bl')
<1>1. /\ Ready(bl, F, f)
      /\ bl.page = p /\ bl.line = line /\ bl.lineMax = e.lineMax /\ bl.at = at /\ bl.tight = tight
      /\ bl.level = e.level /\ bl.tokens = T
  BY ReadyThere
<1>2. ends /\ f \in ListFrames
  <2>1. itemEnds
    BY DEF EndList
  <2> QED BY <1>1, <2>1, DefinitionLeft
<1>3. PICK eo, lev : ListKnown(p, line, at, tight, T, F, f, E, e, eo, lev)
  BY <1>2, ListThere
<1>4. /\ GoodPage(p) /\ T \in Seq(BlockTokens) /\ F # <<>> /\ eo \in Ghosts /\ eo = E[Len(E)]
      /\ line \in Nat /\ 1 <= line /\ ListOK(p, line, T, f, eo, e)
      /\ lev \in Nat /\ lev = eo.level + 1 /\ e.level = lev + 1 /\ f.listTok \in Nat
  BY <1>3 DEF ListKnown
<1>5. /\ e.lineMax = eo.lineMax /\ f.saved.blkIndent = eo.blk /\ f.saved.ddIndent = eo.dd
  BY <1>4 DEF ListOK
<1>6. PICK F1, g, E1, ge : /\ F = Append(F1, g) /\ E = Append(E1, ge) /\ E[Len(E)] = ge
                           /\ BelowTop(p, line, T, F1, g, E1, ge)
  BY <1>4, TopUnder
<1>7. ge = eo
  BY <1>4, <1>6
<1>8. PICK s, at1, t, t2, L, i, tt :
        /\ s = start /\ at1 = Restored(at, f) /\ t = tokenOf("dd_close", lev, s, s) /\ L = eo.level
        /\ t2 = tokenOf("dl_close", L, s, s) /\ i = f.listTok /\ tt = (f.tight /\ tight /\ ~f.prevEmptyEnd)
  OBVIOUS
<1>9. PICK T1, T2, T3 : /\ T1 = Append(T, t) /\ T2 = Append(T1, t2)
                        /\ T3 = IF tt THEN Tightened(T2, L, i) ELSE T2
  OBVIOUS
<1>10. /\ s \in Nat /\ line <= s /\ s <= e.lineMax /\ f.ddLine < s
       /\ \A k \in line..(s - 1) : Blank(p, k)
  BY <1>2, <1>3, <1>8, ItemEnd
<1>11. ItemLeft(p, line, at, tight, T, F, f, E, e, eo, lev, s, T1, at1)
  <2>1. T1 = Append(T, tokenOf("dd_close", lev, s, s))
    BY <1>8, <1>9
  <2> QED BY <1>2, <1>3, <1>8, <1>10, <2>1, ItemLeaves
<1>12. /\ NestInv(p, T1, lev) /\ ListSoFar(T1, i, lev) /\ AtInv(p, at1, F)
       /\ tt \in BOOLEAN /\ (tt <=> ~Loose(p, T1, i, Len(T1)))
  BY <1>8, <1>11 DEF ItemLeft
<1>13. L \in Nat /\ lev = L + 1
  BY <1>4, <1>8, GhostFields
<1>14. Closes(t, t2, eo.level)
  <2>1. PICK a, b : a = "dd_close" /\ b = "dl_close"
    OBVIOUS
  <2>2. t = tokenOf(a, lev, s, s) /\ a \in {"dd_close", "dl_close"}
    BY <1>8, <2>1
  <2>3. t2 = tokenOf(b, L, s, s) /\ b \in {"dd_close", "dl_close"}
    BY <1>8, <2>1
  <2>4. IsClose(t, a, lev)
    BY ONLY <1>4, <1>10, <2>2, CloseMade
  <2>5. IsClose(t2, b, L)
    BY ONLY <1>13, <1>10, <2>3, CloseMade
  <2> QED BY <1>8, <1>13, <2>1, <2>4, <2>5 DEF Closes
<1>15. /\ CoverInv(p, T, line) /\ Stack(p, line, T, Append(F1, g), Append(E1, eo))
       /\ AllSuspended(p, T, Append(F1, g), Append(E1, eo))
  <2>1. /\ CoverInv(p, T, line) /\ AllSuspended(p, T, F, E)
        /\ Stack(p, line, T, Append(F, f), Append(E, e)) /\ F \in Seq(Frames) /\ f \in Frames
        /\ E \in Seq(Ghosts) /\ e \in Ghosts
    BY DEF Reading
  <2>2. Stack(p, line, T, F, E)
    BY ONLY <2>1, StackPops
  <2> QED BY <1>6, <1>7, <2>1, <2>2
<1>16. ListClosable(p, line, at1, T, F1, g, E1, eo, s, t, t2, T1, i)
  <2>1. F1 \in Seq(Frames) /\ g \in Frames /\ E1 \in Seq(Ghosts)
    BY <1>6 DEF BelowTop
  <2>2. AtInv(p, at1, Append(F1, g)) /\ NestInv(p, T1, eo.level + 1) /\ ListSoFar(T1, i, eo.level + 1)
    BY <1>4, <1>6, <1>12
  <2>3. i \in Nat /\ s <= eo.lineMax
    BY <1>4, <1>5, <1>8, <1>10
  <2> QED BY <1>4, <1>9, <1>10, <1>14, <1>15, <2>1, <2>2, <2>3 DEF ListClosable
<1>17. PICK l2, g2, ne : l2 = Behind(p, g, s) /\ g2 = Marked(p, g, s) /\ ne = (~g.hasEmpty)
  OBVIOUS
<1>18. Reading(p, l2, at1, ne, T3, F1, g2, E1, eo)
  <2>1. T3 = IF tt THEN Tightened(T2, eo.level, i) ELSE T2
    BY <1>8, <1>9
  <2>2. tt \in BOOLEAN /\ (tt <=> ~Loose(p, T1, i, Len(T1))) /\ T2 = Append(T1, t2)
    BY <1>9, <1>12
  <2>3. Reading(p, Behind(p, g, s), at1, ~g.hasEmpty, T3, F1, Marked(p, g, s), E1, eo)
    BY ONLY <1>16, <2>1, <2>2, ListClosed
  <2> QED BY ONLY <1>17, <2>3
<1>19. bl' = StateOf(p, l2, eo.lineMax, eo.blk, eo.dd, at1, ne, eo.level, T3, Append(F1, g2))
  <2>1. IsAt(bl.page, Restored(bl.at, f))
    BY <1>1, <1>8, <1>12, AtIsAt
  <2>2. Ready(bl, Append(F1, g), f) /\ GoodPage(bl.page) /\ F1 \in Seq(Frames) /\ g \in Frames
    BY <1>1, <1>4, <1>6 DEF BelowTop
  <2>3. LET U2 == Append(Append(bl.tokens, tokenOf("dd_close", bl.level - 1, start, start)),
                             tokenOf("dl_close", bl.level - 2, start, start))
            U3 == IF f.tight /\ bl.tight /\ ~f.prevEmptyEnd
                      THEN Tightened(U2, bl.level - 2, f.listTok) ELSE U2
        IN  bl' = StateOf(bl.page, Behind(bl.page, g, start), bl.lineMax, f.saved.blkIndent,
                     f.saved.ddIndent, Restored(bl.at, f), ~g.hasEmpty, bl.level - 2, U3,
                     Append(F1, Marked(bl.page, g, start)))
    BY ONLY <2>1, <2>2, EndListStep, EndList
  <2>4. e.level - 1 = lev /\ e.level - 2 = L /\ L = eo.level
    BY <1>4, <1>8, <1>13
  <2>5. bl.level - 1 = lev /\ bl.level - 2 = L
    BY <1>1, <2>4
  <2>6. T2 = Append(Append(bl.tokens, tokenOf("dd_close", bl.level - 1, start, start)),
                        tokenOf("dl_close", bl.level - 2, start, start))
    BY ONLY <1>1, <1>8, <1>9, <2>5
  <2>7. T3 = IF f.tight /\ bl.tight /\ ~f.prevEmptyEnd
             THEN Tightened(T2, bl.level - 2, f.listTok) ELSE T2
    BY ONLY <1>1, <1>8, <1>9, <2>5
  <2>8. bl' = StateOf(bl.page, Behind(bl.page, g, start), bl.lineMax, f.saved.blkIndent,
                     f.saved.ddIndent, Restored(bl.at, f), ~g.hasEmpty, bl.level - 2, T3,
                     Append(F1, Marked(bl.page, g, start)))
    BY ONLY <2>3, <2>6, <2>7
  <2> QED BY ONLY <1>1, <1>5, <1>8, <1>17, <2>4, <2>8
<1>20. bl' = ReadingState(p, l2, at1, ne, T3, Append(F1, g2), eo)
  BY <1>19 DEF ReadingState
<1> QED BY ONLY <1>18, <1>20 DEF IsReading

-----------------------------------------------------------------------------
(* The page ends behind its last line. *)
LEMMA EndPageKeeps ==
  ASSUME NEW p, NEW line, NEW at, NEW tight, NEW T, NEW F, NEW f, NEW E, NEW e,
         Reading(p, line, at, tight, T, F, f, E, e),
         bl = ReadingState(p, line, at, tight, T, Append(F, f), e), EndPage
  PROVE  IsRead(bl')
<1>1. /\ Ready(bl, F, f)
      /\ bl.page = p /\ bl.line = line /\ bl.lineMax = e.lineMax /\ bl.blkIndent = e.blk
      /\ bl.ddIndent = e.dd /\ bl.at = at /\ bl.tight = tight /\ bl.level = e.level /\ bl.tokens = T
  BY ReadyThere
<1>2. /\ ends /\ f \in PageFrames
      /\ bl' = StateOf(bl.page, start, bl.lineMax, bl.blkIndent, bl.ddIndent, bl.at, bl.tight,
                       bl.level, bl.tokens, <<>>)
  BY <1>1, EndPageStep
<1>3. /\ GoodPage(p) /\ line \in 1..e.lineMax /\ tight \in BOOLEAN /\ T \in Seq(BlockTokens)
      /\ Stack(p, line, T, Append(F, f), Append(E, e)) /\ e \in Ghosts /\ f \in Frames
      /\ F \in Seq(Frames) /\ E \in Seq(Ghosts) /\ AtInv(p, at, Append(F, f))
      /\ CoverInv(p, T, line) /\ NestInv(p, T, e.level)
  BY DEF Reading
<1>4. /\ TopOK(p, line, T, F, f, E, e) /\ Stack(p, line, T, F, E)
      /\ Len(E) = Len(F) /\ \A k \in DOMAIN E : Narrower(E[k], e)
  BY <1>3, StackPops
<1>5. F = <<>> /\ e = Base(p)
  BY <1>2, <1>3, <1>4, TopFacts
<1>6. e.lineMax = Len(p) + 1 /\ e.blk = 0 /\ e.dd = -1 /\ e.level = 0 /\ Len(p) \in Nat /\ DOMAIN p = 1..Len(p)
      /\ p \in Seq(PageLines)
  BY <1>3, <1>5, BaseFields DEF GoodPage
<1>7. PICK s : s = start
  OBVIOUS
<1>8. /\ IsStart(p, line, e.lineMax, s)
      /\ \/ s = e.lineMax
         \/ s \in DOMAIN p /\ s < e.lineMax /\ ~Blank(p, s) /\ at[s].indent < e.blk
  BY <1>1, <1>2, <1>7, EndsThere
<1>9. AtInv(p, at, <<>>)
  <2>1. f \notin ListFrames
    BY <1>2, FramesDiffer
  <2> QED BY <1>3, <1>5, <2>1, AtAside
<1>10. s = Len(p) + 1
  <2> SUFFICES ASSUME s \in DOMAIN p, at[s].indent < e.blk PROVE FALSE
    BY <1>6, <1>8
  <2>1. at[s].indent \in Nat
    BY <1>3, AtIndent
  <2> QED BY <1>6, <2>1
<1>11. CoverInv(p, T, Len(p) + 1)
  <2>1. line \in Nat /\ line <= s /\ s \in Nat /\ \A k \in line..(s - 1) : Blank(p, k)
    BY <1>3, <1>6, <1>8, <1>10 DEF IsStart
  <2>2. \A l \in DOMAIN p : line <= l /\ l < s => Blank(p, l)
    BY <1>6, <2>1
  <2>3. Grown(T, T)
    BY <1>3 DEF Grown
  <2>4. CoverInv(p, T, s)
    BY <1>3, <1>6, <2>1, <2>2, <2>3, CoverStays
  <2> QED BY <1>10, <2>4
<1>12. Read(p, at, T)
  BY <1>3, <1>6, <1>9, <1>11 DEF Read
<1>13. bl' = ReadingState(p, Len(p) + 1, at, tight, T, <<>>, Base(p))
  BY <1>1, <1>2, <1>5, <1>7, <1>10 DEF ReadingState
<1> QED BY <1>3, <1>12, <1>13 DEF IsRead

-----------------------------------------------------------------------------
(* A page whose reading begins. *)
LEMMA BlocksStart ==
  ASSUME BlocksInit
  PROVE  IsReading(bl)
<1>1. PICK p \in Pages : bl = PageOf(p)
  BY DEF BlocksInit
<1>2. GoodPage(p) /\ p \in Seq(PageLines) /\ Len(p) \in Nat /\ DOMAIN p = 1..Len(p)
  BY PagesAssumption DEF GoodPage
<1>3. PICK line, lm, at, tight, T, F, E, f, e, n :
        /\ line = 1 /\ lm = Len(p) + 1 /\ at = [l \in DOMAIN p |-> Origin(p, l)] /\ tight = FALSE
        /\ T = <<>> /\ F = <<>> /\ E = <<>> /\ f = frameFor("page", lm) /\ e = Base(p) /\ n = <<>>
  OBVIOUS
<1>4. e \in Ghosts /\ e.lineMax = lm /\ e.blk = 0 /\ e.dd = -1 /\ e.level = 0 /\ lm \in Nat /\ lm >= 1
  BY <1>2, <1>3, BaseFields
<1>5. f \in PageFrames /\ f \in Frames /\ f.endLine = lm /\ f \notin ListFrames
  <2>1. f \in PageFrames /\ f.endLine = lm
    BY <1>3, <1>4 DEF PageFrames, frameFor
  <2> QED BY <2>1, FramesDiffer DEF Frames
<1>6. T \in Seq(BlockTokens) /\ F \in Seq(Frames) /\ E \in Seq(Ghosts) /\ DOMAIN T = {} /\ DOMAIN F = {}
      /\ DOMAIN E = {} /\ Len(F) = 0 /\ Len(E) = 0
  BY <1>3
<1>7. PICK F1, E1 : F1 = Append(F, f) /\ E1 = Append(E, e)
  OBVIOUS
<1>8. /\ F1 \in Seq(Frames) /\ E1 \in Seq(Ghosts) /\ Len(F1) = 1 /\ Len(E1) = 1
      /\ F1[1] = f /\ E1[1] = e /\ DOMAIN F1 = {1} /\ DOMAIN E1 = {1} /\ 2..Len(F1) = {}
  BY <1>4, <1>5, <1>6, <1>7
<1>9. Stack(p, line, T, F1, E1)
  <2>1. F1[1] \in PageFrames /\ F1[1].endLine = Len(p) + 1 /\ E1[1] = Base(p)
    BY <1>3, <1>5, <1>8
  <2>2. \A i, j \in DOMAIN E1 : i < j => Narrower(E1[i], E1[j])
    BY <1>8
  <2>3. \A i \in DOMAIN E1 : EndsList(p, E1[i])
    BY <1>2, <1>3, <1>4, <1>8 DEF EndsList
  <2>4. InOrder(F1)
    BY <1>8 DEF InOrder
  <2> QED BY <1>8, <2>1, <2>2, <2>3, <2>4 DEF Stack
<1>10. AtInv(p, at, F1)
  <2>1. \A l : ~Enters(F1, l)
    BY <1>5, <1>8 DEF Enters
  <2>2. at \in Seq(Ats) /\ DOMAIN at = DOMAIN p /\ \A l \in DOMAIN p : at[l] = Origin(p, l)
    BY <1>2, <1>3, LineFields
  <2> QED BY <2>1, <2>2 DEF AtInv
<1>11. CoverInv(p, T, line)
  BY <1>2, <1>3, <1>6 DEF CoverInv
<1>12. NestInv(p, T, e.level)
  BY <1>4, <1>6 DEF NestInv
<1>13. AllSuspended(p, T, F, E) /\ OnTop(p, line, tight, T, f, e)
  BY <1>5, <1>6 DEF AllSuspended, OnTop
<1>14. Reading(p, line, at, tight, T, F, f, E, e)
  <2>1. line \in 1..e.lineMax
    BY <1>3, <1>4
  <2>2. tight \in BOOLEAN
    BY <1>3
  <2> QED BY <1>2, <1>4, <1>5, <1>6, <1>7, <1>9, <1>10, <1>11, <1>12, <1>13, <2>1, <2>2 DEF Reading
<1>15. bl = ReadingState(p, line, at, tight, T, Append(F, f), e)
  <2>1. at = [i \in DOMAIN p |-> [indent |-> p[i].indent, marks |-> p[i].marks]]
    BY <1>3 DEF Origin
  <2>2. <<f>> = Append(F, f)
    BY <1>3
  <2> QED BY <1>1, <1>3, <1>4, <2>1, <2>2 DEF PageOf, ReadingState, StateOf
<1> QED BY ONLY <1>14, <1>15 DEF IsReading

(* A rule goes on reading, or ends the page. *)
LEMMA BlocksStep ==
  ASSUME IsReading(bl), BlocksNext
  PROVE  IsReading(bl') \/ IsRead(bl')
<1>1. PICK p, line, at, tight, T, F, f, E, e :
        /\ bl = ReadingState(p, line, at, tight, T, Append(F, f), e)
        /\ Reading(p, line, at, tight, T, F, f, E, e)
  BY DEF IsReading
<1>2. CASE Code
  BY <1>1, <1>2, CodeKeeps
<1>3. CASE BlockParagraph
  BY <1>1, <1>3, ParagraphKeeps
<1>4. CASE Container
  BY <1>1, <1>4, ContainerKeeps
<1>5. CASE CloseContainer
  BY <1>1, <1>5, CloseContainerKeeps
<1>6. CASE Deflist
  BY <1>1, <1>6, DeflistKeeps
<1>7. CASE NextDefinition
  BY <1>1, <1>7, NextDefinitionKeeps
<1>8. CASE NextTerm
  BY <1>1, <1>8, NextTermKeeps
<1>9. CASE EndList
  BY <1>1, <1>9, EndListKeeps
<1>10. CASE EndPage
  BY <1>1, <1>10, EndPageKeeps
<1> QED BY <1>2, <1>3, <1>4, <1>5, <1>6, <1>7, <1>8, <1>9, <1>10 DEF BlocksNext

(* A page that has been read stays so. *)
LEMMA BlocksDone ==
  ASSUME IsRead(bl)
  PROVE  ~BlocksNext
<1>1. bl.frames = <<>>
  BY DEF IsRead, ReadingState, StateOf
<1> QED BY <1>1 DEF BlocksNext, Code, BlockParagraph, Container, CloseContainer, Deflist, NextDefinition,
                   NextTerm, EndList, EndPage, reads, itemEnds

-----------------------------------------------------------------------------
(* A page that is being read. *)
LEMMA ReadingRight ==
  ASSUME IsReading(bl)
  PROVE  BlocksTypeOK /\ StateRestored /\ bl.frames # <<>>
<1>1. PICK p, line, at, tight, T, F, f, E, e :
        /\ bl = ReadingState(p, line, at, tight, T, Append(F, f), e)
        /\ Reading(p, line, at, tight, T, F, f, E, e)
  BY DEF IsReading
<1>2. /\ Ready(bl, F, f)
      /\ bl.page = p /\ bl.line = line /\ bl.lineMax = e.lineMax /\ bl.blkIndent = e.blk
      /\ bl.ddIndent = e.dd /\ bl.at = at /\ bl.level = e.level
      /\ bl.frames = Append(F, f)
  BY <1>1, ReadyThere
<1>3. /\ GoodPage(p) /\ Stack(p, line, T, Append(F, f), Append(E, e)) /\ e \in Ghosts /\ f \in Frames
      /\ F \in Seq(Frames) /\ E \in Seq(Ghosts) /\ AtInv(p, at, Append(F, f))
  BY <1>1 DEF Reading
<1>4. PICK G : G = Append(F, f)
  OBVIOUS
<1>5. /\ G \in Seq(Frames) /\ G # <<>> /\ Len(G) = Len(F) + 1 /\ Len(F) \in Nat
  BY <1>3, <1>4
<1>6. BlocksTypeOK
  <2>1. bl \in BlockStates /\ bl.line \in 1..bl.lineMax /\ bl.lineMax \in 1..(Len(bl.page) + 1)
    BY <1>2 DEF Ready
  <2>2. bl.line \in 1..(Len(bl.page) + 1) /\ bl.lineMax \in 1..(Len(bl.page) + 1)
    BY <2>1 DEF BlockStates
  <2>3. bl.blkIndent \in Nat /\ bl.ddIndent \in Nat \cup {-1} /\ bl.level \in Nat
    BY <2>1 DEF BlockStates
  <2>4. \A i \in DOMAIN G : G[i].rule \in {"page", "container", "deflist"}
    <3> SUFFICES ASSUME NEW i \in DOMAIN G PROVE G[i].rule \in {"page", "container", "deflist"}
      OBVIOUS
    <3>1. G[i] \in Frames
      BY <1>5
    <3> QED BY <3>1, FramesDiffer DEF Frames
  <2> QED BY <1>2, <1>4, <2>2, <2>3, <2>4 DEF BlocksTypeOK
<1>7. StateRestored
  <2>1. ASSUME NEW l \in DOMAIN p, at[l] # Origin(p, l)
        PROVE  \E h \in ToSet(G) : h.rule = "deflist" /\ h.ddLine = l
    <3>1. Enters(G, l)
      BY <1>3, <1>4, <2>1 DEF AtInv
    <3>2. PICK i \in DOMAIN G : G[i] \in ListFrames /\ G[i].ddLine = l
      BY <3>1 DEF Enters
    <3>3. G[i] \in ToSet(G)
      BY DEF ToSet
    <3> QED BY <3>2, <3>3, FramesDiffer
  <2>2. ASSUME Len(G) <= 1
        PROVE  e.blk = 0 /\ e.dd = -1 /\ e.level = 0 /\ e.lineMax = Len(p) + 1
    <3>1. F = <<>>
      BY <1>3, <1>5, <2>2
    <3>2. TopOK(p, line, T, F, f, E, e)
      BY <1>3, StackPops
    <3>3. e = Base(p)
      BY <3>1, <3>2 DEF TopOK
    <3>4. p \in Seq(PageLines)
      BY <1>3 DEF GoodPage
    <3> QED BY <3>3, <3>4, BaseFields
  <2>3. \A l \in DOMAIN bl.page :
          bl.at[l] # [indent |-> bl.page[l].indent, marks |-> bl.page[l].marks] =>
            \E h \in ToSet(bl.frames) : h.rule = "deflist" /\ h.ddLine = l
    BY <1>2, <1>4, <2>1 DEF Origin
  <2>4. Len(bl.frames) <= 1 =>
          bl.blkIndent = 0 /\ bl.ddIndent = -1 /\ bl.level = 0 /\ bl.lineMax = Len(bl.page) + 1
    BY <1>2, <1>4, <2>2
  <2> QED BY <2>3, <2>4 DEF StateRestored
<1> QED BY <1>2, <1>4, <1>5, <1>6, <1>7

-----------------------------------------------------------------------------
(* The next token on the level of a block closes it. *)
LEMMA CloserMatched ==
  ASSUME NEW p, NEW T \in Seq(BlockTokens), bl.tokens = T, NEW i, NEW j, Matched(p, T, i, j)
  PROVE  closer(i) = j /\ onLevel(i) # {}
<1>1. /\ i \in DOMAIN T /\ j \in DOMAIN T /\ i < j /\ T[j].level = T[i].level
      /\ \A k \in (i + 1)..(j - 1) : T[k].level > T[i].level
  BY DEF Matched
<1>2. DOMAIN T = 1..Len(T) /\ Len(T) \in Nat /\ i \in Nat /\ j \in Nat
  BY <1>1
<1>3. j \in onLevel(i)
  BY <1>1, <1>2 DEF onLevel
<1>4. ASSUME NEW k \in onLevel(i) PROVE j <= k
  <2>1. k \in (i + 1)..Len(T) /\ T[k].level = T[i].level /\ k \in DOMAIN T
    BY <1>2, <1>4 DEF onLevel
  <2>2. T[k].level \in Nat /\ T[i].level \in Nat
    BY <1>1, <2>1, TokenFields
  <2> SUFFICES ASSUME k < j PROVE FALSE
    BY <1>2, <2>1
  <2>3. k \in (i + 1)..(j - 1)
    BY <1>2, <2>1
  <2> QED BY <1>1, <2>1, <2>2, <2>3
<1>5. \A c \in onLevel(i) : (\A k \in onLevel(i) : c <= k) => c = j
  <2> SUFFICES ASSUME NEW c \in onLevel(i), \A k \in onLevel(i) : c <= k PROVE c = j
    OBVIOUS
  <2>1. c <= j /\ j <= c
    BY <1>3, <1>4
  <2>2. c \in Nat
    BY <1>2 DEF onLevel
  <2> QED BY <1>2, <2>1, <2>2
<1>6. PICK S : S = onLevel(i)
  OBVIOUS
<1>7. (CHOOSE c \in S : \A k \in S : c <= k) = j
  BY <1>3, <1>4, <1>5, <1>6
<1> QED BY <1>3, <1>6, <1>7 DEF closer

(* What is known of a page that has been read. *)
PageRead(p, at, T) ==
  /\ bl.page = p /\ bl.at = at /\ bl.tokens = T /\ bl.frames = <<>>
  /\ Read(p, at, T) /\ IsAt(p, at)

(* It has no open blocks, and its lines are those of the page. *)
LEMMA PageIsRead ==
  ASSUME NEW p, NEW at, NEW T, PageRead(p, at, T)
  PROVE  /\ GoodPage(p) /\ p \in Seq(PageLines) /\ Len(p) \in Nat /\ DOMAIN p = 1..Len(p)
         /\ T \in Seq(BlockTokens) /\ bl.page = p /\ bl.at = at /\ bl.tokens = T
         /\ AtInv(p, at, <<>>) /\ CoverInv(p, T, Len(p) + 1)
         /\ \A i \in DOMAIN T : T[i].type \in Openers => \E j : Matched(p, T, i, j) /\ HiddenRight(p, T, i, j)
         /\ \A i \in DOMAIN T : FenceAlone(p, T[i])
         /\ \A l : isEmpty(bl, l) <=> Blank(p, l)
<1>1. /\ bl.page = p /\ bl.at = at /\ bl.tokens = T
      /\ GoodPage(p) /\ T \in Seq(BlockTokens) /\ AtInv(p, at, <<>>)
      /\ CoverInv(p, T, Len(p) + 1) /\ NestInv(p, T, 0) /\ IsAt(p, at)
  BY DEF PageRead, Read
<1>2. /\ \A i \in DOMAIN T : T[i].type \in Openers =>
           (\E k \in 1..0 : IsOpen(T, k, i)) \/ (\E j : Matched(p, T, i, j) /\ HiddenRight(p, T, i, j))
      /\ \A i \in DOMAIN T : FenceAlone(p, T[i])
  BY <1>1 DEF NestInv
<1>3. \A l : isEmpty(bl, l) <=> Blank(p, l)
  BY <1>1, EmptyIsBlank
<1>4. p \in Seq(PageLines) /\ Len(p) \in Nat /\ DOMAIN p = 1..Len(p)
  BY <1>1 DEF GoodPage
<1> QED BY <1>1, <1>2, <1>3, <1>4

-----------------------------------------------------------------------------
(* Every line that is not empty is of one token. *)
LEMMA LinesOnce ==
  ASSUME NEW p, NEW at, NEW T, PageRead(p, at, T)
  PROVE  EachLineOnce
<1>1. /\ Len(p) \in Nat /\ DOMAIN p = 1..Len(p) /\ bl.page = p /\ bl.tokens = T
      /\ CoverInv(p, T, Len(p) + 1) /\ \A l : isEmpty(bl, l) <=> Blank(p, l)
  BY PageIsRead
<1>2. ASSUME NEW l \in DOMAIN bl.page, ~isEmpty(bl, l)
      PROVE  Cardinality({i \in DOMAIN bl.tokens :
                LET t == bl.tokens[i]
                IN  \/ isLeaf(t) /\ l \in t.from..(t.to - 1)
                    \/ t.type = "container_open" /\ l = t.from
                    \/ t.type = "container_close" /\ l \in t.from..(t.to - 1)}) = 1
  <2>1. l \in DOMAIN p /\ ~Blank(p, l) /\ l < Len(p) + 1
    BY <1>1, <1>2
  <2>2. PICK i \in DOMAIN T : Covers(T[i], l) /\ \A j \in DOMAIN T : Covers(T[j], l) => j = i
    BY <1>1, <2>1 DEF CoverInv
  <2>3. {k \in DOMAIN T : Covers(T[k], l)} = {i}
    BY <2>2
  <2>4. Cardinality({k \in DOMAIN T : Covers(T[k], l)}) = 1
    BY <2>3, FS_Singleton
  <2> QED BY <1>1, <2>4 DEF Covers
<1> QED BY <1>2 DEF EachLineOnce

(* Blocks are closed in the order they were opened. *)
LEMMA PageNested ==
  ASSUME NEW p, NEW at, NEW T, PageRead(p, at, T)
  PROVE  BlocksNested
<1>1. /\ T \in Seq(BlockTokens) /\ bl.tokens = T
      /\ \A i \in DOMAIN T : T[i].type \in Openers => \E j : Matched(p, T, i, j) /\ HiddenRight(p, T, i, j)
  BY PageIsRead
<1>2. ASSUME NEW i \in DOMAIN T, T[i].type \in Openers
      PROVE  /\ onLevel(i) # {}
             /\ T[closer(i)].type \in DOMAIN Ending
             /\ Ending[T[closer(i)].type] = T[i].type
             /\ T[i].type = "container_open" =>
                  \A k \in (i + 1)..(closer(i) - 1) : isLeaf(T[k]) =>
                    T[k].from > T[i].from /\ T[k].to <= T[closer(i)].from
  <2>1. PICK j : Matched(p, T, i, j)
    BY <1>1, <1>2
  <2>2. closer(i) = j /\ onLevel(i) # {}
    BY <1>1, <2>1, CloserMatched
  <2> QED BY <2>1, <2>2 DEF Matched
<1> QED BY <1>1, <1>2 DEF BlocksNested

(* A container ends at the first fence that is long enough. *)
LEMMA PageFences ==
  ASSUME NEW p, NEW at, NEW T, PageRead(p, at, T)
  PROVE  FencesMatch
<1>1. /\ T \in Seq(BlockTokens) /\ bl.tokens = T /\ bl.page = p
      /\ \A i \in DOMAIN T : T[i].type \in Openers => \E j : Matched(p, T, i, j) /\ HiddenRight(p, T, i, j)
      /\ \A i \in DOMAIN T : FenceAlone(p, T[i])
  BY PageIsRead
<1>2. ASSUME NEW i \in DOMAIN T, T[i].type = "container_open"
      PROVE  /\ \A l \in (T[i].from + 1)..(T[i].to - 1) : Bare(p, l) => p[l].markers < p[T[i].from].markers
             /\ T[closer(i)].to > T[closer(i)].from => p[T[closer(i)].from].markers >= p[T[i].from].markers
  <2>1. T[i].type \in Openers
    BY <1>2, Kinds
  <2>2. PICK j : Matched(p, T, i, j)
    BY <1>1, <2>1
  <2>3. closer(i) = j
    BY <1>1, <2>2, CloserMatched
  <2>4. \A l \in (T[i].from + 1)..(T[i].to - 1) : Bare(p, l) => p[l].markers < p[T[i].from].markers
    BY <1>1, <1>2 DEF FenceAlone
  <2> QED BY <1>2, <2>2, <2>3, <2>4 DEF Matched
<1> QED BY <1>1, <1>2 DEF FencesMatch, Bare

(* The paragraphs of a list are shown if it is loose, and only then. *)
LEMMA PageTight ==
  ASSUME NEW p, NEW at, NEW T, PageRead(p, at, T)
  PROVE  TightTogether
<1>1. /\ T \in Seq(BlockTokens) /\ bl.tokens = T
      /\ \A i \in DOMAIN T : T[i].type \in Openers => \E j : Matched(p, T, i, j) /\ HiddenRight(p, T, i, j)
      /\ \A l : isEmpty(bl, l) <=> Blank(p, l)
  BY PageIsRead
<1> DEFINE on(i, d) == {k \in i..closer(i) : T[k].level = T[i].level + d}
           loose(i) == \/ \E k \in on(i, 2) : /\ Begins(T[k]) /\ Apart(p, T[k])
                                              /\ T[k - 1].type # "dd_open" /\ T[k - 1].type # "dt_open"
                       \/ \E k \in on(i, 1) : /\ T[k].type = "dd_open" /\ Apart(p, T[k])
                                              /\ T[k - 1].type = "dd_close"
<1>2. ASSUME NEW i \in DOMAIN T, T[i].type = "dl_open"
      PROVE  \A k \in on(i, 2) : T[k].type = "paragraph_open" => T[k].hidden = ~loose(i)
  <2>1. T[i].type \in Openers
    BY <1>2, Kinds
  <2>2. PICK j : Matched(p, T, i, j) /\ HiddenRight(p, T, i, j)
    BY <1>1, <2>1
  <2>3. closer(i) = j
    BY <1>1, <2>2, CloserMatched
  <2>4. Loose(p, T, i, j) <=> loose(i)
    BY <2>3 DEF Loose, Parted, Split
  <2>5. j \in DOMAIN T /\ i \in Nat /\ j \in Nat /\ DOMAIN T = 1..Len(T) /\ i >= 1 /\ Len(T) \in Nat
    BY <1>1, <2>2 DEF Matched
  <2> SUFFICES ASSUME NEW k \in on(i, 2), T[k].type = "paragraph_open"
               PROVE  T[k].hidden = ~loose(i)
    OBVIOUS
  <2>6. k \in i..j /\ T[k].level = T[i].level + 2
    BY <2>3
  <2>7. k \in DOMAIN T
    BY <2>5, <2>6
  <2>8. T[k].hidden \in BOOLEAN
    BY <1>1, <2>7, TokenFields
  <2>9. T[k].hidden <=> ~Loose(p, T, i, j)
    BY <1>2, <2>2, <2>6 DEF HiddenRight
  <2> QED BY <2>4, <2>8, <2>9
<1> QED BY <1>1, <1>2 DEF TightTogether, Begins, Apart

(* A page that has been read. *)
LEMMA ReadRight ==
  ASSUME IsRead(bl)
  PROVE  BlocksRead
<1>1. PICK p, at, tight, T :
        /\ bl = ReadingState(p, Len(p) + 1, at, tight, T, <<>>, Base(p))
        /\ Read(p, at, T) /\ tight \in BOOLEAN
  BY DEF IsRead
<1>2. /\ bl.page = p /\ bl.line = Len(p) + 1 /\ bl.lineMax = Base(p).lineMax /\ bl.blkIndent = Base(p).blk
      /\ bl.ddIndent = Base(p).dd /\ bl.at = at /\ bl.level = Base(p).level
      /\ bl.tokens = T /\ bl.frames = <<>>
  BY <1>1 DEF ReadingState, StateOf
<1>3. GoodPage(p) /\ AtInv(p, at, <<>>) /\ p \in Seq(PageLines) /\ Len(p) \in Nat
  BY <1>1 DEF Read, GoodPage
<1>4. Base(p).lineMax = Len(p) + 1 /\ Base(p).blk = 0 /\ Base(p).dd = -1 /\ Base(p).level = 0
  BY <1>3, BaseFields
<1>5. PageRead(p, at, T)
  <2>1. IsAt(p, at)
    BY <1>3, AtIsAt
  <2> QED BY <1>1, <1>2, <2>1 DEF PageRead
<1>6. BlocksTypeOK
  BY <1>2, <1>3, <1>4 DEF BlocksTypeOK
<1>7. StateRestored
  <2>1. \A l \in DOMAIN p : at[l] = Origin(p, l)
    BY <1>3 DEF AtInv, Enters
  <2> QED BY <1>2, <1>4, <2>1 DEF StateRestored, Origin
<1> QED BY <1>5, <1>6, <1>7, LinesOnce, PageNested, PageFences, PageTight DEF BlocksRead

(* BlocksInv is strong enough. *)
LEMMA InvRead ==
  ASSUME BlocksInv
  PROVE  BlocksRead
<1>1. CASE IsRead(bl)
  BY <1>1, ReadRight
<1>2. CASE IsReading(bl)
  <2>1. BlocksTypeOK /\ StateRestored /\ bl.frames # <<>>
    BY <1>2, ReadingRight
  <2> QED BY <2>1 DEF BlocksRead, EachLineOnce, BlocksNested, FencesMatch, TightTogether
<1> QED BY <1>1, <1>2 DEF BlocksInv

(* Whatever the page, every line is read once, blocks nest, fences match, tight is told  *)
(* from loose and the state is put back.                                          *)
THEOREM BlocksAlwaysRead == BlocksSpec => []BlocksRead
<1>1. BlocksInit => BlocksInv
  BY BlocksStart DEF BlocksInv
<1>2. BlocksInv /\ [BlocksNext]_blockVars => BlocksInv'
  <2> SUFFICES ASSUME BlocksInv, [BlocksNext]_blockVars PROVE BlocksInv'
    OBVIOUS
  <2>1. CASE UNCHANGED blockVars
    <3>1. bl' = bl
      BY <2>1 DEF blockVars
    <3> QED BY <3>1 DEF BlocksInv
  <2>2. CASE BlocksNext
    <3>1. IsReading(bl)
      BY <2>2, BlocksDone DEF BlocksInv
    <3>2. IsReading(bl') \/ IsRead(bl')
      BY <2>2, <3>1, BlocksStep
    <3> QED BY <3>2 DEF BlocksInv
  <2> QED BY <2>1, <2>2
<1>3. BlocksInv => BlocksRead
  BY InvRead
<1> QED BY <1>1, <1>2, <1>3, PTL DEF BlocksSpec
=============================================================================
