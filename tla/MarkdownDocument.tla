--------------------------- MODULE MarkdownDocument ---------------------------
(***************************************************************************)
(* index.js, the markdown plugins at work on a text: definitions of notes and  *)
(* abbreviations are read from its lines, then the paragraphs are parsed, those  *)
(* of the notes too, then the notes are put at the end and abbreviations and     *)
(* emoji replaced.  A line is a block of its own, at the depth of the notes it    *)
(* belongs to: what else the parser's blocks can be, it does without here.        *)
(***************************************************************************)
EXTENDS TextRules

CONSTANT Documents    \* lines, and the emoji that are enabled
ASSUME DocumentsAssumption ==
  \A d \in Documents : DOMAIN d = {"lines", "enabled"}

VARIABLE md

documentVars == <<md>>

Block(type, content) ==
  [type |-> type, content |-> content, children |-> <<>>, id |-> 0, subId |-> 0]

DocumentOf(d) ==
  [phase |-> "block", doc |-> d, lines |-> d.lines, open |-> <<>>, tokens |-> <<>>,
   refs |-> <<>>, abbreviations |-> <<>>, list |-> <<>>, at |-> 1, frames |-> <<>>]

DocumentInit == md \in {DocumentOf(d) : d \in Documents}

Unknown == -1    \* a note without a number yet

-----------------------------------------------------------------------------
(* footnote_def, of a line: the label, none if it is not a definition. *)
footnote_def(text) ==
  LET closes == {i \in DOMAIN text : text[i] = "]"}
      end == CHOOSE i \in closes : \A j \in closes : i <= j
  IN  IF Len(text) < 4 \/ charAt(text, 1) # "[" \/ charAt(text, 2) # "^" \/ closes = {} THEN <<>>
      ELSE IF end = 3 \/ (\E i \in 3..end : text[i] = " ") \/ charAt(text, end + 1) # ":" THEN <<>>
      ELSE SubSeq(text, 3, end - 1)

trimmed(text) ==
  LET words == {i \in DOMAIN text : text[i] \notin Blank}
  IN  IF words = {} THEN <<>>
      ELSE SubSeq(text, CHOOSE i \in words : \A j \in words : i <= j, Len(text))

(* The next line, or what is left of one that defines a note. *)
line == md.lines[1]

CloseNote ==
  /\ md.phase = "block" /\ md.open # <<>>
  /\ md.lines # <<>> => line.depth < Len(md.open)
  /\ md' = [md EXCEPT !.open = Front(@), !.tokens = Append(@, Block("note_close", <<>>))]

here == md.phase = "block" /\ md.lines # <<>> /\ line.depth >= Len(md.open)

abbreviation ==
  LET defined == abbr_def(line.text, charAt(md.doc.lines[1].text, 1))
      closed == \E i \in 3..Len(line.text) : line.text[i] = "]" /\ ~escapedAt(line.text, i)
  IN  IF closed \/ Len(md.lines) = 1 \/ defined = NoAbbr THEN defined
      ELSE [defined EXCEPT !.label = Append(@, "nl")]

isAbbreviation == abbreviation.label # <<>> /\ abbreviation.title # <<>>

(* The first definition of a label counts. *)
DefineAbbreviation ==
  /\ here /\ isAbbreviation
  /\ md' = [md EXCEPT !.lines = Tail(@),
                      !.abbreviations = @ @@ (abbreviation.label :> abbreviation.title)]

DefineNote ==
  /\ here /\ ~isAbbreviation
  /\ LET label == footnote_def(line.text)
         rest == trimmed(SubSeq(line.text, Len(label) + 5, Len(line.text)))
     IN  /\ label # <<>>
         /\ md' = [md EXCEPT
              !.lines = (IF rest = <<>> THEN <<>>
                         ELSE <<[depth |-> line.depth + 1, text |-> rest]>>) \o Tail(@),
              !.open = Append(@, label),
              !.refs = (label :> Unknown) @@ @,
              !.tokens = Append(@, Block("note_open", label))]

Paragraph ==
  /\ here /\ ~isAbbreviation /\ footnote_def(line.text) = <<>>
  /\ md' = [md EXCEPT !.lines = Tail(@),
       !.tokens = @ \o <<Block("paragraph_open", <<>>), Block("inline", line.text),
                         Block("paragraph_close", <<>>)>>]

BlocksDone ==
  /\ md.phase = "block" /\ md.lines = <<>> /\ md.open = <<>>
  /\ md' = [md EXCEPT !.phase = "inline"]

-----------------------------------------------------------------------------
(* The paragraphs are parsed, in the order of the tokens; a note in a text is       *)
(* parsed, with its own frame, before what comes after it.                        *)
SkipToken ==
  /\ md.phase = "inline" /\ md.frames = <<>> /\ md.at <= Len(md.tokens)
  /\ md.tokens[md.at].type # "inline"
  /\ md' = [md EXCEPT !.at = @ + 1]

BeginInline ==
  /\ md.phase = "inline" /\ md.frames = <<>> /\ md.at <= Len(md.tokens)
  /\ md.tokens[md.at].type = "inline"
  /\ md' = [md EXCEPT !.frames = <<frameOf(md.tokens[md.at].content)>>]

frame == Last(md.frames)
labels == DOMAIN md.refs
reading == md.phase = "inline" /\ md.frames # <<>> /\ frame.pos <= Len(frame.src)
noteEnd == IF isNote(frame.src, frame.pos) THEN labelEnd(frame.src, frame.pos + 2, 1, labels) ELSE 0
becomes(f) == md' = [md EXCEPT !.frames = Append(Front(@), f)]

Tokenize == reading /\ canTokenize(frame) /\ becomes(tokenize(frame))

Script ==
  /\ reading /\ ~canTokenize(frame)
  /\ canScript(frame, labels)
  /\ becomes(script(frame, labels))

plain == ~canTokenize(frame) /\ ~canScript(frame, labels)

(* footnote_inline: the number is that of the list before the note itself is parsed. *)
footnote_inline ==
  /\ reading /\ plain /\ noteEnd # 0
  /\ LET asking == [frame EXCEPT !.note = Len(md.list) + 1, !.end = noteEnd]
     IN  md' = [md EXCEPT !.frames = Front(@) \o
                  <<asking, frameOf(SubSeq(frame.src, frame.pos + 2, noteEnd - 1))>>]

(* footnote_ref: the first reference numbers the note, each counts. *)
footnote_ref ==
  /\ reading /\ plain /\ noteEnd = 0 /\ refEnd(frame.src, frame.pos, labels) # 0
  /\ LET end == refEnd(frame.src, frame.pos, labels)
         label == SubSeq(frame.src, frame.pos + 2, end - 1)
         new == md.refs[label] = Unknown
         id == IF new THEN Len(md.list) + 1 ELSE md.refs[label]
         listed == IF new THEN Append(md.list, [label |-> label, count |-> 0, tokens |-> <<>>,
                                                own |-> FALSE])
                   ELSE md.list
     IN  md' = [md EXCEPT
           !.refs[label] = id,
           !.list = [listed EXCEPT ![id].count = IF listed[id].own THEN 0 ELSE @ + 1],
           !.frames = Append(Front(@),
             [push(frame, <<[Token("footnote_ref", SubSeq(frame.src, frame.pos, end))
                               EXCEPT !.id = id, !.subId = listed[id].count]>>)
                EXCEPT !.pos = end + 1])]

Character ==
  /\ reading /\ plain /\ noteEnd = 0
  /\ refEnd(frame.src, frame.pos, labels) = 0
  /\ becomes(character(frame))

(* The note in a text: its tokens go into the list at its number. *)
EndNote ==
  /\ md.phase = "inline" /\ Len(md.frames) > 1 /\ frame.pos > Len(frame.src)
  /\ LET outer == md.frames[Len(md.frames) - 1]
         entry == [label |-> <<>>, count |-> 0, tokens |-> parsed(frame), own |-> TRUE]
         ref == [Token("footnote_ref", SubSeq(outer.src, outer.pos, outer.end))
                   EXCEPT !.id = outer.note]
     IN  md' = [md EXCEPT
           !.list = [i \in 1..(IF outer.note > Len(@) THEN outer.note ELSE Len(@)) |->
                       IF i = outer.note THEN entry ELSE @[i]],
           !.frames = Append(Front(Front(@)),
                             [push(outer, <<ref>>) EXCEPT !.pos = outer.end + 1])]

EndInline ==
  /\ md.phase = "inline" /\ Len(md.frames) = 1 /\ frame.pos > Len(frame.src)
  /\ md' = [md EXCEPT !.tokens[md.at].children = parsed(frame), !.at = @ + 1, !.frames = <<>>]

-----------------------------------------------------------------------------
(* footnote_tail takes the notes' tokens out of the text: what stands between the    *)
(* marks of a note is that of the label that was opened last.                     *)
Sorted_filled(tokens) ==
  FoldLeft(LAMBDA s, t :
             CASE t.type = "note_open" ->
                    [s EXCEPT !.inside = TRUE, !.current = <<>>, !.label = t.content]
               [] t.type = "note_close" ->
                    [s EXCEPT !.inside = FALSE,
                              !.ref = IF s.current = <<>> THEN @ ELSE (s.label :> s.current) @@ @]
               [] OTHER -> IF s.inside THEN [s EXCEPT !.current = Append(@, t)]
                           ELSE [s EXCEPT !.text = Append(@, t)],
           [inside |-> FALSE, current |-> <<>>, label |-> <<>>, text |-> <<>>, ref |-> <<>>],
           tokens)

Sorted_first(tokens) ==
  FoldLeft(LAMBDA s, t :
             CASE t.type = "note_open" ->
                    [s EXCEPT !.inside = TRUE, !.current = <<>>, !.label = t.content]
               [] t.type = "note_close" ->
                    [s EXCEPT !.inside = FALSE, !.ref = @ @@ (s.label :> s.current)]
               [] OTHER -> IF s.inside THEN [s EXCEPT !.current = Append(@, t)]
                           ELSE [s EXCEPT !.text = Append(@, t)],
           [inside |-> FALSE, current |-> <<>>, label |-> <<>>, text |-> <<>>, ref |-> <<>>],
           tokens)

Sorted(tokens) ==
  FoldLeft(LAMBDA s, t :
             CASE t.type = "note_open" ->
                    [s EXCEPT !.inside = TRUE, !.current = <<>>, !.label = t.content]
               [] t.type = "note_close" ->
                    [s EXCEPT !.inside = FALSE, !.ref = (s.label :> s.current) @@ @]
               [] OTHER -> IF s.inside THEN [s EXCEPT !.current = Append(@, t)]
                           ELSE [s EXCEPT !.text = Append(@, t)],
           [inside |-> FALSE, current |-> <<>>, label |-> <<>>, text |-> <<>>, ref |-> <<>>],
           tokens)

NoTokens == <<Block("undefined", <<>>)>>

(* The tokens of a note, its anchors within its last paragraph. *)
noteTokens(entry, i, ref) ==
  LET inner == IF entry.own
                 THEN <<Block("paragraph_open", <<>>),
                        [Block("inline", <<>>) EXCEPT !.children = entry.tokens],
                        Block("paragraph_close", <<>>)>>
               ELSE IF entry.label \in DOMAIN ref THEN ref[entry.label] ELSE NoTokens
      anchors == [j \in 1..(IF entry.count > 0 THEN entry.count ELSE 1) |->
                    [Block("footnote_anchor", <<>>) EXCEPT !.id = i, !.subId = j - 1]]
      opened == <<[Block("footnote_open", entry.label) EXCEPT !.id = i]>>
  IN  IF inner # <<>> /\ Last(inner).type = "paragraph_close"
      THEN opened \o Front(inner) \o anchors
             \o <<Last(inner), Block("footnote_close", <<>>)>>
      ELSE opened \o inner \o anchors \o <<Block("footnote_close", <<>>)>>

footnote_tail_once(tokens, list) ==
  LET s == Sorted(tokens)
  IN  s.text \o <<Block("footnote_block_open", <<>>)>>
        \o FlattenSeq([i \in DOMAIN list |-> noteTokens([list[i] EXCEPT !.count = 1], i, s.ref)])
        \o <<Block("footnote_block_close", <<>>)>>

footnote_tail(tokens, list) ==
  LET s == Sorted(tokens)
  IN  IF list = <<>> THEN s.text
      ELSE s.text \o <<Block("footnote_block_open", <<>>)>>
             \o FlattenSeq([i \in DOMAIN list |-> noteTokens(list[i], i, s.ref)])
             \o <<Block("footnote_block_close", <<>>)>>

FootnoteTail ==
  /\ md.phase = "inline" /\ md.frames = <<>> /\ md.at > Len(md.tokens)
  /\ LET tokens == footnote_tail(md.tokens, md.list)
         failed == \E t \in ToSet(tokens) : t.type = "undefined"
     IN  md' = [md EXCEPT !.tokens = IF failed THEN @ ELSE tokens,
                          !.phase = IF failed THEN "failed" ELSE "abbr"]

Children(f(_)) ==
  [i \in DOMAIN md.tokens |-> [md.tokens[i] EXCEPT !.children = f(@)]]

AbbrReplace ==
  /\ md.phase = "abbr"
  /\ md' = [md EXCEPT !.phase = "emoji",
              !.tokens = Children(LAMBDA c : abbr_replace(c, md.abbreviations))]

Options == [e \in {d.enabled : d \in Documents} |-> normalize_opts(e)]

EmojiReplace ==
  /\ md.phase = "emoji"
  /\ md' = [md EXCEPT !.phase = "done",
              !.tokens = Children(LAMBDA c : emoji_replace(c, Options[md.doc.enabled]))]

DocumentNext ==
  \/ CloseNote \/ DefineAbbreviation \/ DefineNote \/ Paragraph \/ BlocksDone
  \/ SkipToken \/ BeginInline \/ Tokenize \/ Script \/ footnote_inline \/ footnote_ref
  \/ Character \/ EndNote \/ EndInline \/ FootnoteTail \/ AbbrReplace \/ EmojiReplace

-----------------------------------------------------------------------------
Phases == {"block", "inline", "abbr", "emoji", "done", "failed"}

DocumentTypeOK ==
  /\ md.phase \in Phases
  /\ md.phase \in {"block", "inline"} => md.at \in 1..(Len(md.tokens) + 1)
  /\ \A l \in DOMAIN md.refs : md.refs[l] \in {Unknown} \cup DOMAIN md.list
  /\ \A i \in DOMAIN md.list : md.list[i].count \in Nat
  /\ \A i \in DOMAIN md.frames : md.frames[i].pos \in 1..(Len(md.frames[i].src) + 1)

ended == md.phase \in {"abbr", "emoji", "done"}

(* What the tokens stand for in the source, backslashes left out. *)
SourceOf(tokens) ==
  LET shown(i) == i = 1 \/ tokens[i - 1].type # "link_open"
      parts == [i \in DOMAIN tokens |->
                  IF tokens[i].type = "abbr_open" \/ ~shown(i) THEN <<>> ELSE tokens[i].content]
  IN  FlattenSeq(parts)
Bare(src) == SelectSeq(src, LAMBDA c : c # "bs")

Parsed == {md.tokens[i] : i \in {k \in DOMAIN md.tokens :
             md.tokens[k].type = "inline" /\ (ended \/ k < md.at)}}

(* No character of a paragraph is lost, doubled or out of its order, whatever it is     *)
(* read as: put back in place of the tags, the markers make the source again, also     *)
(* where an odd marker has moved behind closing tags and after abbreviations and        *)
(* emoji are in.                                                                   *)
MarkupConserved ==
  \A t \in Parsed : t.content # <<>> => Bare(SourceOf(t.children)) = Bare(t.content)

Opening == {"ins_open", "mark_open", "sub_open", "sup_open", "link_open", "abbr_open"}
Closes == [ins_close |-> "ins_open", mark_close |-> "mark_open", sub_close |-> "sub_open",
           sup_close |-> "sup_open", link_close |-> "link_open", abbr_close |-> "abbr_open"]

(* Where there are both markers and one stands in a run of two pairs, the second pair      *)
(* claims to be twice as far from the run's start as it is: a search that starts at it,     *)
(* or comes by, misses what it should have seen, and tags may overlap.                  *)
Confusing(src) ==
  /\ {"+", "="} \subseteq ToSet(src)
  /\ \E p \in 1..(Len(src) - 3) : src[p] \in {"+", "="} /\ \A i \in p..(p + 3) : src[i] = src[p]

(* The tags of a paragraph are nested, whatever pairs of markers overlap in its source,     *)
(* but for the confusing ones.                                                      *)
TagsNested ==
  \A t \in Parsed : ~Confusing(t.content) =>
    FoldLeft(LAMBDA open, x :
               CASE x.type \in Opening -> Append(open, x.type)
                 [] x.type \in DOMAIN Closes ->
                      IF open # <<>> /\ Last(open) = Closes[x.type] THEN Front(open)
                      ELSE <<"wrong">>
                 [] OTHER -> open,
             <<>>, t.children) = <<>>

(* An odd marker of a closing run stands outside of what the run closes; one that was   *)
(* escaped is taken for one, so texts with escapes are excepted.                     *)
endsOdd(text, m) ==
  LET n == CHOOSE k \in 0..Len(text) :
             /\ \A i \in (Len(text) - k + 1)..Len(text) : text[i] = m
             /\ k = Len(text) \/ text[Len(text) - k] # m
  IN  n % 2 = 1

LoneMarkerOutside ==
  \A t \in Parsed : "bs" \notin ToSet(t.content) =>
    \A i \in 2..Len(t.children) :
      t.children[i - 1].type = "text" =>
        /\ t.children[i].type = "ins_close" => ~endsOdd(t.children[i - 1].content, "+")
        /\ t.children[i].type = "mark_close" => ~endsOdd(t.children[i - 1].content, "=")

(* Looking for a partner skips nothing it should have found: between two that are a     *)
(* pair no opening marker of the kind is left over, nor before a closing one that is     *)
(* left over, but those of its own run and those that another pair encloses; again but   *)
(* for the confusing.                                                              *)
NearestPartner ==
  md.frames # <<>> /\ frame.pos > Len(frame.src) /\ ~Confusing(frame.src) =>
    LET d == balance_pairs(frame.delimiters)
        pair(i, j) == d[i].end = j
        alone(i) == d[i].end = 0 /\ ~\E k \in DOMAIN d : pair(k, i)
        sameRun(k, i) == /\ d[i].token - d[k].token = i - k
                         /\ \A j \in k..i : d[j].marker = d[k].marker
        hidden(k, i) == \E p \in 1..(k - 1) : d[p].end > k /\ d[p].end < i
    IN  \A i \in DOMAIN d :
          d[i].close =>
            \A k \in 1..(i - 1) :
              (/\ alone(k) /\ d[k].open /\ d[k].marker = d[i].marker
               /\ ~sameRun(k, i)
               /\ alone(i) \/ \E j \in 1..(k - 1) : pair(j, i)) => hidden(k, i)

restOf(text) == trimmed(SubSeq(text, Len(footnote_def(text)) + 5, Len(text)))
definitions(label) ==
  {i \in DOMAIN md.doc.lines : footnote_def(md.doc.lines[i].text) = label}

(* A definition within a definition, and a note or a reference within a note. *)
NestedDefinition ==
  \E l \in ToSet(md.doc.lines) :
    /\ footnote_def(l.text) # <<>>
    /\ l.depth > 0 \/ footnote_def(restOf(l.text)) # <<>>
NestedNote == \E e \in ToSet(md.list) : \E t \in ToSet(e.tokens) : t.type = "footnote_ref"

references ==
  UNION {ToSet(SelectSeq(t.children, LAMBDA c : c.type = "footnote_ref")) : t \in Parsed}
countOf(id, subId) ==
  LET n(t) == Len(SelectSeq(t.children,
                LAMBDA c : c.type = "footnote_ref" /\ c.id = id /\ c.subId = subId))
  IN  FoldLeft(LAMBDA sum, t : sum + n(t), 0, md.tokens)
anchorsOf(id, subId) ==
  Len(SelectSeq(md.tokens,
        LAMBDA t : t.type = "footnote_anchor" /\ t.id = id /\ t.subId = subId))

(* Each reference leads to the note it names, the one that was defined last, or to the   *)
(* one that stands there; excepted are texts with a note in a note: the outer one takes   *)
(* the number of the inner one.                                                   *)
LeadsToItsNote ==
  ended /\ ~NestedNote /\ ~NestedDefinition =>
    \A r \in references :
      LET e == md.list[r.id]
          own == SubSeq(r.content, 3, Len(r.content) - 1)
          opens == CHOOSE i \in DOMAIN md.tokens :
                     md.tokens[i].type = "footnote_open" /\ md.tokens[i].id = r.id
          last == CHOOSE i \in definitions(own) : \A j \in definitions(own) : j <= i
      IN  IF r.content[1] = "^" THEN e.own /\ Bare(SourceOf(e.tokens)) = Bare(own)
          ELSE /\ md.tokens[opens].content = own
               /\ restOf(md.doc.lines[last].text) # <<>>
                    => md.tokens[opens + 2].content = restOf(md.doc.lines[last].text)

(* There is one way back from a note for each reference to it, and it goes to that one;   *)
(* only references in notes that are not shown have a way back and are not there.       *)
WaysBack ==
  ended /\ ~NestedNote =>
    /\ \A r \in references : countOf(r.id, r.subId) = 1 /\ anchorsOf(r.id, r.subId) = 1
    /\ \A t \in ToSet(md.tokens) :
         t.type = "footnote_anchor" /\ countOf(t.id, t.subId) = 0 =>
           \E l \in ToSet(md.doc.lines) :
             footnote_def(l.text) # <<>> /\ "^" \in ToSet(restOf(l.text))

(* Only a definition within a definition makes the rendering fail. *)
FailsOnlyNested == md.phase = "failed" => NestedDefinition

(* After the replacement no label is left that stands by itself in its text, and did   *)
(* before: at the ends of the text or between separators, one of which may be that of    *)
(* the label before.                                                              *)
AllAbbreviated ==
  md.phase = "emoji" =>
    \A t \in Parsed : \A i \in DOMAIN t.children :
      LET text == t.children[i].content
          prior == IF i = 1 THEN "none" ELSE t.children[i - 1].type
          next == IF i = Len(t.children) THEN "none" ELSE t.children[i + 1].type
          bounded(p, l) ==
            /\ IF p = 1 THEN prior \notin {"abbr_open", "abbr_close"} ELSE isSeparator(text[p - 1])
            /\ IF p + Len(l) > Len(text) THEN next # "abbr_open"
               ELSE isSeparator(text[p + Len(l)])
      IN  t.children[i].type = "text" /\ prior # "abbr_open" =>
            ~\E l \in DOMAIN md.abbreviations : \E p \in DOMAIN text :
              startsAt(text, p, l) /\ bounded(p, l)

(* No emoji has a longer one beginning at its place, and a shortcut is none among       *)
(* letters and such signs; no name is left, though a shortcut begins like it; and links      *)
(* stay as they are.                                                               *)
EmojiWhole ==
  md.phase = "done" =>
    \A t \in Parsed : \A i \in DOMAIN t.children :
      LET e == t.children[i]
          next == IF i = Len(t.children) \/ t.children[i + 1].type # "text" THEN <<>>
                  ELSE t.children[i + 1].content
          prior == IF i = 1 \/ t.children[i - 1].type # "text" THEN <<>>
                   ELSE t.children[i - 1].content
          opts == Options[md.doc.enabled]
          linked == i > 1 /\ t.children[i - 1].type = "link_open"
      IN  /\ e.type = "text" /\ ~linked =>
               ~\E n \in opts.defs : \E p \in DOMAIN e.content : startsAt(e.content, p, named(n))
          /\ e.type = "emoji" =>
            /\ ~\E k \in DOMAIN opts.patterns :
                 LET w == opts.patterns[k]
                 IN  Len(w) > Len(e.content) /\ startsAt(e.content \o next, 1, w)
            /\ e.content \in DOMAIN opts.shortcuts =>
                 /\ prior # <<>> => ZPCc(Last(prior))
                 /\ next # <<>> => ZPCc(Head(next))
            /\ prior # <<>> => t.children[IF i > 2 THEN i - 2 ELSE 1].type # "link_open"
=============================================================================
