------------------------------ MODULE InlineRules ------------------------------
(***************************************************************************)
(* index.js, the inline rules of the markdown plugins: inserted and marked    *)
(* text, sub- and superscript, footnotes and their references.  A text is a    *)
(* sequence of characters, a state of the parser is a frame; "bs" is a         *)
(* backslash and "@" an autolink, <http://...>, of the parser itself, which is  *)
(* not part of the repository: what is needed of it is marked external.       *)
(***************************************************************************)
EXTENDS Integers, SequencesExt

Marks == {"+", "=", "~", "^", "[", "]", ":", ")", "/", "-", "'", "*", "bs"}
Blank == {" "}

(* A character, or a blank where the text has ended. *)
charAt(src, i) == IF i \in DOMAIN src THEN src[i] ELSE " "

(* Tokens: content is the text, or what the token stands for in the source. *)
Token(type, content) == [type |-> type, content |-> content, id |-> 0, subId |-> 0]
Text(content) == Token("text", content)

frameOf(src) == [src |-> src, pos |-> 1, tokens |-> <<>>, pending |-> <<>>,
                 delimiters |-> <<>>, note |-> 0, end |-> 0]

(* state.push, after the text that is pending. *)
flushed(f) == IF f.pending = <<>> THEN f.tokens ELSE Append(f.tokens, Text(f.pending))
push(f, tokens) == [f EXCEPT !.tokens = flushed(f) \o tokens, !.pending = <<>>]

-----------------------------------------------------------------------------
(* scanDelims: how long a run of the marker is, and on which side it may stand. *)
runLength(src, p) ==
  LET n == CHOOSE k \in 1..(Len(src) - p + 1) :
             /\ \A i \in p..(p + k - 1) : src[i] = src[p]
             /\ p + k > Len(src) \/ src[p + k] # src[p]
  IN  n

scanDelims(src, p) ==
  LET n == runLength(src, p)
      before == charAt(src, p - 1)
      after == charAt(src, p + n)
  IN  [length |-> n,
       open |-> after \notin Blank /\ (after \in Marks => before \in Blank \cup Marks),
       close |-> before \notin Blank /\ (before \in Marks => after \in Blank \cup Marks)]

(* tokenize of ins ("+") and mark ("="): the pairs of a run; an odd one comes first. *)
canTokenize(f) == f.src[f.pos] \in {"+", "="} /\ runLength(f.src, f.pos) >= 2

tokenize_far(f) ==
  LET m == f.src[f.pos]
      scanned == scanDelims(f.src, f.pos)
      lone == push(f, IF scanned.length % 2 = 1 THEN <<Text(<<m>>)>> ELSE <<>>)
      pairs == [i \in 1..(scanned.length \div 2) |-> Text(<<m, m>>)]
  IN  [push(lone, pairs) EXCEPT !.pos = @ + scanned.length,
         !.delimiters = @ \o [i \in DOMAIN pairs |->
            [marker |-> m, jump |-> 2 * i, token |-> Len(lone.tokens) + i,
             end |-> 0, open |-> scanned.open, close |-> scanned.close]]]

tokenize(f) ==
  LET m == f.src[f.pos]
      scanned == scanDelims(f.src, f.pos)
      lone == push(f, IF scanned.length % 2 = 1 THEN <<Text(<<m>>)>> ELSE <<>>)
      pairs == [i \in 1..(scanned.length \div 2) |-> Text(<<m, m>>)]
  IN  [push(lone, pairs) EXCEPT !.pos = @ + scanned.length,
         !.delimiters = @ \o [i \in DOMAIN pairs |->
            [marker |-> m, jump |-> 2 * (i - 1), token |-> Len(lone.tokens) + i,
             end |-> 0, open |-> scanned.open, close |-> scanned.close]]]

(* balance_pairs: each closing delimiter finds the nearest free opening one, not   *)
(* looking where the delimiters on the way say there is nothing to find.          *)
partner(d, i) ==
  LET look[j \in 0..(i - 1)] ==
        IF j = 0 THEN 0
        ELSE IF d[j].open /\ d[j].marker = d[i].marker /\ d[j].end = 0 THEN j
        ELSE look[IF j > d[j].jump THEN j - d[j].jump - 1 ELSE 0]
  IN  IF i > d[i].jump THEN look[i - d[i].jump - 1] ELSE 0

balance_pairs_flat(d) ==
  FoldLeft(LAMBDA b, i :
             LET j == partner(b, i)
             IN  IF ~b[i].close \/ j = 0 THEN b
                 ELSE [b EXCEPT ![i].open = FALSE, ![j].end = i],
           d, [i \in DOMAIN d |-> i])

balance_pairs(d) ==
  FoldLeft(LAMBDA b, i :
             LET j == partner(b, i)
             IN  IF ~b[i].close \/ j = 0 THEN b
                 ELSE [b EXCEPT ![i].jump = i - j, ![i].open = FALSE,
                                ![j].end = i, ![j].jump = 0],
           d, [i \in DOMAIN d |-> i])

(* postProcess: the pairs become tags; an odd marker that stands before a closing   *)
(* tag goes after it, and after all that follow it.                             *)
tags(m) == IF m = "+" THEN <<"ins_open", "ins_close">> ELSE <<"mark_open", "mark_close">>

tagged(f, m) ==
  LET pairs == {i \in DOMAIN f.delimiters : f.delimiters[i].marker = m /\ f.delimiters[i].end # 0}
      at(i) == f.delimiters[i].token
      opens == {at(i) : i \in pairs}
      closes == {at(f.delimiters[i].end) : i \in pairs}
  IN  [t \in DOMAIN f.tokens |->
         IF t \in opens THEN Token(tags(m)[1], <<m, m>>)
         ELSE IF t \in closes THEN Token(tags(m)[2], <<m, m>>)
         ELSE f.tokens[t]]

loneMarkers(f, m, tokens) ==
  LET ends == [i \in DOMAIN f.delimiters |->
                 IF f.delimiters[i].marker = m /\ f.delimiters[i].end # 0
                 THEN f.delimiters[f.delimiters[i].end].token - 1 ELSE 0]
  IN  SelectSeq(ends, LAMBDA t : t > 0 /\ tokens[t].type = "text" /\ tokens[t].content = <<m>>)

moved_one(tokens, m, i) ==
  IF i = Len(tokens) THEN tokens
  ELSE [tokens EXCEPT ![i] = tokens[i + 1], ![i + 1] = tokens[i]]

moved(tokens, m, i) ==
  LET closing(t) == tokens[t].type = tags(m)[2]
      j == CHOOSE k \in i..Len(tokens) :
             /\ \A t \in (i + 1)..k : closing(t)
             /\ k = Len(tokens) \/ ~closing(k + 1)
  IN  [tokens EXCEPT ![i] = tokens[j], ![j] = tokens[i]]

postProcess(f, m) ==
  LET tokens == tagged(f, m)
  IN  [f EXCEPT !.tokens =
         FoldLeft(LAMBDA ts, i : moved(ts, m, i), tokens, Reverse(loneMarkers(f, m, tokens)))]

(* text_collapse: texts side by side are one. *)
collapsed(tokens) ==
  FoldLeft(LAMBDA out, t :
             IF t.type = "text" /\ out # <<>> /\ Last(out).type = "text"
             THEN Append(Front(out), Text(Last(out).content \o t.content))
             ELSE Append(out, t),
           <<>>, tokens)

(* What parse makes of a frame that has been read to its end. *)
parsed(f) ==
  LET ready == [push(f, <<>>) EXCEPT !.delimiters = balance_pairs(@)]
  IN  collapsed(postProcess(postProcess(ready, "+"), "=").tokens)

-----------------------------------------------------------------------------
(* A reference as the code reads it: its end, 0 for none; there must be a label,   *)
(* without blanks, that a definition has.                                       *)
refEnd(src, p, labels) ==
  LET ends == {e \in (p + 3)..Len(src) : src[e] = "]"}
      e == CHOOSE k \in ends : \A j \in ends : k <= j
  IN  IF charAt(src, p) # "[" \/ charAt(src, p + 1) # "^" \/ charAt(src, p + 2) = "]" \/ ends = {}
        THEN 0
      ELSE IF (\E i \in (p + 2)..e : src[i] = " ") \/ SubSeq(src, p + 2, e - 1) \notin labels
        THEN 0
      ELSE e

(* skipToken: where the token ends, by the rules in their order that say so when   *)
(* asked silently; and parseLinkLabel, which skips from one to the next.          *)
RECURSIVE skipToken(_, _, _), labelEnd(_, _, _, _)

isNote(src, p) == charAt(src, p) = "^" /\ charAt(src, p + 1) = "[" /\ p + 2 <= Len(src)

skipToken(src, p, labels) ==
  IF src[p] = "bs" THEN p + (IF charAt(src, p + 1) \in Marks THEN 2 ELSE 1)
  ELSE IF isNote(src, p) /\ labelEnd(src, p + 2, 1, labels) # 0
    THEN labelEnd(src, p + 2, 1, labels) + 1
  ELSE IF refEnd(src, p, labels) # 0 THEN refEnd(src, p, labels) + 1
  ELSE p + 1

labelEnd(src, p, level, labels) ==
  IF p > Len(src) THEN 0
  ELSE IF src[p] = "]" /\ level = 1 THEN p
  ELSE LET next == skipToken(src, p, labels)
           change == IF src[p] = "]" THEN -1
                     ELSE IF src[p] = "[" /\ next = p + 1 THEN 1 ELSE 0
       IN  labelEnd(src, next, level + change, labels)

-----------------------------------------------------------------------------
(* subscript ("~") and superscript ("^"): the text up to the next such character,   *)
(* not looking into tokens; no blanks but escaped ones; nothing in it is parsed.   *)
escapedAt(s, i) ==
  LET free == {k \in 0..(i - 1) : k = 0 \/ s[k] # "bs"}
  IN  (i - 1 - (CHOOSE k \in free : \A j \in free : j <= k)) % 2 = 1

unescaped(s) ==
  LET drops == [i \in DOMAIN s |-> /\ s[i] = "bs" /\ ~escapedAt(s, i)
                                  /\ charAt(s, i + 1) \in Marks \cup Blank /\ i < Len(s)]
      kept == SelectSeq([i \in DOMAIN s |-> i], LAMBDA i : ~drops[i])
  IN  [k \in DOMAIN kept |-> s[kept[k]]]

RECURSIVE scriptEnd(_, _, _, _)
scriptEnd(src, m, p, labels) ==
  IF p > Len(src) THEN 0
  ELSE IF src[p] = m THEN p
  ELSE scriptEnd(src, m, skipToken(src, p, labels), labels)

canScript(f, labels) ==
  LET m == f.src[f.pos]
      e == scriptEnd(f.src, m, f.pos + 1, labels)
      content == SubSeq(f.src, f.pos + 1, e - 1)
  IN  /\ m \in {"~", "^"} /\ f.pos + 2 <= Len(f.src)
      /\ e > f.pos + 1
      /\ \A i \in DOMAIN content : content[i] \in Blank => escapedAt(content, i)

script_behind(f, labels) ==
  LET m == f.src[f.pos]
      e == scriptEnd(f.src, m, f.pos + 1, labels)
      kind == IF m = "~" THEN "sub" ELSE "sup"
  IN  [push(f, <<Token(kind \o "_open", <<m>>),
                 Text(unescaped(SubSeq(f.src, f.pos + 1, e - 1))),
                 Token(kind \o "_close", <<m>>)>>) EXCEPT !.pos = e]

script(f, labels) ==
  LET m == f.src[f.pos]
      e == scriptEnd(f.src, m, f.pos + 1, labels)
      kind == IF m = "~" THEN "sub" ELSE "sup"
  IN  [push(f, <<Token(kind \o "_open", <<m>>),
                 Text(unescaped(SubSeq(f.src, f.pos + 1, e - 1))),
                 Token(kind \o "_close", <<m>>)>>) EXCEPT !.pos = e + 1]

(* The parser's own: an escape, an autolink, and any other character. *)
character(f) ==
  LET c == f.src[f.pos]
      escape == c = "bs" /\ charAt(f.src, f.pos + 1) \in Marks
  IN  IF c = "@" THEN [push(f, <<Token("link_open", <<c>>), Text(<<"h", ":", "/", "/">>),
                                  Token("link_close", <<>>)>>) EXCEPT !.pos = @ + 1]
      ELSE [f EXCEPT !.pending = Append(@, IF escape THEN f.src[f.pos + 1] ELSE c),
                     !.pos = @ + (IF escape THEN 2 ELSE 1)]
=============================================================================
