------------------------------- MODULE TextRules -------------------------------
(***************************************************************************)
(* index.js, the rules of the markdown plugins that replace what they find in  *)
(* the texts of a paragraph: abbreviations and emoji.  Both go through the      *)
(* tokens from the last to the first, to keep positions when tokens are added.  *)
(***************************************************************************)
EXTENDS InlineRules

startsAt(text, p, word) ==
  p + Len(word) <= Len(text) + 1 /\ SubSeq(text, p, p + Len(word) - 1) = word

isSeparator(c) == c \in Marks \cup Blank

(* Tokens with those of one place replaced by others. *)
arrayReplaceAt(tokens, i, new) == SubSeq(tokens, 1, i - 1) \o new \o SubSeq(tokens, i + 1, Len(tokens))

(* f for each token that is a text, from the last to the first. *)
replaced(tokens, f(_, _)) ==
  FoldLeft(LAMBDA ts, i : IF ts[i].type = "text" THEN arrayReplaceAt(ts, i, f(ts, i)) ELSE ts,
           tokens, Reverse([i \in DOMAIN tokens |-> i]))

textIf(content) == IF content = <<>> THEN <<>> ELSE <<Text(content)>>

-----------------------------------------------------------------------------
(* abbr_def: the label and the title of a line; none, or of all up to the end of  *)
(* the text where the label is not closed and the text begins with a colon.       *)
NoAbbr == [label |-> <<>>, title |-> <<>>]

abbr_def(line, first) ==
  LET closes == {i \in 3..Len(line) : line[i] = "]" /\ ~escapedAt(line, i)}
      end == CHOOSE i \in closes : \A j \in closes : i <= j
      nested == {i \in 3..Len(line) : line[i] = "[" /\ ~escapedAt(line, i)}
  IN  IF Len(line) < 3 \/ charAt(line, 1) # "*" \/ charAt(line, 2) # "[" THEN NoAbbr
      ELSE IF closes = {}
        THEN IF nested = {} /\ first = ":"
             THEN [label |-> unescaped(SubSeq(line, 3, Len(line))), title |-> line]
             ELSE NoAbbr
      ELSE IF (\E i \in nested : i < end) \/ charAt(line, end + 1) # ":" THEN NoAbbr
      ELSE [label |-> unescaped(SubSeq(line, 3, end - 1)),
            title |-> SelectSeq(SubSeq(line, end + 2, Len(line)), LAMBDA c : c \notin Blank)]

(* abbr_replace, of one text: each label between separators, or the text's ends;   *)
(* what separates two may do so for both.                                       *)
labelsAt(text, p, labels) ==
  {l \in labels : /\ startsAt(text, p, l)
                  /\ p + Len(l) > Len(text) \/ isSeparator(text[p + Len(l)])}

labelStarts(text, from, labels) ==
  {p \in from..Len(text) : /\ p = 1 \/ (p > from /\ isSeparator(text[p - 1]))
                           /\ labelsAt(text, p, labels) # {}}

RECURSIVE abbreviated_past(_, _, _), abbreviated(_, _, _)
abbreviated_past(text, from, titles) ==
  LET labels == DOMAIN titles
      starts == labelStarts(text, from, labels)
      p == CHOOSE s \in starts : \A t \in starts : s <= t
      fits == labelsAt(text, p, labels)
      label == CHOOSE l \in fits : \A k \in fits : Len(k) <= Len(l)
      end == p + Len(label)
  IN  IF starts = {} THEN textIf(SubSeq(text, from, Len(text)))
      ELSE textIf(SubSeq(text, from, p - 1))
             \o <<Token("abbr_open", titles[label]), Text(label), Token("abbr_close", <<>>)>>
             \o (IF end > Len(text) THEN <<>> ELSE <<Text(<<text[end]>>)>>
                 \o abbreviated_past(text, end + 1, titles))

abbreviated(text, from, titles) ==
  LET labels == DOMAIN titles
      starts == labelStarts(text, from, labels)
      p == CHOOSE s \in starts : \A t \in starts : s <= t
      fits == labelsAt(text, p, labels)
      label == CHOOSE l \in fits : \A k \in fits : Len(k) <= Len(l)
      end == p + Len(label)
  IN  IF starts = {} THEN textIf(SubSeq(text, from, Len(text)))
      ELSE textIf(SubSeq(text, from, p - 1))
             \o <<Token("abbr_open", titles[label]), Text(label), Token("abbr_close", <<>>)>>
             \o abbreviated(text, end, titles)

abbr_replace(tokens, titles) ==
  replaced(tokens, LAMBDA ts, i : abbreviated(ts[i].content, 1, titles))

-----------------------------------------------------------------------------
(* The emoji that are checked with, of two hundred, and their shortcuts, as they   *)
(* come in the table; in the order of their codes, the characters.               *)
defs == {<<"joy">>, <<"s", "mile">>, <<"smiley">>, <<"unamused">>}
emojies_shortcuts ==
  <<<<<<"joy">>, {<<":", "'", ")">>, <<":", "'", "D">>}>>,
    <<<<"s", "mile">>, {<<":", "D">>, <<":", "-", "D">>}>>,
    <<<<"smiley">>, {<<":", ")">>, <<":", "-", ")">>}>>,
    <<<<"unamused">>, {<<":", "s">>, <<":", "/">>}>>>>
Order == <<" ", "'", ")", "*", "+", "-", "/", ":", "=", "D", "[", "bs", "]", "^",
           "a", "joy", "mile", "s", "smiley", "unamused", "~">>

comesBefore(a, b) ==
  LET place(c) == CHOOSE i \in DOMAIN Order : Order[i] = c
      same == {k \in 0..Len(a) : k <= Len(b) /\ SubSeq(a, 1, k) = SubSeq(b, 1, k)}
      k == CHOOSE n \in same : \A m \in same : m <= n
  IN  k < Len(b) /\ (k = Len(a) \/ place(a[k + 1]) < place(b[k + 1]))

(* normalize_opts: the emoji that are enabled, all if none is named; their         *)
(* shortcuts; and the patterns, in reverse order, a longer before its beginning.   *)
named(e) == <<":">> \o e \o <<":">>

inOrder(S) ==
  [k \in 1..Cardinality(S) |-> CHOOSE w \in S : Cardinality({v \in S : comesBefore(v, w)}) = k - 1]

normalized(enabled) ==
  LET emojies == IF enabled = {} THEN defs ELSE defs \cap enabled
      known == SelectSeq(emojies_shortcuts, LAMBDA s : s[1] \in emojies)
      short == FoldLeft(LAMBDA acc, s : [a \in s[2] |-> s[1]] @@ acc, <<>>, known)
  IN  [defs |-> emojies, shortcuts |-> short,
       patterns |-> inOrder({named(e) : e \in emojies} \cup DOMAIN short)]

normalize_forward(enabled) == normalized(enabled)
normalize_opts(enabled) == [normalized(enabled) EXCEPT !.patterns = Reverse(@)]

(* splitTextToken: a shortcut among letters, or signs that are no punctuation, is      *)
(* none; what it took is gone for the search, so the next match is behind it.        *)
ZPCc(c) == c \in (Marks \ {"+", "=", "~", "^"}) \cup Blank

valid(text, p, match, opts) ==
  match \in DOMAIN opts.shortcuts =>
    /\ p > 1 => ZPCc(text[p - 1])
    /\ p + Len(match) <= Len(text) => ZPCc(text[p + Len(match)])

RECURSIVE splitTextToken(_, _, _, _)
splitTextToken(text, last, from, opts) ==
  LET fits(p) == {k \in DOMAIN opts.patterns : startsAt(text, p, opts.patterns[k])}
      places == {p \in from..Len(text) : fits(p) # {}}
      p == CHOOSE s \in places : \A t \in places : s <= t
      match == opts.patterns[CHOOSE k \in fits(p) : \A j \in fits(p) : k <= j]
      end == p + Len(match)
  IN  IF places = {} THEN textIf(SubSeq(text, last, Len(text)))
      ELSE IF valid(text, p, match, opts)
        THEN textIf(SubSeq(text, last, p - 1)) \o <<Token("emoji", match)>>
               \o splitTextToken(text, end, end, opts)
      ELSE splitTextToken(text, last, end, opts)

(* emoji_replace: not in links that are what they point to. *)
autolinkLevel(tokens, i) ==
  Cardinality({j \in (i + 1)..Len(tokens) : tokens[j].type = "link_close"})
    - Cardinality({j \in (i + 1)..Len(tokens) : tokens[j].type = "link_open"})

emoji_replace(tokens, opts) ==
  replaced(tokens, LAMBDA ts, i :
    IF autolinkLevel(ts, i) = 0 THEN splitTextToken(ts[i].content, 1, 1, opts) ELSE <<ts[i]>>)
=============================================================================
