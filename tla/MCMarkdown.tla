------------------------------ MODULE MCMarkdown ------------------------------
(* All short texts of the characters that matter to a plugin, small texts of      *)
(* several lines with definitions, and small pages of lines.                    *)
EXTENDS MarkdownPlugins

Strings(S, lo, hi) == UNION {[1..n -> S] : n \in lo..hi}
Trimmed(S) == {t \in S : t[1] # " " /\ Last(t) # " "}

at(depth, text) == [depth |-> depth, text |-> text]
def(l, text) == <<"[", "^", l, "]", ":">> \o text
ref(l) == <<"[", "^", l, "]">>
abbr(label, title) == at(0, <<"*", "[">> \o label \o <<"]", ":">> \o title)

MarkTexts ==
  {t \in Strings({"a", " ", "+", "="}, 1, 7) :
     Cardinality({i \in DOMAIN t : t[i] \in {"+", "="}}) >= 5}
LongRuns ==
  {<<"+", "+">> \o x \o y \o z : x \in Strings({"a", "="}, 1, 3),
     y \in {<<"+">>, <<"+", "+">>, <<"+", "+", "+">>}, z \in Strings({"a", "=", "+"}, 1, 4)}
  \cup {<<"+", "+", "+", "+", "a">> \o x : x \in Strings({"+"}, 4, 6)}
ScriptTexts == Strings({"a", " ", "~", "^", "bs"}, 1, 5)
NoteTexts == Strings({"a", "^", "[", "]"}, 3, 6)
EmojiTexts == Strings({":", ")", "-", "s", "a", "mile", "@"}, 1, 4)
              \cup Strings({":", ")", "+", "s"}, 3, 4)
              \cup {<<":", "s", "mile", "bs", ":", "@", ":", "/">>, <<":", "'", "D", ":", "joy", ":">>}

Short ==
  {[lines |-> <<at(0, t)>>, enabled |-> {}] :
     t \in Trimmed(MarkTexts \cup LongRuns \cup ScriptTexts \cup NoteTexts \cup EmojiTexts)}
  \cup {[lines |-> <<at(0, t)>>, enabled |-> {<<"s", "mile">>}] :
          t \in {e \in EmojiTexts : Len(e) = 3 /\ ":" \in ToSet(e)}}

NoteLines ==
  {at(0, t) : t \in {ref("a"), ref("a") \o ref("a"), ref("b") \o <<"^", "[", "a", "]">>,
                     <<"^", "[", "b">> \o ref("a") \o <<"]">>,
                     def("a", <<"a">>), def("a", <<" ">> \o ref("b")), def("a", <<>>),
                     def("b", <<"b", "+", "+">> \o ref("a") \o <<"+", "+">>),
                     def("a", def("b", <<"c">>))}}
  \cup {at(1, <<"d">>)}

Noted ==
  {[lines |-> ls, enabled |-> {}] :
     ls \in {s \in Strings(NoteLines, 2, 3) :
               \A i \in DOMAIN s : s[i].depth > 0 =>
                 i > 1 /\ s[i - 1].depth = 0 /\ charAt(s[i - 1].text, 5) = ":"}}

Abbreviations ==
  {<<abbr(<<"a">>, <<"t">>), abbr(<<"a", "b">>, <<"u">>)>>,
   <<abbr(<<"a", " ", "b">>, <<"v">>), abbr(<<"a">>, <<"t">>), abbr(<<"a">>, <<"u">>)>>,
   <<abbr(<<"a", "bs", "]">>, <<" ", "t">>), abbr(<<>>, <<"t">>), abbr(<<"b">>, <<>>)>>}

Abbreviated ==
  {[lines |-> ls \o <<at(0, t)>>, enabled |-> {}] :
     ls \in Abbreviations, t \in Trimmed(Strings({"a", "b", " ", "]"}, 1, 5))}
  \cup {[lines |-> <<at(0, <<":", "a">>), at(0, <<"*", "[", "a">>)>> \o ls, enabled |-> {}] :
          ls \in {<<>>, <<at(0, <<"a">>)>>}}

MCDocuments == Short \cup Noted \cup Abbreviated

(* Pages of up to four lines of every kind, five where lists or containers are in one another. *)
lineOf(indent, marks, body, n) == [indent |-> indent, marks |-> marks, body |-> body, markers |-> n]
blank == lineOf(0, <<>>, "empty", 0)
term == lineOf(0, <<>>, "text", 0)
definition(indent) == lineOf(indent, <<2>>, "text", 0)
fence(n) == {lineOf(0, <<>>, "warning", n), lineOf(0, <<>>, "empty", n)}

LineKinds ==
  {blank, term, definition(0), definition(2)} \cup fence(3) \cup fence(4)
  \cup {lineOf(2, <<>>, "text", 0), lineOf(4, <<>>, "text", 0), lineOf(0, <<2, 2>>, "text", 0),
        lineOf(0, <<2>>, "warning", 3), lineOf(2, <<>>, "empty", 3)}

MCPages ==
  Strings(LineKinds, 1, 4)
  \cup Strings({blank, term, definition(0), definition(2)}, 5, 5)
  \cup Strings({term} \cup fence(3) \cup fence(4), 5, 5)
=============================================================================
