--------------------------- MODULE MCHighlightBlock ---------------------------
(***************************************************************************)
(* What the highlighter is checked with.  First the mode tables of index.js:  *)
(* json, ini, diff, xml, django and what php needs, out of its fifty          *)
(* languages.  A text is a sequence of tokens, each a piece that the patterns  *)
(* of a language keep apart; blanks belong to the token before.  A pattern     *)
(* that goes over several pieces, such as the end of a script, names them all,  *)
(* and one that would take a run of them takes the first.                     *)
(***************************************************************************)
EXTENDS HighlightBlock, TLC

(* A regular expression: the pieces it takes, each one of a set, and where: at  *)
(* any place, only at the start of a line or before the end of one; or nowhere. *)
re(words, at) == [words |-> words, at |-> at]
piece(S) == re(<<S>>, "any")
Anything == re(<<>>, "any")       \* \B|\b, the begin or end that is not given
LineEnd == re(<<>>, "eol")
Nowhere == re(<<>>, "never")

(* What compileMode gives a mode for what its definition leaves out. *)
Mode == [class |-> "", begin |-> Anything, end |-> Anything, illegal |-> Nowhere,
         contains |-> <<>>, starts |-> "", keywords |-> {}, relevance |-> 1,
         endsWithParent |-> FALSE, endsParent |-> FALSE, skip |-> FALSE,
         returnBegin |-> FALSE, returnEnd |-> FALSE,
         excludeBegin |-> FALSE, excludeEnd |-> FALSE,
         sub |-> <<>>,          \* subLanguage, and whether it is one name
         explicit |-> FALSE]

Language == [Mode EXCEPT !.end = Nowhere]
within(m) == [m EXCEPT !.endsWithParent = TRUE, !.end = Nowhere]
from(class, b) == [Mode EXCEPT !.class = class, !.begin = b]
between(class, b, e) == [from(class, b) EXCEPT !.end = e]
light(m) == [m EXCEPT !.relevance = 0]

Word == {"w", "true", "script"}
Signs == {"{", "}", "[", "]", ":", ",", "=", ";", "+", "-", "---", "@@", "bs"}
Markup == {"<", "</", ">", "<?", "?>", "{{", "}}", "/*", "*/"}
Visible == Word \cup Signs \cup Markup \cup {"q", "n"}   \* \S; q is a quote, n a number

QUOTE_STRING_MODE ==
  [between("string", piece({"q"}), piece({"q"}))
     EXCEPT !.illegal = piece({"nl"}), !.contains = <<"escape">>]

common ==
  [escape |-> light(from("", re(<<{"bs"}, Visible \cup {"nl"}>>, "any"))),
   string |-> QUOTE_STRING_MODE,
   number |-> light(from("number", piece({"n"})))]

(* json: a value goes on to a comma or to the end of what it is in. *)
VALUE_CONTAINER ==
  [within(Mode) EXCEPT !.end = piece({","}), !.excludeEnd = TRUE,
                       !.contains = <<"string", "number", "object", "array">>,
                       !.keywords = {"true"}]

json ==
  [json |-> [Language EXCEPT !.contains = VALUE_CONTAINER.contains,
                             !.keywords = {"true"}, !.illegal = piece(Visible)],
   object |-> [between("", piece({"{"}), piece({"}"}))
                 EXCEPT !.contains = <<"member", "value">>, !.illegal = piece(Visible)],
   member |-> [QUOTE_STRING_MODE EXCEPT !.class = "attr"],
   value |-> [VALUE_CONTAINER EXCEPT !.begin = piece({":"})],
   array |-> [between("", piece({"["}), piece({"]"}))
                EXCEPT !.contains = <<"element">>, !.illegal = piece(Visible)],
   element |-> VALUE_CONTAINER]

ini ==
  [ini |-> [Language EXCEPT !.contains = <<"remark", "section", "setting">>,
                            !.illegal = piece(Visible)],
   remark |-> between("comment", piece({";"}), LineEnd),
   section |-> between("section", re(<<{"["}>>, "bol"), piece({"]"})),
   setting |-> [between("", re(<<Word, {"="}>>, "bol"), LineEnd)
                  EXCEPT !.returnBegin = TRUE, !.contains = <<"key", "assigned">>],
   key |-> from("attr", piece(Word)),
   assigned |-> [within(light(from("", piece({"="}))))
                   EXCEPT !.contains = <<"literal", "iniString", "number">>],
   literal |-> from("literal", piece({"true"})),
   iniString |-> [between("string", piece({"q"}), piece({"q"}))
                    EXCEPT !.contains = <<"escape">>]]

diff ==
  [diff |-> [Language EXCEPT !.contains = <<"hunk", "heading", "addition", "deletion">>],
   hunk |-> [from("meta", re(<<{"@@"}, {"n"}, {"@@"}>>, "bol")) EXCEPT !.relevance = 10],
   heading |-> between("comment", re(<<{"---"}>>, "bol"), LineEnd),
   addition |-> between("addition", re(<<{"+"}>>, "bol"), LineEnd),
   deletion |-> between("deletion", re(<<{"-", "---"}>>, "bol"), LineEnd)]

(* xml, but for doctypes, comments, CDATA and styles: one TAG_INTERNALS in both  *)
(* tags, compiled for the first; what follows a script's tag is highlighted as   *)
(* whatever of some languages, those that are registered, it looks like most.     *)
xml ==
  [xml |-> [Language EXCEPT !.contains = <<"phpTag", "scriptTag", "tag">>],
   phpTag |-> [between("", piece({"<?"}), piece({"?>"}))
                 EXCEPT !.sub = <<"php">>, !.explicit = TRUE, !.contains = <<"hidden">>],
   hidden |-> [between("", piece({"/*"}), piece({"*/"})) EXCEPT !.skip = TRUE],
   scriptTag |-> [between("tag", re(<<{"<"}, {"script"}>>, "any"), piece({">"}))
                    EXCEPT !.keywords = {"script"}, !.contains = <<"internals">>,
                           !.starts = "code"],
   code |-> [between("", Anything, re(<<{"</"}, {"script"}, {">"}>>, "any"))
               EXCEPT !.returnEnd = TRUE, !.sub = <<"javascript", "xml">>],
   tag |-> [between("tag", piece({"<", "</"}), piece({">"}))
              EXCEPT !.contains = <<"name", "internals">>],
   name |-> light(from("name", piece(Visible \ (Markup \ {"{{", "}}"})))),
   internals |-> [within(light(Mode)) EXCEPT !.illegal = piece({"<", "</", "<?"}),
                                             !.contains = <<"xmlAttr", "equals">>],
   xmlAttr |-> light(from("attr", piece(Word \cup {":", "-", "---", "n"}))),
   equals |-> [light(from("", piece({"="}))) EXCEPT !.contains = <<"quoted", "bare">>],
   quoted |-> [between("string", piece({"q"}), piece({"q"})) EXCEPT !.endsParent = TRUE],
   bare |-> [from("string", piece(Visible \ ({"q", "="} \cup (Markup \ {"{{", "}}"}))))
               EXCEPT !.endsParent = TRUE]]

(* php and django, but for all that their inner modes would mark. *)
php ==
  [php |-> [Language EXCEPT !.keywords = {"true"},
                            !.contains = <<"blockComment", "preprocessor">>],
   blockComment |-> between("comment", piece({"/*"}), piece({"*/"})),
   preprocessor |-> from("meta", piece({"<?", "?>"}))]

(* What is not of the template is xml, which goes on where it left off. *)
django ==
  [django |-> [Language EXCEPT !.sub = <<"xml">>, !.explicit = TRUE,
                               !.contains = <<"variable">>],
   variable |-> between("template-variable", piece({"{{"}), piece({"}}"}))]

ModeTable == common @@ json @@ ini @@ diff @@ xml @@ php @@ django

(* registerLanguage: the names, in the order they are registered, and the aliases. *)
Registered == <<"xml", "diff", "django", "ini", "json", "php">>
Aliases == [html |-> "xml", patch |-> "diff", jinja |-> "django", toml |-> "ini"]

-----------------------------------------------------------------------------
(* Short texts of each language, of its class or to be detected; longer ones of  *)
(* languages inside others; and some with elements of their own.                *)

Alphabet ==
  [json |-> {"{", "}", "[", "]", ":", ",", "q", "n", "w", "true"},
   ini |-> {"w", "=", "q", "nl", "[", "]", ";", "true"},
   diff |-> {"@@", "n", "---", "+", "-", "nl", "w"},
   xml |-> {"<", "</", ">", "script", "w", "=", "q"},
   django |-> {"{{", "}}", "<", ">", "w", "q"},
   php |-> {"<?", "?>", "/*", "*/", "true"}]

MaxText == 3

Short == UNION {{[text |-> t, language |-> l] :
                   t \in UNION {[1..n -> Alphabet[l]] : n \in 0..MaxText}} : l \in DOMAIN Alphabet}

Long ==
  {[text |-> t, language |-> "xml"] : t \in
     {<<"<", "script", "w", "=", "q", "w", "q", ">", "<", "w", ">", "</", "script", ">">>,
      <<"<", "script", ">", "w", "</", "script", ">", "w">>,
      <<"<", "w", "w", "=", "w", ">", "</", "w", ">">>,
      <<"<?", "/*", "?>", "*/", "true", "?>", "<", "w", ">">>}}
  \cup
  {[text |-> t, language |-> "django"] : t \in
     {<<"<", "w", "w", "=", "q", "{{", "w", "}}", "w", "q", ">">>,
      <<"w", "{{", "q", "}}", "<", "w", "{{", "}}", "=", "w", ">">>}}
  \cup
  {[text |-> t, language |-> "json"] : t \in
     {<<"{", "q", "w", "q", ":", "[", "n", ",", "true", "]", "}">>,
      <<"[", "[", "q", "bs", "q", "q", "]", ",", "{", "}", "]">>}}
  \cup
  {[text |-> <<"[", "w", "]", "nl", "w", "=", "q", "true", "q", "nl", ";", "w">>,
    language |-> "ini"]}

Classes(l) == {<<>>, <<l>>}
Odd == {<<"html">>, <<"lang-json", "ini">>, <<"lang-other">>, <<"plain">>, <<"toml", "json">>}

Plain == {[items |-> piecesOf(x.text), classes |-> c] : x \in Short \cup Long,
          c \in {<<>>}}
         \cup UNION {{[items |-> piecesOf(x.text), classes |-> <<x.language>>]} : x \in Short \cup Long}

Wrapped(text, i, j, e) ==
  piecesOf(SubSeq(text, 1, i)) \o <<<<"open", e>>>> \o piecesOf(SubSeq(text, i + 1, j))
    \o <<<<"close", e>>>> \o piecesOf(SubSeq(text, j + 1, Len(text)))

Sample == <<"{", "q", "w", "q", ":", "n", "}">>
Marked ==
  {Wrapped(Sample, i, j, "b") : i \in 0..7, j \in 0..7}
  \cup {<<<<"open", "b">>>> \o Wrapped(Sample, i, 4, "i") \o <<<<"close", "b">>>> : i \in 0..4}
  \cup {piecesOf(SubSeq(Sample, 1, i)) \o <<<<"open", "br">>>>
          \o piecesOf(SubSeq(Sample, i + 1, 7)) : i \in 0..7}

MCBlocks ==
  Plain
  \cup {[items |-> m, classes |-> c] : m \in {w \in Marked : Len(textOf(w)) = 7},
        c \in {<<"json">>, <<>>}}
  \cup {[items |-> piecesOf(Sample), classes |-> c] : c \in Odd}
=============================================================================
