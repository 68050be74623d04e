------------------------------ MODULE Highlighter ------------------------------
(***************************************************************************)
(* index.js, the highlighter: how a text is cut into lexemes by the modes of  *)
(* a language, a stack of them, into a sequence of marked-up items; with       *)
(* languages inside languages and the detection of the language.             *)
(***************************************************************************)
EXTENDS Naturals, FiniteSets, SequencesExt

CONSTANTS Modes,      \* the modes of all languages, by name; a language is one
          Languages,  \* the names of those that are registered, in order
          aliases     \* their other names

(* Modes contain and start modes that there are, and languages are modes. *)
ASSUME GrammarAssumption ==
  /\ Languages # <<>> /\ ToSet(Languages) \subseteq DOMAIN Modes
  /\ \A a \in DOMAIN aliases : aliases[a] \in ToSet(Languages)
  /\ \A m \in DOMAIN Modes :
       /\ ToSet(Modes[m].contains) \subseteq DOMAIN Modes
       /\ Modes[m].starts \in DOMAIN Modes \cup {""}

(* Items of the result: pieces of the text, and spans that open and close. *)
piecesOf(text) == [i \in DOMAIN text |-> <<"text", text[i]>>]
opening(class) == IF class = "" THEN <<>> ELSE <<<<"open", class>>>>
closing(class) == IF class = "" THEN <<>> ELSE <<<<"close", class>>>>
textOf(items) ==
  LET pieces == SelectSeq(items, LAMBDA x : x[1] = "text")
  IN  [i \in DOMAIN pieces |-> pieces[i][2]]

(* Whether the pattern takes the text from place i; a lexeme is tested by itself. *)
matches(p, text, i) ==
  /\ CASE p.at = "never" -> FALSE
       [] p.at = "bol" -> i = 1 \/ text[i - 1] = "nl"
       [] p.at = "eol" -> i = Len(text) + 1 \/ text[i] = "nl"
       [] p.at = "any" -> TRUE
  /\ i + Len(p.words) <= Len(text) + 1
  /\ \A k \in DOMAIN p.words : text[i + k - 1] \in p.words[k]

testRe(p, lexeme) == matches(p, lexeme, 1)

-----------------------------------------------------------------------------
(* compileMode, of modes under the ends of their parents: done holds the          *)
(* terminator_end of those that are compiled; a mode is compiled once, so one that  *)
(* ends with its parent knows the end of the first parent only.                 *)
RECURSIVE compileMode(_, _)
compileMode(todo, done) ==
  IF todo = <<>> THEN done
  ELSE LET m == Head(todo)[1]
           parentEnd == Head(todo)[2]
           ends == (IF Modes[m].end.at = "never" THEN <<>> ELSE <<Modes[m].end>>)
                     \o (IF Modes[m].endsWithParent THEN parentEnd ELSE <<>>)
           contained == [i \in DOMAIN Modes[m].contains |-> <<Modes[m].contains[i], ends>>]
           started == IF Modes[m].starts = "" THEN <<>> ELSE <<<<Modes[m].starts, parentEnd>>>>
       IN  compileMode((IF m \in DOMAIN done THEN <<>> ELSE contained \o started) \o Tail(todo),
                       done @@ (m :> ends))

Compiled == compileMode([i \in DOMAIN Languages |-> <<Languages[i], <<>>>>], <<>>)

(* What the text is searched for in a mode, the first that matches to be taken. *)
terminators(m) ==
  [i \in DOMAIN Modes[m].contains |-> Modes[Modes[m].contains[i]].begin]
    \o Compiled[m] \o <<Modes[m].illegal>>

-----------------------------------------------------------------------------
(* One call of highlight: the stack of modes, top last, and what is ready. *)
start(name, text, ignore, continuation) ==
  LET stack == IF continuation = <<>> THEN <<name>> ELSE continuation
  IN  [language |-> name, text |-> text, ignore |-> ignore, index |-> 0, stack |-> stack,
       out |-> FlattenSeq([i \in DOMAIN stack |-> opening(Modes[stack[i]].class)]),
       buffer |-> <<>>, relevance |-> 0, steps |-> 0, done |-> FALSE,
       continuations |-> [l \in ToSet(Languages) |-> <<>>]]

top(h) == Modes[Last(h.stack)]

startNewMode(h, m) ==
  [h EXCEPT !.out = @ \o opening(Modes[m].class), !.stack = Append(@, m)]

start_of(h, m) == IF m = "" THEN h ELSE startNewMode(h, m)

(* The modes that contain may begin with the lexeme: the first, or none. *)
subMode(h, lexeme) ==
  LET begins == {i \in DOMAIN top(h).contains : testRe(Modes[top(h).contains[i]].begin, lexeme)}
  IN  IF begins = {} THEN "" ELSE top(h).contains[CHOOSE i \in begins : \A j \in begins : i <= j]

(* How deep in the stack the mode is that the lexeme ends, 0 for none: the top,   *)
(* or one that it ends with; and one further down where that ends its parent.    *)
endOfMode(h, lexeme) ==
  LET mode(d) == Modes[h.stack[d]]
      ending == {d \in DOMAIN h.stack : /\ testRe(mode(d).end, lexeme)
                                        /\ \A e \in (d + 1)..Len(h.stack) :
                                             mode(e).endsWithParent /\ ~testRe(mode(e).end, lexeme)}
      parent[d \in 1..Len(h.stack)] ==
        IF mode(d).endsParent /\ d > 1 THEN parent[d - 1] ELSE d
  IN  IF ending = {} THEN 0 ELSE parent[CHOOSE d \in ending : TRUE]

-----------------------------------------------------------------------------
processKeywords(h) ==
  LET marked(x) == IF x \in top(h).keywords
                   THEN <<<<"open", "keyword">>, <<"text", x>>, <<"close", "keyword">>>>
                   ELSE <<<<"text", x>>>>
  IN  [h EXCEPT !.out = @ \o FlattenSeq([i \in DOMAIN h.buffer |-> marked(h.buffer[i])]),
                !.relevance = @ + Len(SelectSeq(h.buffer, LAMBDA x : x \in top(h).keywords))]

(* highlightAuto, over what each language has made of the text: the best and the   *)
(* next, of no language if none is relevant.                                   *)
Undetected(text) == [language |-> "undefined", relevance |-> 0, out |-> piecesOf(text)]

better_latest(found, r) ==
  IF r.relevance > found.best.relevance
    THEN [best |-> r, second |-> r]
  ELSE IF r.relevance > found.second.relevance THEN [found EXCEPT !.second = r]
  ELSE found

better(found, r) ==
  IF r.relevance > found.best.relevance
    THEN [best |-> r, second |-> found.best]
  ELSE IF r.relevance > found.second.relevance THEN [found EXCEPT !.second = r]
  ELSE found

registered(names) == SelectSeq(names, LAMBDA l : l \in ToSet(Languages))
resultOf(h) == [language |-> h.language, relevance |-> h.relevance, out |-> h.out]

highlightAuto(text, parts) ==
  FoldLeft(LAMBDA found, part : better(found, resultOf(part)),
           [best |-> Undetected(text), second |-> Undetected(text)], parts)

spanned(h, r) ==
  [h EXCEPT !.out = @ \o <<<<"open", r.language>>>> \o r.out \o <<<<"close", r.language>>>>,
            !.relevance = IF top(h).relevance > 0 THEN @ + r.relevance ELSE @]

(* A language by name goes on where its last part in this text was left; of   *)
(* several the best is taken, each time anew.                                 *)
embedded(h, parts) ==
  IF top(h).explicit
  THEN [spanned(h, resultOf(parts[1])) EXCEPT !.continuations[parts[1].language] = parts[1].stack]
  ELSE spanned(h, highlightAuto(h.buffer, parts).best)

RECURSIVE run(_)

processSubLanguage(h) ==
  LET names == registered(top(h).sub)
      left(l) == IF top(h).explicit THEN h.continuations[l] ELSE <<>>
  IN  IF top(h).explicit /\ names = <<>> THEN [h EXCEPT !.out = @ \o piecesOf(h.buffer)]
      ELSE embedded(h, [i \in DOMAIN names |->
                          run(start(names[i], h.buffer, top(h).explicit, left(names[i])))])

processBuffer(h) ==
  [(IF top(h).sub = <<>> THEN processKeywords(h) ELSE processSubLanguage(h))
     EXCEPT !.buffer = <<>>]

-----------------------------------------------------------------------------
(* The buffer is processed with the lexeme in it, without it or before it is put in,  *)
(* or never, and the lexeme waits in it.                                          *)
flushed(h, lexeme, how) ==
  LET given == IF how \in {"with", "never"} THEN [h EXCEPT !.buffer = @ \o lexeme] ELSE h
  IN  [(IF how = "never" THEN given ELSE processBuffer(given))
         EXCEPT !.buffer = IF how = "before" THEN lexeme ELSE @]

(* processLexeme, of a lexeme that begins a mode; index is where it begins. *)
beginLexeme_twice(h, m, lexeme) ==
  LET new == Modes[m]
      taken == IF new.returnBegin THEN 0 ELSE Len(lexeme)
      ready == [processBuffer(h) EXCEPT !.buffer = lexeme]
  IN  [startNewMode(ready, m) EXCEPT !.index = @ + taken]

beginLexeme_ahead(h, m, lexeme) ==
  [startNewMode([processBuffer(h) EXCEPT !.buffer = lexeme], m)
     EXCEPT !.index = @ + Len(lexeme) + 1]

beginLexeme(h, m, lexeme) ==
  LET new == Modes[m]
      taken == IF new.returnBegin THEN 0 ELSE Len(lexeme)
      how == IF new.skip THEN "never" ELSE IF new.excludeBegin THEN "with"
             ELSE IF new.returnBegin THEN "without" ELSE "before"
  IN  [startNewMode(flushed(h, lexeme, how), m) EXCEPT !.index = @ + taken]

(* Of a lexeme that ends the modes down to depth d; what they start comes then. *)
closeDown_top(h, d) ==
  [h EXCEPT !.out = @ \o closing(top(h).class), !.stack = SubSeq(@, 1, d - 1)]

closeDown(h, d) ==
  LET ended == Reverse(SubSeq(h.stack, d, Len(h.stack)))
      counted == SelectSeq(ended, LAMBDA m : ~Modes[m].skip)
  IN  [h EXCEPT !.out = @ \o FlattenSeq([i \in DOMAIN ended |-> closing(Modes[ended[i]].class)]),
                !.relevance = FoldLeft(LAMBDA r, m : r + Modes[m].relevance, @, counted),
                !.stack = SubSeq(@, 1, d - 1)]

endLexeme_atLine(h, d, lexeme) ==
  IF lexeme = <<>> /\ top(h).end.at = "eol" THEN processBuffer(h)
  ELSE closeDown(processBuffer([h EXCEPT !.buffer = @ \o lexeme, !.index = @ + Len(lexeme)]), d)

endLexeme(h, d, lexeme) ==
  LET origin == top(h)
      taken == IF origin.returnEnd THEN 0 ELSE Len(lexeme)
      how == IF origin.skip THEN "never" ELSE IF origin.excludeEnd THEN "before"
             ELSE IF origin.returnEnd THEN "without" ELSE "with"
  IN  start_of([closeDown(flushed(h, lexeme, how), d) EXCEPT !.index = @ + taken],
               Modes[h.stack[d]].starts)

(* An illegal lexeme ends it all: the text as it is, of no relevance. *)
illegal(h) == [h EXCEPT !.out = piecesOf(h.text), !.relevance = 0, !.done = TRUE,
                        !.index = Len(h.text), !.buffer = <<>>, !.stack = <<h.language>>]

processLexeme(h, lexeme) ==
  LET m == subMode(h, lexeme)
      d == endOfMode(h, lexeme)
  IN  IF m # "" THEN beginLexeme(h, m, lexeme)
      ELSE IF d # 0 THEN endLexeme(h, d, lexeme)
      ELSE IF ~h.ignore /\ testRe(top(h).illegal, lexeme) THEN illegal(h)
      ELSE [h EXCEPT !.buffer = @ \o lexeme, !.index = @ + Max({1, Len(lexeme)})]

(* No lexeme is left: the rest is processed, and all that is open is closed, in   *)
(* the result only: the stack is where a next part will go on.                  *)
finish(h) ==
  LET dangling == Reverse(h.stack)
      rest == SubSeq(h.text, h.index + 1, Len(h.text))
  IN  [flushed(h, rest, "with") EXCEPT !.done = TRUE, !.index = Len(h.text),
         !.out = @ \o FlattenSeq([i \in DOMAIN dangling |-> closing(Modes[dangling[i]].class)])]

(* Where a pattern matches first after index, and how many pieces the first that    *)
(* does there takes; <<>> if none matches.                                       *)
search(patterns, text, index) ==
  LET hits == {x \in ((index + 1)..(Len(text) + 1)) \X DOMAIN patterns :
                 matches(patterns[x[2]], text, x[1])}
      first == CHOOSE x \in hits :
                 \A y \in hits : x[1] < y[1] \/ (x[1] = y[1] /\ x[2] <= y[2])
  IN  IF hits = {} THEN <<>> ELSE <<first[1], Len(patterns[first[2]].words)>>

proceed(h, found) ==
  IF found = <<>> THEN finish(h)
  ELSE processLexeme([h EXCEPT !.buffer = @ \o SubSeq(h.text, h.index + 1, found[1] - 1),
                               !.index = found[1] - 1, !.steps = @ + 1],
                     SubSeq(h.text, found[1], found[1] + found[2] - 1))

(* One round of the loop of highlight. *)
step(h) == proceed(h, search(terminators(Last(h.stack)), h.text, h.index))

run(h) == IF h.done THEN h ELSE run(step(h))
=============================================================================
