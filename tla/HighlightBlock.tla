---------------------------- MODULE HighlightBlock ----------------------------
(***************************************************************************)
(* index.js, the highlighter: what becomes of a block of a page, from its      *)
(* class to the markup that replaces it, lexeme by lexeme; the markup that     *)
(* was in the block is merged with the spans.  The page's events and scripts   *)
(* may highlight the same block again.                                      *)
(***************************************************************************)
EXTENDS Highlighter

CONSTANTS Blocks,      \* what the block may be at first: its items and its classes
          CallBound    \* how often scripts highlight it
ASSUME BlocksAssumption ==
  CallBound \in Nat /\ \A b \in Blocks : DOMAIN b = {"items", "classes"}

VARIABLES
  block,    \* its items, its classes, the language found last
  work,     \* how far its highlighting is
  called,   \* initHighlighting has been called
  calls     \* history: how often it was highlighted, by the page's events and by scripts

vars == <<block, work, called, calls>>

NoWork == [phase |-> "idle"]

Init ==
  /\ \E b \in Blocks : block = [items |-> b.items, classes |-> b.classes, first |-> b,
                                language |-> "none", second |-> "none"]
  /\ work = NoWork
  /\ called = FALSE /\ calls = [events |-> 0, scripts |-> 0]

-----------------------------------------------------------------------------
(* getLanguage: the name behind a class. *)
nameOf(word) == IF word \in DOMAIN aliases THEN aliases[word] ELSE word
known(word) == nameOf(word) \in ToSet(Languages)

Prefixed == ("lang-json" :> "json") @@ ("lang-other" :> "other")
isNotHighlighted(word) == word \in {"nohighlight", "plain", "text"}

(* blockLanguage: a prefixed class counts first, then the first that is a language. *)
blockLanguage(classes) ==
  LET prefixed == SelectSeq(classes, LAMBDA c : c \in DOMAIN Prefixed)
      named == SelectSeq(classes, LAMBDA c : isNotHighlighted(c) \/ known(c))
  IN  IF prefixed # <<>>
      THEN IF known(Prefixed[prefixed[1]]) THEN Prefixed[prefixed[1]] ELSE "nohighlight"
      ELSE IF named # <<>> THEN named[1] ELSE ""

(* buildClassName: hljs and the language, if it was detected or goes by an alias; *)
(* not if the classes contain it already, be it as a part of a word.             *)
buildClassName(classes, asked, found) ==
  LET language == IF asked = "" THEN found
                  ELSE IF asked \in DOMAIN aliases THEN aliases[asked] ELSE ""
      has(w) == \E i \in DOMAIN classes :
                  classes[i] = w \/ (classes[i] \in DOMAIN Prefixed /\ Prefixed[classes[i]] = w)
  IN  classes \o (IF has("hljs") THEN <<>> ELSE <<"hljs">>)
              \o (IF language \in {"", "undefined"} \/ has(language) THEN <<>>
                  ELSE <<language>>)

-----------------------------------------------------------------------------
(* nodeStream: where the elements start and stop; void ones do not stop. *)
Void == {"br"}
offsetIn(items, i) == Cardinality({k \in 1..i : items[k][1] = "text"})
nodeStream(items) ==
  LET at == [i \in DOMAIN items |-> <<items[i][1], items[i][2], offsetIn(items, i)>>]
  IN  SelectSeq(at, LAMBDA e : e[1] # "text" /\ ~(e[1] = "close" /\ e[2] \in Void))

(* selectStream: an original element starts first and stops last. *)
fromOriginal(original, highlighted) ==
  IF original = <<>> \/ highlighted = <<>> THEN original # <<>>
  ELSE IF Head(original)[3] # Head(highlighted)[3]
    THEN Head(original)[3] < Head(highlighted)[3]
  ELSE Head(highlighted)[1] = "open"

render(e) == <<e[1], e[2]>>
each(kind, nodes) == [i \in DOMAIN nodes |-> <<kind, nodes[i]>>]

(* One round of mergeStreams. *)
mergeStep_nested(w) ==
  LET original == fromOriginal(w.original, w.highlighted)
      e == Head(IF original THEN w.original ELSE w.highlighted)
      text == piecesOf(SubSeq(w.text, w.processed + 1, e[3]))
  IN  [w EXCEPT !.out = @ \o text \o <<render(e)>>, !.processed = e[3],
                !.original = IF original THEN Tail(@) ELSE @,
                !.highlighted = IF original THEN @ ELSE Tail(@)]

mergeStep(w) ==
  LET original == fromOriginal(w.original, w.highlighted)
      e == Head(IF original THEN w.original ELSE w.highlighted)
      ready == [w EXCEPT !.out = @ \o piecesOf(SubSeq(w.text, w.processed + 1, e[3])),
                         !.processed = e[3]]
      rest(k) == SubSeq(w.original, k + 1, Len(w.original))
      together == {k \in DOMAIN w.original :
        \A j \in 1..(k - 1) : rest(j)[1][3] = e[3] /\ fromOriginal(rest(j), w.highlighted)}
      k == CHOOSE j \in together : \A i \in together : i <= j
  IN  IF original
      THEN [ready EXCEPT !.original = rest(k),
              !.out = @ \o each("close", Reverse(w.nodes))
                        \o [i \in 1..k |-> render(w.original[i])] \o each("open", w.nodes)]
      ELSE [ready EXCEPT !.highlighted = Tail(@), !.out = Append(@, render(e)),
              !.nodes = IF e[1] = "open" THEN Append(@, e[2]) ELSE Front(@)]

-----------------------------------------------------------------------------
(* highlightBlock begins: nothing if the class says so. *)
begun ==
  LET asked == blockLanguage(block.classes)
      text == textOf(block.items)
      none == Undetected(text)
  IN  IF isNotHighlighted(asked) THEN NoWork
      ELSE IF asked # ""
        THEN [phase |-> "highlight", asked |-> asked, todo |-> <<>>,
              found |-> [best |-> none, second |-> none],
              h |-> start(nameOf(asked), text, TRUE, <<>>)]
      ELSE [phase |-> "highlight", asked |-> "", todo |-> Tail(Languages),
            found |-> [best |-> none, second |-> none],
            h |-> start(Head(Languages), text, FALSE, <<>>)]

(* The page's two events both call initHighlighting; the first one works. *)
LoadEvent ==
  /\ work.phase = "idle" /\ calls.events < 2
  /\ called' = TRUE
  /\ work' = IF called THEN work ELSE begun
  /\ calls' = [calls EXCEPT !.events = @ + 1]
  /\ UNCHANGED block

(* A script's highlightBlock. *)
CallHighlightBlock ==
  /\ work.phase = "idle" /\ calls.scripts < CallBound
  /\ work' = begun
  /\ calls' = [calls EXCEPT !.scripts = @ + 1]
  /\ UNCHANGED <<block, called>>

Lexeme ==
  /\ work.phase = "highlight" /\ ~work.h.done
  /\ work' = [work EXCEPT !.h = step(@)]
  /\ UNCHANGED <<block, called, calls>>

(* One language of several is done: the next, with the best two so far. *)
NextLanguage ==
  /\ work.phase = "highlight" /\ work.h.done /\ work.todo # <<>>
  /\ work' = [work EXCEPT !.found = better(@, resultOf(work.h)), !.todo = Tail(@),
                          !.h = start(Head(work.todo), work.h.text, FALSE, <<>>)]
  /\ UNCHANGED <<block, called, calls>>

(* The language is found, and there may be markup to merge. *)
Found ==
  IF work.asked # ""
  THEN [work.found EXCEPT !.best = [resultOf(work.h) EXCEPT !.language = work.asked]]
  ELSE better(work.found, resultOf(work.h))

Highlighted ==
  /\ work.phase = "highlight" /\ work.h.done /\ work.todo = <<>>
  /\ LET original == nodeStream(block.items)
     IN  work' = [phase |-> "merge", asked |-> work.asked, found |-> Found,
                  text |-> work.h.text, processed |-> 0, nodes |-> <<>>,
                  original |-> original,
                  highlighted |-> IF original = <<>> THEN <<>> ELSE nodeStream(Found.best.out),
                  out |-> IF original = <<>> THEN Found.best.out ELSE <<>>]
  /\ UNCHANGED <<block, called, calls>>

MergeEvent ==
  /\ work.phase = "merge" /\ work.original \o work.highlighted # <<>>
  /\ work' = mergeStep(work)
  /\ UNCHANGED <<block, called, calls>>

(* The block gets its new markup and class. *)
Replace ==
  /\ work.phase = "merge" /\ work.original \o work.highlighted = <<>>
  /\ LET rest == IF nodeStream(block.items) = <<>> THEN <<>>
                 ELSE piecesOf(SubSeq(work.text, work.processed + 1, Len(work.text)))
     IN  block' = [block EXCEPT
                     !.items = work.out \o rest,
                     !.classes = buildClassName(@, work.asked, work.found.best.language),
                     !.language = work.found.best.language,
                     !.second = IF work.found.second.language = "undefined" THEN @
                                ELSE work.found.second.language]
  /\ work' = NoWork
  /\ UNCHANGED <<called, calls>>

Next ==
  \/ LoadEvent \/ CallHighlightBlock \/ Lexeme \/ NextLanguage \/ Highlighted
  \/ MergeEvent \/ Replace

Proceeds == Lexeme \/ NextLanguage \/ Highlighted \/ MergeEvent \/ Replace

Spec == Init /\ [][Next]_vars /\ WF_vars(Proceeds)

-----------------------------------------------------------------------------
Elements == {"b", "i"} \cup Void    \* of the markup that a block comes with

TypeOK ==
  /\ called \in BOOLEAN /\ calls.events \in 0..2 /\ calls.scripts \in 0..CallBound
  /\ block.language \in {"none", "undefined"} \cup ToSet(Languages) \cup DOMAIN aliases
  /\ work.phase \in {"idle", "highlight", "merge"}
  /\ work.phase = "highlight" =>
       /\ work.h.stack # <<>> /\ ToSet(work.h.stack) \subseteq DOMAIN Modes
       /\ work.h.index \in 0..Len(work.h.text)
       /\ work.h.relevance \in Nat

(* No lexeme is lost or doubled: at any time the result and the buffer are the text  *)
(* up to where the search goes on, whatever modes return, exclude or skip and        *)
(* however often a part is highlighted in another language; and but for the spans     *)
(* the block is always what it was, its own markup at its places.                   *)
NothingLost ==
  /\ work.phase = "highlight" =>
       textOf(work.h.out) \o work.h.buffer = SubSeq(work.h.text, 1, work.h.index)
  /\ SelectSeq(block.items, LAMBDA x : x[1] = "text" \/ x[2] \in Elements)
       = block.first.items

(* What is open after the items, innermost last; "wrong" if another one is closed. *)
openAfter(items) ==
  FoldLeft(LAMBDA open, x :
             CASE x[1] = "text" \/ x[2] \in Void -> open
               [] x[1] = "open" -> Append(open, x[2])
               [] x[1] = "close" -> IF open # <<>> /\ Last(open) = x[2] THEN Front(open)
                                    ELSE <<"wrong">>,
           <<>>, items)

(* The spans that are open in the result are those of the modes on the stack, in     *)
(* order, also where a language goes on inside another; when it is done, none is.    *)
SpansMatchStack ==
  work.phase = "highlight" =>
    openAfter(work.h.out) =
      (IF work.h.done THEN <<>>
       ELSE SelectSeq([i \in DOMAIN work.h.stack |-> Modes[work.h.stack[i]].class],
                      LAMBDA c : c # ""))

(* The highlighter gets on: modes that begin or end without taking a piece of the    *)
(* text do so a bounded number of times at one place.                              *)
StepsBounded == work.phase = "highlight" => work.h.steps <= 4 * Len(work.h.text) + 4

(* best has the first of the most relevant of all languages, by their relevance r. *)
isBest(r, best, second) ==
  LET place(l) == CHOOSE i \in DOMAIN Languages : Languages[i] = l
  IN  IF best.language = "undefined" THEN \A l \in DOMAIN r : r[l] = 0
      ELSE /\ \A l \in DOMAIN r : /\ r[l] <= r[best.language]
                                  /\ place(l) < place(best.language) => r[l] < r[best.language]
           /\ \A l \in DOMAIN r \ {best.language} : r[l] <= second.relevance
           /\ second.relevance > 0 => second.language # best.language

(* Of all the languages the first of the most relevant is found, and as the second    *)
(* the most relevant of the others; none where all find the text illegal or dull.     *)
BestDetected ==
  (work.phase = "merge" /\ work.asked = "") =>
    isBest([l \in ToSet(Languages) |-> run(start(l, work.text, FALSE, <<>>)).relevance],
           work.found.best, work.found.second)

(* The spans are cut at the block's own elements: after every event the elements      *)
(* that are open enclose the spans that are, and each closes inside of what it         *)
(* opened in.                                                                     *)
MergedNested ==
  /\ (work.phase = "merge" /\ work.out # <<>> /\ nodeStream(block.items) # <<>>) =>
       LET open == openAfter(work.out)
       IN  /\ open # <<"wrong">>
           /\ SubSeq(open, Len(open) - Len(work.nodes) + 1, Len(open)) = work.nodes
  /\ openAfter(block.items) = <<>>

(* Highlighting changes nothing but spans, and comes to an end.                       *)
TextKept == TypeOK /\ NothingLost /\ StepsBounded

(* Spans nest: among themselves as the modes did, and with the block's own elements.   *)
SpansNested == SpansMatchStack /\ MergedNested
=============================================================================
