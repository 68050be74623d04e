---------------------------- MODULE MCMarkdownDemo ----------------------------
(* A text, an empty one and one that cannot be rendered; links as pages have had     *)
(* them; two drafts in two widths; short strings of the code units that matter.       *)
EXTENDS MarkdownDemo

linkOf(kind, isString, booleans, old, view) ==
  [kind |-> kind, readable |-> TRUE, text |-> "a", isString |-> isString,
   booleans |-> booleans, _src |-> old, view |-> view]
setting(k, v) == [x \in {k} |-> v]

MCLinks ==
  {linkOf("md64", TRUE, setting("_highlight", FALSE), "", "debug"),
   linkOf("md", FALSE, setting("_strict", TRUE), "true", ""),
   linkOf("md3", TRUE, [k \in {} |-> TRUE], "", "pdf"),
   [linkOf("md3", TRUE, setting("_strict", TRUE), "", "src") EXCEPT !.readable = FALSE]}

blockAt(line, top) == [line |-> line, top |-> top]
draft(rows, blocks, height) == [rows |-> rows, blocks |-> blocks, height |-> height]
MCDrafts ==
  {[wide |-> draft(<<1, 1, 2>>, <<blockAt(0, 0), blockAt(2, 3)>>, 8),
    narrow |-> draft(<<2, 1, 2>>, <<blockAt(0, 1), blockAt(2, 5)>>, 9)],
   [wide |-> draft(<<1, 1>>, <<blockAt(1, 1)>>, 5), narrow |-> draft(<<1, 2>>, <<blockAt(1, 1)>>, 6)]}

Strings(S, lo, hi) == UNION {[1..n -> S] : n \in lo..hi}

(* a, %, 4, e acute and a pair of surrogates; the ends of the lengths of UTF-8. *)
MCWords ==
  Strings({97, 37, 52, 233, 55357, 56832}, 1, 4)
  \cup Strings({32, 47, 65, 126, 127, 128, 2047, 2048, 8364, 56319, 57343, 65535}, 1, 2)
(* A, bytes that continue, and bytes that begin sequences, overlong and surrogates too. *)
MCByteRuns ==
  Strings({65, 128, 144, 160, 191, 193, 194, 224, 237, 240, 244, 248}, 1, 3)
  \cup Strings({65, 128, 144, 191, 237, 240, 244}, 4, 4)
=============================================================================
