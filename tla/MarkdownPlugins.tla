---------------------------- MODULE MarkdownPlugins ----------------------------
(***************************************************************************)
(* The markdown plugins of index.js: those of the blocks nest what is in the   *)
(* lines, those of the text work within the lines.  A behaviour follows one of   *)
(* the two readings of a document.                                            *)
(***************************************************************************)
EXTENDS MarkdownDocument, BlockPlugins

VARIABLE part   \* "text" or "blocks"

vars == <<documentVars, blockVars, part>>

NoDocument == DocumentOf([lines |-> <<>>, enabled |-> {}])

Init ==
  \/ part = "text" /\ DocumentInit /\ bl = PageOf(<<>>)
  \/ part = "blocks" /\ BlocksInit /\ md = NoDocument

TextStep == part = "text" /\ DocumentNext /\ UNCHANGED <<blockVars, part>>
BlocksStep == part = "blocks" /\ BlocksNext /\ UNCHANGED <<documentVars, part>>

Next == TextStep \/ BlocksStep

Spec == Init /\ [][Next]_vars

(* Markers make nested tags and lose nothing: the text is conserved, each finds the     *)
(* partner it should, and an odd one stays outside.                                 *)
MarkersPaired ==
  DocumentTypeOK /\ MarkupConserved /\ TagsNested /\ LoneMarkerOutside /\ NearestPartner

(* Notes, their references and the ways back agree, and no other text fails.           *)
NotesAgree == LeadsToItsNote /\ WaysBack /\ FailsOnlyNested

(* What is replaced in texts is whole and all: abbreviations, and the longest emoji.   *)
WordsWhole == AllAbbreviated /\ EmojiWhole
=============================================================================
