----------------------------- MODULE MarkdownDemo -----------------------------
(***************************************************************************)
(* index.js, the page of the markdown demo: its text, options and permalink; the  *)
(* scrolling of its panes; and the codec that permalinks and addresses go through.   *)
(* Each reads of the others only what it has as a constant, so a behaviour follows    *)
(* one of them.                                                               *)
(***************************************************************************)
EXTENDS DemoPage, ScrollSync, UrlCodec

VARIABLE part   \* "page", "scroll" or "codec"

vars == <<pageVars, scrollVars, codecVars, part>>

Init ==
  /\ PageInit
  /\ \/ part = "page"
     \/ part = "scroll" /\ ScrollInit
     \/ part = "codec" /\ CodecInit
  /\ part # "scroll" => sc = ScrollOf(CHOOSE d \in Drafts : TRUE, CHOOSE w \in Widths : TRUE)
  /\ part # "codec" => cod = CHOOSE j \in Jobs : TRUE

PageStep == part = "page" /\ PageNext /\ UNCHANGED <<scrollVars, codecVars, part>>
ScrollStep == part = "scroll" /\ ScrollNext /\ UNCHANGED <<pageVars, codecVars, part>>
CodecStep == part = "codec" /\ CodecNext /\ UNCHANGED <<pageVars, scrollVars, part>>

Next == PageStep \/ ScrollStep \/ CodecStep

(* The browser's timers ring. *)
Fairness == WF_page(Tick) /\ WF_page(Update)

Spec == Init /\ [][Next]_vars /\ Fairness
=============================================================================
