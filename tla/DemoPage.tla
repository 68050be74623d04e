------------------------------- MODULE DemoPage -------------------------------
(***************************************************************************)
(* index.js, the page of the markdown demo: a text, options, and three views of  *)
(* what the text is rendered to, of which the active one is kept up to date; and  *)
(* a permalink that holds the text and the options.                            *)
(***************************************************************************)
EXTENDS Integers, FiniteSets

CONSTANTS Texts,         \* what the reader may write
          InitialText,   \* what the page comes with
          Unrenderable,  \* the texts that make the renderer throw
          OptionKeys,    \* the boolean options
          Links,         \* links from elsewhere
          WaitTicks, MaxWaitTicks   \* of the debounced update
ASSUME DemoAssumption ==
  /\ InitialText \in Texts /\ "" \in Texts /\ Unrenderable \subseteq Texts \ {""}
  /\ "_strict" \in OptionKeys
  /\ WaitTicks \in Nat \ {0} /\ MaxWaitTicks \in Nat \ {0}
  /\ \A link \in Links : /\ link.isString => link.text \in Texts
                         /\ \A k \in DOMAIN link.booleans : link.booleans[k] \in BOOLEAN

VARIABLE page

pageVars == <<page>>

Views == {"html", "src", "debug"}
defaults == [k \in OptionKeys |-> k \in {"_highlight", "linkify", "typographer"}]
NoLink == [kind |-> "none"]
NotDue == [wait |-> -1, maxWait |-> -1]
Empty == [text |-> "", opts |-> defaults]

-----------------------------------------------------------------------------
(* What rendering p's text gives: the options are those mdInit has copied, but for      *)
(* _highlight, which is read while rendering; strict rendering knows no options.        *)
rendered(p) ==
  [text |-> p.text,
   opts |-> [k \in OptionKeys |-> IF p.md["_strict"] THEN k = "_strict"
                                  ELSE IF k = "_highlight" THEN p.opts[k] ELSE p.md[k]]]

linkTo(p) ==
  IF p.text = "" THEN NoLink
  ELSE [kind |-> "md3", readable |-> TRUE, text |-> p.text, isString |-> TRUE,
        booleans |-> p.opts, _src |-> "", view |-> p.view]

(* updateResult: the active view, then the map of lines, then the permalink; none of     *)
(* these if rendering throws.                                                     *)
updateResult_linkFirst(p) ==
  IF p.text \in Unrenderable THEN [p EXCEPT !.failed = TRUE, !.href = linkTo(p)]
  ELSE [p EXCEPT !.pane[p.view] = rendered(p), !.href = linkTo(p),
                 !.failed = FALSE, !.unheard = FALSE]

updateResult(p) ==
  IF p.text \in Unrenderable THEN [p EXCEPT !.failed = TRUE]
  ELSE [p EXCEPT !.pane[p.view] = rendered(p), !.href = linkTo(p),
                 !.failed = FALSE, !.unheard = FALSE]

mdInit(p) == [p EXCEPT !.md = p.opts]

(* loadPermalink: what can be read of a link counts if it is of the right type, and the  *)
(* key is one of the defaults; so _src, of old links, does not.                       *)
loads(link) == link.kind \in {"md3", "md64", "md"} /\ link.readable
isDefault(key) == key \in OptionKeys \cup {"langPrefix", "_view", "highlight"}
viewOf(p, link) ==
  CASE link.view # "" -> link.view
    [] link.view = "" /\ link._src # "" /\ isDefault("_src") ->
         IF link._src = "true" THEN "src" ELSE "html"
    [] OTHER -> p.view

sanitized_not(view) == view
sanitized(view) == IF view \in Views THEN view ELSE "html"

loadPermalink(p, link) ==
  IF ~loads(link) THEN p
  ELSE [p EXCEPT !.text = IF link.isString THEN link.text ELSE @,
                 !.opts = [k \in OptionKeys |-> IF k \in DOMAIN link.booleans
                                                THEN link.booleans[k] ELSE @[k]],
                 !.view = sanitized(viewOf(p, link))]

(* The page as the browser has it, and after the handler of its loading. *)
fresh ==
  [text |-> InitialText, opts |-> defaults, view |-> "html", md |-> defaults,
   pane |-> [v \in Views |-> Empty], href |-> NoLink, due |-> NotDue,
   failed |-> FALSE, unheard |-> FALSE]

loaded_late(hash) == updateResult(loadPermalink(mdInit(fresh), hash))
loaded(hash) == updateResult(mdInit(loadPermalink(fresh, hash)))

PageInit == page = loaded(NoLink)

-----------------------------------------------------------------------------
(* The debounced updateResult: due when nothing has happened for a while, and at the     *)
(* latest a while after the first of the events.                                    *)
again_unlimited(due) == [wait |-> WaitTicks, maxWait |-> MaxWaitTicks]
again(due) ==
  [wait |-> WaitTicks, maxWait |-> IF due = NotDue THEN MaxWaitTicks ELSE due.maxWait]

(* Keys, the clipboard and the mouse; also without a change of the text. *)
Edit ==
  \E t \in Texts : page' = [page EXCEPT !.text = t, !.due = again(@)]

(* Text may change without any of these: dropped into it, or corrected by the browser. *)
EditUnheard ==
  \E t \in Texts \ {page.text} : page' = [page EXCEPT !.text = t, !.unheard = TRUE]

Tick ==
  /\ page.due # NotDue /\ page.due.wait > 0 /\ page.due.maxWait > 0
  /\ page' = [page EXCEPT !.due = [wait |-> @.wait - 1, maxWait |-> @.maxWait - 1]]

Update ==
  /\ page.due # NotDue /\ (page.due.wait = 0 \/ page.due.maxWait = 0)
  /\ page' = updateResult([page EXCEPT !.due = NotDue])

(* The listeners of an option, of the clear button, and of the choice of view. *)
OptionChange ==
  \E k \in OptionKeys :
    page' = updateResult(mdInit([page EXCEPT !.opts[k] = ~@]))

Clear == page' = updateResult([page EXCEPT !.text = ""])

setResultView_only(p, v) == [p EXCEPT !.view = v]
setResultView(p, v) == updateResult([p EXCEPT !.view = v])
ChooseView == \E v \in Views : page' = setResultView(page, v)

(* The page anew, by its permalink: an empty one leads to the page as it comes.  The hash   *)
(* counts when the page is loaded, following it alone changes nothing.                *)
OpenPermalink == page' = loaded(page.href)
OpenLink(link) == page' = loaded(link)

PageNext ==
  \/ Edit \/ EditUnheard \/ Tick \/ Update \/ OptionChange \/ Clear \/ ChooseView
  \/ OpenPermalink
  \/ \E link \in Links : OpenLink(link)

-----------------------------------------------------------------------------
PageTypeOK ==
  /\ page.text \in Texts /\ page.opts \in [OptionKeys -> BOOLEAN]
  /\ page.md \in [OptionKeys -> BOOLEAN]
  /\ page.view \in Views /\ DOMAIN page.pane = Views
  /\ page.due = NotDue \/ (page.due.wait \in 0..WaitTicks /\ page.due.maxWait \in 0..MaxWaitTicks)

expected == rendered([page EXCEPT !.md = page.opts])

(* With no update to come, the active view shows the text under the options as they are: *)
(* whichever view was active when they changed, and wherever they came from.            *)
ShownIsCurrent ==
  page.due = NotDue /\ ~page.unheard /\ ~page.failed => page.pane[page.view] = expected

(* The permalink is of what is shown, also while the reader writes on, and also when the   *)
(* text cannot be rendered, as long as the view stays.                              *)
LinkIsOfShown ==
  page.pane[page.view] # Empty /\ page.href # NoLink /\ page.href.view = page.view =>
    page.href.text = page.pane[page.view].text

(* A page that is loaded by its own permalink looks as it did: text, options and view,     *)
(* and what the active view shows.                                                *)
LinkRestores ==
  [][OpenPermalink /\ page.href # NoLink /\ page.due = NotDue
       /\ ~page.unheard /\ ~page.failed =>
       /\ page'.text = page.text /\ page'.opts = page.opts /\ page'.view = page.view
       /\ page'.pane[page.view] = page.pane[page.view]]_page

(* What is written is shown at last, even if the reader never pauses.                  *)
TypedIsShown == page.due # NotDue ~> page.due = NotDue

(* The view in use shows the text as it is now, and if not yet, then in the end.       *)
ShownAtLast == [](PageTypeOK /\ ShownIsCurrent) /\ TypedIsShown

(* The permalink is of what is shown and brings it back.                             *)
LinkSound == []LinkIsOfShown /\ LinkRestores
=============================================================================
