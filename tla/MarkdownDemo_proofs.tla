------------------------- MODULE MarkdownDemo_proofs --------------------------
(***************************************************************************)
(* Proofs about MarkdownDemo: the page, for every set of texts, options and       *)
(* links; the codec, for all strings of code units and all sequences of bytes; and   *)
(* the panes that scroll together, for all drafts and all maps of their lines.      *)
(***************************************************************************)
EXTENDS MarkdownDemo, FiniteSetTheorems, NaturalsInduction, TLAPS

(* What a page is made of: the options, what a pane shows, permalinks that *)
(* updateResult writes, and when the debounced update is due.              *)
Settings == [OptionKeys -> BOOLEAN]
Output == [text : Texts, opts : Settings]
Href == {NoLink} \cup
  [kind : {"md3"}, readable : {TRUE}, text : Texts, isString : {TRUE}, booleans : Settings,
   _src : {""}, view : Views]
Due == {NotDue} \cup [wait : 0..WaitTicks, maxWait : 0..MaxWaitTicks]
DemoType ==
  [text : Texts, opts : Settings, view : Views, md : Settings, pane : [Views -> Output],
   href : Href, due : Due, failed : BOOLEAN, unheard : BOOLEAN]

(* What holds of a page: the options are those the renderer has; the permalink is of     *)
(* what its view shows, and of a text that can be rendered; and what is not to come or    *)
(* unheard of is shown, and linked to.                                          *)
Fresh(p) == p.due = NotDue /\ ~p.unheard /\ ~p.failed
GoodPage(p) ==
  /\ p \in DemoType
  /\ p.md = p.opts
  /\ p.href # NoLink => /\ p.pane[p.href.view].text = p.href.text
                        /\ p.href.text \notin Unrenderable
  /\ Fresh(p) => p.pane[p.view] = rendered(p) /\ p.href = linkTo(p)

(* The page as the browser has it is a page. *)
LEMMA DefaultsTyped ==
  /\ defaults \in Settings /\ Empty \in Output /\ fresh \in DemoType
  /\ "html" \in Views /\ NoLink \in Href /\ NotDue \in Due
<1>1. defaults \in Settings
  BY DEF defaults, Settings
<1>2. Empty \in Output
  BY <1>1, DemoAssumption DEF Empty, Output
<1>3. "html" \in Views /\ NoLink \in Href /\ NotDue \in Due
  BY DEF Views, Href, Due
<1>4. [v \in Views |-> Empty] \in [Views -> Output]
  BY <1>2
<1>5. fresh \in DemoType
  BY <1>1, <1>3, <1>4, DemoAssumption DEF fresh, DemoType
<1> QED BY <1>1, <1>2, <1>3, <1>5

(* Rendering gives an output, also where strict rendering knows no options. *)
LEMMA RenderedTyped ==
  ASSUME NEW p \in DemoType
  PROVE  rendered(p) \in Output
<1>1. p.text \in Texts /\ p.md \in Settings /\ p.opts \in Settings
  BY DEF DemoType
<1>2. ASSUME NEW k \in OptionKeys
      PROVE  (IF p.md["_strict"] THEN k = "_strict"
              ELSE IF k = "_highlight" THEN p.opts[k] ELSE p.md[k]) \in BOOLEAN
  <2>1. p.md[k] \in BOOLEAN /\ p.opts[k] \in BOOLEAN /\ (k = "_strict") \in BOOLEAN
    BY <1>1 DEF Settings
  <2> QED BY ONLY <2>1, Zenon
<1>3. [k \in OptionKeys |-> IF p.md["_strict"] THEN k = "_strict"
                            ELSE IF k = "_highlight" THEN p.opts[k] ELSE p.md[k]] \in Settings
  BY <1>2, Zenon DEF Settings
<1> QED BY <1>1, <1>3 DEF rendered, Output

(* The permalink of a page holds its text, its options and its view, unless *)
(* there is no text.                                                        *)
LEMMA LinkToTyped ==
  ASSUME NEW p \in DemoType
  PROVE  /\ linkTo(p) \in Href
         /\ linkTo(p) # NoLink => /\ linkTo(p).text = p.text /\ linkTo(p).view = p.view
                                  /\ linkTo(p).booleans = p.opts
<1>1. p.text \in Texts /\ p.opts \in Settings /\ p.view \in Views
  BY DEF DemoType
<1>2. CASE p.text = ""
  BY <1>2 DEF linkTo, Href
<1>3. CASE p.text # ""
  <2>1. linkTo(p) = [kind |-> "md3", readable |-> TRUE, text |-> p.text, isString |-> TRUE,
                     booleans |-> p.opts, _src |-> "", view |-> p.view]
    BY <1>3 DEF linkTo
  <2>2. PICK t \in Texts, o \in Settings, v \in Views : t = p.text /\ o = p.opts /\ v = p.view
    BY <1>1 DEF Settings
  <2>3. PICK l : l = [kind |-> "md3", readable |-> TRUE, text |-> t, isString |-> TRUE,
                      booleans |-> o, _src |-> "", view |-> v]
    OBVIOUS
  <2>4. linkTo(p) = l
    BY <2>1, <2>2, <2>3
  <2>5. l \in [kind : {"md3"}, readable : {TRUE}, text : Texts, isString : {TRUE},
               booleans : Settings, _src : {""}, view : Views]
    BY ONLY <2>3, t \in Texts, o \in Settings, v \in Views
  <2>6. l \in Href
    BY ONLY <2>5 DEF Href
  <2>7. l.text = t /\ l.view = v /\ l.booleans = o
    BY ONLY <2>3
  <2> QED BY ONLY <2>2, <2>4, <2>6, <2>7
<1> QED BY <1>2, <1>3

(* updateResult keeps a page good, and makes it so where only the text, the view or the  *)
(* time of the update have changed.                                           *)
Apt(p) ==
  /\ p \in DemoType
  /\ p.md = p.opts
  /\ p.href # NoLink => /\ p.pane[p.href.view].text = p.href.text
                        /\ p.href.text \notin Unrenderable

(* updateResult makes an apt page good, also when rendering throws; else the *)
(* active view shows the text and the permalink is of it.                    *)
LEMMA UpdateGood ==
  ASSUME NEW p, Apt(p), NEW q, q = updateResult(p)
  PROVE  /\ GoodPage(q) /\ q.text = p.text /\ q.opts = p.opts /\ q.view = p.view /\ q.md = p.md
         /\ p.text \notin Unrenderable => q.pane[q.view] = rendered(p) /\ q.href = linkTo(p)
<1>1. CASE p.text \in Unrenderable
  <2>1. q = [p EXCEPT !.failed = TRUE]
    BY <1>1 DEF updateResult
  <2>2. /\ q \in DemoType /\ q.md = p.md /\ q.opts = p.opts /\ q.href = p.href /\ q.pane = p.pane
        /\ q.failed = TRUE /\ q.text = p.text /\ q.view = p.view
    BY <2>1 DEF Apt, DemoType
  <2> QED BY <1>1, <2>2 DEF Apt, GoodPage, Fresh
<1>2. CASE p.text \notin Unrenderable
  <2>1. PICK r \in Output : r = rendered(p)
    BY RenderedTyped DEF Apt
  <2>2. PICK l \in Href : l = linkTo(p) /\ (l # NoLink => l.text = p.text /\ l.view = p.view)
    BY LinkToTyped DEF Apt
  <2>3. q = [p EXCEPT !.pane[p.view] = r, !.href = l, !.failed = FALSE, !.unheard = FALSE]
    BY <1>2, <2>1, <2>2 DEF updateResult
  <2>4. p \in DemoType /\ p.view \in Views /\ p.pane \in [Views -> Output] /\ p.md = p.opts
    BY DEF Apt, DemoType
  <2>5. PICK pane : pane = [p.pane EXCEPT ![p.view] = r]
    OBVIOUS
  <2>6. pane \in [Views -> Output] /\ pane[p.view] = r
    BY <2>4, <2>5
  <2>7. q = [[[[p EXCEPT !.pane = pane] EXCEPT !.href = l] EXCEPT !.failed = FALSE] EXCEPT !.unheard = FALSE]
    BY <2>3, <2>4, <2>5 DEF DemoType
  <2>8. /\ q \in DemoType /\ q.pane = pane /\ q.href = l /\ q.failed = FALSE /\ q.unheard = FALSE
        /\ q.text = p.text /\ q.opts = p.opts /\ q.view = p.view /\ q.md = p.md
    BY ONLY <2>4, <2>6, <2>7, l \in Href DEF DemoType
  <2>9. rendered(q) = r /\ linkTo(q) = l
    <3>1. rendered(q) = rendered(p)
      BY <2>8 DEF rendered
    <3>2. linkTo(q) = linkTo(p)
      BY <2>8 DEF linkTo
    <3> QED BY <2>1, <2>2, <3>1, <3>2
  <2>10. r.text = p.text
    BY <2>1 DEF rendered
  <2> QED BY <1>2, <2>1, <2>2, <2>4, <2>6, <2>8, <2>9, <2>10 DEF GoodPage, Fresh
<1> QED BY <1>1, <1>2

(* A good page is apt. *)
LEMMA GoodApt == ASSUME NEW p, GoodPage(p) PROVE Apt(p)
BY DEF GoodPage, Apt

(* Setting the options anew, and a change of the text, the view or the time of the update. *)
LEMMA InitedApt ==
  ASSUME NEW p \in DemoType,
         p.href # NoLink => /\ p.pane[p.href.view].text = p.href.text
                            /\ p.href.text \notin Unrenderable
  PROVE  /\ Apt(mdInit(p)) /\ mdInit(p).text = p.text /\ mdInit(p).opts = p.opts
         /\ mdInit(p).view = p.view
<1>1. PICK o \in Settings : o = p.opts
  BY DEF DemoType
<1>2. PICK q : q = [p EXCEPT !.md = o]
  OBVIOUS
<1>3. mdInit(p) = q
  BY <1>1, <1>2 DEF mdInit
<1>4. /\ q \in DemoType /\ q.md = o /\ q.opts = p.opts /\ q.href = p.href /\ q.pane = p.pane
      /\ q.text = p.text /\ q.view = p.view
  BY ONLY <1>1, <1>2, p \in DemoType DEF DemoType
<1>5. Apt(q)
  BY <1>1, <1>4 DEF Apt
<1> QED BY <1>3, <1>4, <1>5

(* A change of the text, the view or the time of the update leaves a page *)
(* apt: neither a pane nor the permalink is touched.                      *)
LEMMA FieldsApt ==
  ASSUME NEW p, Apt(p), NEW t \in Texts, NEW v \in Views, NEW d \in Due
  PROVE  /\ Apt([p EXCEPT !.text = t]) /\ Apt([p EXCEPT !.view = v]) /\ Apt([p EXCEPT !.due = d])
         /\ [p EXCEPT !.text = t].due = p.due
         /\ [p EXCEPT !.view = v].view = v
<1>1. p \in DemoType
  BY DEF Apt
<1>2. PICK q : q = [p EXCEPT !.text = t]
  OBVIOUS
<1>3. /\ q \in DemoType /\ q.md = p.md /\ q.opts = p.opts /\ q.href = p.href /\ q.pane = p.pane
      /\ q.due = p.due
  BY ONLY <1>1, <1>2, t \in Texts DEF DemoType
<1>4. PICK r : r = [p EXCEPT !.view = v]
  OBVIOUS
<1>5. /\ r \in DemoType /\ r.md = p.md /\ r.opts = p.opts /\ r.href = p.href /\ r.pane = p.pane
      /\ r.view = v
  BY ONLY <1>1, <1>4, v \in Views DEF DemoType
<1>6. PICK s : s = [p EXCEPT !.due = d]
  OBVIOUS
<1>7. /\ s \in DemoType /\ s.md = p.md /\ s.opts = p.opts /\ s.href = p.href /\ s.pane = p.pane
  BY ONLY <1>1, <1>6, d \in Due DEF DemoType
<1>8. Apt(q) /\ Apt(r) /\ Apt(s)
  BY <1>3, <1>5, <1>7 DEF Apt
<1> QED BY <1>2, <1>3, <1>4, <1>5, <1>6, <1>8

(* A page that is not settled is good as soon as it is apt.                        *)
LEMMA AptGood == ASSUME NEW p, Apt(p), ~Fresh(p) PROVE GoodPage(p)
BY DEF Apt, GoodPage

(* A link that can be loaded.                                                     *)
Loadable(link) ==
  loads(link) => /\ link.isString => link.text \in Texts
                 /\ \A k \in DOMAIN link.booleans : link.booleans[k] \in BOOLEAN

(* What updateResult writes as a permalink loadPermalink can read, field by *)
(* field.                                                                   *)
LEMMA HrefLoadable ==
  ASSUME NEW l \in Href
  PROVE  /\ Loadable(l)
         /\ l # NoLink =>
              /\ loads(l) /\ l.isString = TRUE /\ l.text \in Texts /\ l.booleans \in Settings
              /\ l.view \in Views
<1>1. CASE l = NoLink
  BY <1>1 DEF Loadable, loads, NoLink
<1>2. CASE l # NoLink
  <2>1. l \in [kind : {"md3"}, readable : {TRUE}, text : Texts, isString : {TRUE},
               booleans : Settings, _src : {""}, view : Views]
    BY <1>2 DEF Href
  <2>2. /\ l.kind = "md3" /\ l.readable = TRUE /\ l.isString = TRUE /\ l.text \in Texts
        /\ l.booleans \in Settings /\ l.view \in Views
    BY ONLY <2>1
  <2>3. \A k \in DOMAIN l.booleans : l.booleans[k] \in BOOLEAN
    BY <2>2 DEF Settings
  <2> QED BY <1>2, <2>2, <2>3 DEF Loadable, loads
<1> QED BY <1>1, <1>2

(* loadPermalink gives a page, with the text, the options and the view of the *)
(* link where these are of the right types.                                   *)
LEMMA LoadPermalinkTyped ==
  ASSUME NEW link, Loadable(link), NEW q, q = loadPermalink(fresh, link)
  PROVE  /\ q \in DemoType /\ q.href = NoLink
         /\ loads(link) /\ link.isString = TRUE => q.text = link.text
         /\ loads(link) /\ link.booleans \in Settings => q.opts = link.booleans
         /\ loads(link) /\ link.view \in Views => q.view = link.view
<1>1. fresh \in DemoType /\ fresh.href = NoLink
  BY DefaultsTyped DEF fresh
<1>2. CASE ~loads(link)
  BY <1>1, <1>2 DEF loadPermalink
<1>3. CASE loads(link)
  <2>1. PICK t \in Texts : t = IF link.isString THEN link.text ELSE fresh.text
    BY <1>1, <1>3 DEF Loadable, DemoType
  <2>2. PICK o : o = [k \in OptionKeys |-> IF k \in DOMAIN link.booleans
                                           THEN link.booleans[k] ELSE fresh.opts[k]]
    OBVIOUS
  <2>3. o \in Settings
    <3>1. fresh.opts \in Settings
      BY <1>1 DEF DemoType
    <3>2. ASSUME NEW k \in OptionKeys
          PROVE  (IF k \in DOMAIN link.booleans THEN link.booleans[k] ELSE fresh.opts[k]) \in BOOLEAN
      <4>1. k \in DOMAIN link.booleans => link.booleans[k] \in BOOLEAN
        BY <1>3, Zenon DEF Loadable
      <4>2. fresh.opts[k] \in BOOLEAN
        BY <3>1 DEF Settings
      <4> QED BY ONLY <4>1, <4>2, Zenon
    <3> QED BY <2>2, <3>2, Zenon DEF Settings
  <2>4. PICK v \in Views : v = sanitized(viewOf(fresh, link))
    BY DefaultsTyped DEF sanitized
  <2>5. q = [[[fresh EXCEPT !.text = t] EXCEPT !.opts = o] EXCEPT !.view = v]
    <3>1. q = [fresh EXCEPT !.text = t, !.opts = o, !.view = v]
      BY <1>3, <2>1, <2>2, <2>4, Zenon DEF loadPermalink
    <3> QED BY <3>1
  <2>6. q \in DemoType /\ q.href = fresh.href /\ q.text = t /\ q.opts = o /\ q.view = v
    BY ONLY <1>1, <2>3, <2>5, t \in Texts, v \in Views DEF DemoType
  <2>7. link.isString = TRUE => t = link.text
    BY <2>1
  <2>8. ASSUME link.booleans \in Settings PROVE o = link.booleans
    <3>1. PICK ob \in Settings : ob = link.booleans
      BY <2>8
    <3>2. o = [k \in OptionKeys |-> ob[k]]
      BY <2>2, <3>1 DEF Settings
    <3> QED BY <3>1, <3>2 DEF Settings
  <2>9. ASSUME link.view \in Views PROVE v = link.view
    <3>1. link.view # ""
      BY <2>9 DEF Views
    <3>2. viewOf(fresh, link) = link.view
      BY <3>1 DEF viewOf
    <3> QED BY <2>4, <2>9, <3>2 DEF sanitized
  <2> QED BY <1>1, <2>6, <2>7, <2>8, <2>9
<1> QED BY <1>2, <1>3

(* A page that is loaded is good, and shows what its link says, if that can *)
(* be rendered.                                                             *)
LEMMA LoadedGood ==
  ASSUME NEW link, Loadable(link), NEW q, q = loaded(link)
  PROVE  /\ GoodPage(q)
         /\ loads(link) /\ link.isString = TRUE => q.text = link.text
         /\ loads(link) /\ link.booleans \in Settings => q.opts = link.booleans
         /\ loads(link) /\ link.view \in Views => q.view = link.view
         /\ q.text \notin Unrenderable => q.pane[q.view] = rendered(q)
<1>1. PICK r : r = loadPermalink(fresh, link)
  OBVIOUS
<1>2. /\ r \in DemoType /\ r.href = NoLink
      /\ loads(link) /\ link.isString = TRUE => r.text = link.text
      /\ loads(link) /\ link.booleans \in Settings => r.opts = link.booleans
      /\ loads(link) /\ link.view \in Views => r.view = link.view
  BY <1>1, LoadPermalinkTyped
<1>3. PICK m : m = mdInit(r)
  OBVIOUS
<1>4. Apt(m) /\ m.text = r.text /\ m.opts = r.opts /\ m.view = r.view
  BY <1>2, <1>3, InitedApt
<1>5. q = updateResult(m)
  BY <1>1, <1>3 DEF loaded
<1>6. /\ GoodPage(q) /\ q.text = m.text /\ q.opts = m.opts /\ q.view = m.view /\ q.md = m.md
      /\ m.text \notin Unrenderable => q.pane[q.view] = rendered(m)
  BY <1>4, <1>5, UpdateGood
<1>7. rendered(q) = rendered(m)
  BY <1>6 DEF rendered
<1> QED BY <1>2, <1>4, <1>6, <1>7

(* So it is with links from elsewhere. *)
LEMMA LinksLoadable == ASSUME NEW link \in Links PROVE Loadable(link)
BY DemoAssumption, Zenon DEF Loadable

(* The page begins good: without a hash it shows the text it comes with. *)
LEMMA PageStarts == PageInit => GoodPage(page)
<1>1. Loadable(NoLink)
  BY DefaultsTyped, HrefLoadable
<1> QED BY <1>1, LoadedGood DEF PageInit

(* An event makes the update due, within its bounds. *)
LEMMA AgainDue ==
  ASSUME NEW d \in Due
  PROVE  again(d) \in Due /\ again(d) # NotDue
<1>1. WaitTicks \in Nat /\ MaxWaitTicks \in Nat
  BY DemoAssumption
<1>2. PICK w \in 0..WaitTicks, m \in 0..MaxWaitTicks : again(d) = [wait |-> w, maxWait |-> m]
  <2>1. CASE d = NotDue
    BY <1>1, <2>1 DEF again
  <2>2. CASE d # NotDue
    <3>1. d.maxWait \in 0..MaxWaitTicks
      BY <2>2 DEF Due
    <3> QED BY <1>1, <2>2, <3>1 DEF again
  <2> QED BY <2>1, <2>2
<1>3. [wait |-> w, maxWait |-> m] \in [wait : 0..WaitTicks, maxWait : 0..MaxWaitTicks]
  OBVIOUS
<1>4. w # -1
  BY <1>1
<1>5. [wait |-> w, maxWait |-> m] # [wait |-> -1, maxWait |-> -1]
  BY <1>4
<1> QED BY <1>2, <1>3, <1>5 DEF Due, NotDue

(* A tick of a wait that is not over leaves it due. *)
LEMMA TickedDue ==
  ASSUME NEW d \in Due, d # NotDue, d.wait > 0, d.maxWait > 0
  PROVE  [wait |-> d.wait - 1, maxWait |-> d.maxWait - 1] \in Due \ {NotDue}
<1>1. WaitTicks \in Nat /\ MaxWaitTicks \in Nat
  BY DemoAssumption
<1>2. d.wait \in 0..WaitTicks /\ d.maxWait \in 0..MaxWaitTicks
  BY DEF Due
<1>3. PICK w \in 0..WaitTicks, m \in 0..MaxWaitTicks : w = d.wait - 1 /\ m = d.maxWait - 1
  BY <1>1, <1>2
<1>4. [wait |-> w, maxWait |-> m] \in [wait : 0..WaitTicks, maxWait : 0..MaxWaitTicks]
  OBVIOUS
<1>5. w # -1
  BY <1>1
<1>6. [wait |-> w, maxWait |-> m] # [wait |-> -1, maxWait |-> -1]
  BY <1>5
<1> QED BY <1>3, <1>4, <1>6 DEF Due, NotDue

(* Every handler of the page leaves it good. *)
LEMMA PageKeeps == GoodPage(page) /\ PageNext => GoodPage(page')
<1> SUFFICES ASSUME GoodPage(page), PageNext PROVE GoodPage(page')
  OBVIOUS
<1>1. PICK p : p = page
  OBVIOUS
<1>2. GoodPage(p) /\ Apt(p) /\ p \in DemoType
  BY <1>1, GoodApt DEF GoodPage
<1>3. PICK d \in Due : d = p.due
  BY <1>2 DEF DemoType
<1>4. CASE Edit
  <2>1. PICK t \in Texts : page' = [page EXCEPT !.text = t, !.due = again(@)]
    BY <1>4 DEF Edit
  <2>2. PICK e \in Due : e = again(d) /\ e # NotDue
    BY AgainDue
  <2>3. PICK r : r = [p EXCEPT !.text = t]
    OBVIOUS
  <2>4. PICK q : q = [r EXCEPT !.due = e]
    OBVIOUS
  <2>5. page' = q
    BY <1>1, <1>2, <1>3, <2>1, <2>2, <2>3, <2>4 DEF DemoType
  <2>6. Apt(r)
    BY <1>2, <2>3, FieldsApt, DefaultsTyped
  <2>7. Apt(q)
    BY <2>4, <2>6, FieldsApt, DefaultsTyped, t \in Texts
  <2>8. q.due = e
    BY <2>4, <2>6 DEF Apt, DemoType
  <2>9. ~Fresh(q)
    BY <2>2, <2>8 DEF Fresh
  <2> QED BY <2>5, <2>7, <2>9, AptGood
<1>5. CASE EditUnheard
  <2>1. PICK t \in Texts : page' = [page EXCEPT !.text = t, !.unheard = TRUE]
    BY <1>5 DEF EditUnheard
  <2>2. PICK r : r = [p EXCEPT !.text = t]
    OBVIOUS
  <2>3. Apt(r)
    BY <1>2, <2>2, FieldsApt, DefaultsTyped
  <2>4. PICK q : q = [r EXCEPT !.unheard = TRUE]
    OBVIOUS
  <2>5. page' = q
    BY <1>1, <1>2, <2>1, <2>2, <2>4 DEF DemoType
  <2>6. r \in DemoType
    BY <2>3 DEF Apt
  <2>7. /\ q \in DemoType /\ q.md = r.md /\ q.opts = r.opts /\ q.href = r.href
        /\ q.pane = r.pane /\ q.unheard = TRUE
    BY ONLY <2>4, <2>6 DEF DemoType
  <2>8. Apt(q) /\ ~Fresh(q)
    BY <2>3, <2>7 DEF Apt, Fresh
  <2> QED BY <2>5, <2>8, AptGood
<1>6. CASE Tick
  <2>1. PICK e \in Due : e # NotDue /\ e = [wait |-> d.wait - 1, maxWait |-> d.maxWait - 1]
    <3>1. d # NotDue /\ d.wait > 0 /\ d.maxWait > 0
      BY <1>1, <1>3, <1>6 DEF Tick
    <3> QED BY <3>1, TickedDue
  <2>2. PICK q : q = [p EXCEPT !.due = e]
    OBVIOUS
  <2>3. page' = q
    BY <1>1, <1>2, <1>3, <1>6, <2>1, <2>2 DEF Tick, DemoType
  <2>4. Apt(q)
    BY <1>2, <2>2, FieldsApt, DemoAssumption, DefaultsTyped
  <2>5. q.due = e
    BY <1>2, <2>2 DEF DemoType
  <2> QED BY <2>1, <2>3, <2>4, <2>5, AptGood DEF Fresh
<1>7. CASE Update
  <2>1. PICK q : q = [p EXCEPT !.due = NotDue]
    OBVIOUS
  <2>2. page' = updateResult(q)
    BY <1>1, <1>7, <2>1 DEF Update
  <2>3. Apt(q)
    BY <1>2, <2>1, FieldsApt, DemoAssumption, DefaultsTyped
  <2> QED BY <2>2, <2>3, UpdateGood
<1>8. CASE OptionChange
  <2>1. PICK k \in OptionKeys : page' = updateResult(mdInit([page EXCEPT !.opts[k] = ~@]))
    BY <1>8 DEF OptionChange
  <2>2. PICK os \in Settings : os = p.opts
    BY <1>2 DEF DemoType
  <2>3. PICK o : o = [os EXCEPT ![k] = ~os[k]]
    OBVIOUS
  <2>4. o \in Settings
    BY <2>3 DEF Settings
  <2>5. PICK q : q = [p EXCEPT !.opts = o]
    OBVIOUS
  <2>6. page' = updateResult(mdInit(q))
    <3>1. q = [p EXCEPT !.opts[k] = ~@]
      BY <1>2, <2>2, <2>3, <2>5 DEF DemoType, Settings
    <3> QED BY <1>1, <2>1, <3>1
  <2>7. q \in DemoType /\ q.href = p.href /\ q.pane = p.pane
    BY ONLY <1>2, <2>4, <2>5 DEF DemoType
  <2>8. PICK m : m = mdInit(q)
    OBVIOUS
  <2>9. Apt(m)
    <3>1. q.href # NoLink => /\ q.pane[q.href.view].text = q.href.text
                             /\ q.href.text \notin Unrenderable
      BY <1>2, <2>7 DEF Apt
    <3> QED BY <2>7, <2>8, <3>1, InitedApt
  <2> QED BY <2>6, <2>8, <2>9, UpdateGood
<1>9. CASE Clear
  <2>1. PICK q : q = [p EXCEPT !.text = ""]
    OBVIOUS
  <2>2. Apt(q)
    BY <1>2, <2>1, FieldsApt, DemoAssumption, DefaultsTyped
  <2>3. page' = updateResult(q)
    BY <1>1, <1>9, <2>1 DEF Clear
  <2> QED BY <2>2, <2>3, UpdateGood
<1>10. CASE ChooseView
  <2>1. PICK v \in Views : page' = updateResult([page EXCEPT !.view = v])
    BY <1>10 DEF ChooseView, setResultView
  <2>2. PICK q : q = [p EXCEPT !.view = v]
    OBVIOUS
  <2>3. Apt(q)
    BY <1>2, <2>2, FieldsApt, DemoAssumption, DefaultsTyped
  <2> QED BY <1>1, <2>1, <2>2, <2>3, UpdateGood
<1>11. CASE OpenPermalink
  <2>1. PICK l \in Href : l = p.href
    BY <1>2 DEF DemoType
  <2>2. page' = loaded(l)
    BY <1>1, <1>11, <2>1 DEF OpenPermalink
  <2> QED BY <2>2, HrefLoadable, LoadedGood
<1>12. CASE \E link \in Links : OpenLink(link)
  <2>1. PICK link \in Links : page' = loaded(link)
    BY <1>12 DEF OpenLink
  <2> QED BY <2>1, LinksLoadable, LoadedGood
<1> QED BY <1>4, <1>5, <1>6, <1>7, <1>8, <1>9, <1>10, <1>11, <1>12 DEF PageNext

(* A good page shows the text as it is, and its permalink is of what it *)
(* shows.                                                               *)
LEMMA GoodSound == GoodPage(page) => PageTypeOK /\ ShownIsCurrent /\ LinkIsOfShown
<1> SUFFICES ASSUME GoodPage(page) PROVE PageTypeOK /\ ShownIsCurrent /\ LinkIsOfShown
  OBVIOUS
<1>1. PICK p : p = page
  OBVIOUS
<1>2. GoodPage(p) /\ p \in DemoType /\ p.md = p.opts
  BY <1>1 DEF GoodPage
<1>3. PageTypeOK
  <2>1. /\ p.text \in Texts /\ p.opts \in Settings /\ p.md \in Settings /\ p.view \in Views
        /\ p.pane \in [Views -> Output] /\ p.due \in Due
    BY <1>2 DEF DemoType
  <2>2. p.due = NotDue \/ (p.due.wait \in 0..WaitTicks /\ p.due.maxWait \in 0..MaxWaitTicks)
    BY <2>1 DEF Due
  <2> QED BY <1>1, <2>1, <2>2 DEF PageTypeOK, Settings
<1>4. ShownIsCurrent
  <2>1. PICK q : q = [p EXCEPT !.md = p.opts]
    OBVIOUS
  <2>2. q = p
    BY <1>2, <2>1 DEF DemoType
  <2>3. expected = rendered(p)
    BY <1>1, <2>1, <2>2 DEF expected
  <2> QED BY <1>1, <1>2, <2>3 DEF ShownIsCurrent, GoodPage, Fresh
<1>5. LinkIsOfShown
  BY <1>1, <1>2 DEF LinkIsOfShown, GoodPage
<1> QED BY <1>3, <1>4, <1>5

(* A good page with nothing to come is the same when it is loaded by its own *)
(* permalink.                                                                *)
LEMMA PermalinkRestores ==
  GoodPage(page) /\ OpenPermalink /\ page.href # NoLink /\ page.due = NotDue
    /\ ~page.unheard /\ ~page.failed =>
    /\ page'.text = page.text /\ page'.opts = page.opts /\ page'.view = page.view
    /\ page'.pane[page.view] = page.pane[page.view]
<1> SUFFICES ASSUME GoodPage(page), OpenPermalink, page.href # NoLink, page.due = NotDue,
                    ~page.unheard, ~page.failed
             PROVE  /\ page'.text = page.text /\ page'.opts = page.opts /\ page'.view = page.view
                    /\ page'.pane[page.view] = page.pane[page.view]
  OBVIOUS
<1>1. PICK p : p = page
  OBVIOUS
<1>2. PICK q : q = page'
  OBVIOUS
<1>3. GoodPage(p) /\ Fresh(p) /\ p \in DemoType /\ p.md = p.opts
  BY <1>1 DEF GoodPage, Fresh
<1>4. PICK l \in Href : l = p.href
  BY <1>3 DEF DemoType
<1>5. l # NoLink /\ q = loaded(l)
  BY <1>1, <1>2, <1>4 DEF OpenPermalink
<1>6. l = linkTo(p) /\ p.pane[p.view] = rendered(p) /\ l.text \notin Unrenderable
  BY <1>3, <1>4, <1>5 DEF GoodPage
<1>7. l.text = p.text /\ l.view = p.view /\ l.booleans = p.opts
  BY <1>3, <1>5, <1>6, LinkToTyped
<1>8. /\ GoodPage(q) /\ q.text = l.text /\ q.opts = l.booleans /\ q.view = l.view
      /\ q.text \notin Unrenderable => q.pane[q.view] = rendered(q)
  BY <1>5, HrefLoadable, LoadedGood
<1>9. q.md = q.opts
  BY <1>8 DEF GoodPage
<1>10. rendered(q) = rendered(p)
  BY <1>3, <1>7, <1>8, <1>9 DEF rendered
<1> QED BY <1>1, <1>2, <1>6, <1>7, <1>8, <1>10

-----------------------------------------------------------------------------

(* Lists: one of three, one as a function, the items of one, two joined, one *)
(* of one, and two that agree place by place.                                *)
LEMMA Triples ==
  ASSUME NEW S, NEW p \in S, NEW h \in S, NEW l \in S
  PROVE  /\ <<p, h, l>> \in Seq(S) /\ Len(<<p, h, l>>) = 3
         /\ <<p, h, l>>[1] = p /\ <<p, h, l>>[2] = h /\ <<p, h, l>>[3] = l
OBVIOUS

(* A function over 1..n is a list of n. *)
LEMMA ListOf ==
  ASSUME NEW n \in Nat, NEW S, NEW e, e \in [1..n -> S]
  PROVE  e \in Seq(S) /\ Len(e) = n
OBVIOUS

(* A list of n is a function over 1..n. *)
LEMMA ItemsOf ==
  ASSUME NEW S, NEW e \in Seq(S), NEW n \in Nat, Len(e) = n
  PROVE  e \in [1..n -> S] /\ \A j \in 1..n : e[j] \in S
OBVIOUS

(* A digit that is written is read as what it was. *)
LEMMA HexDigitRead ==
  ASSUME NEW n \in 0..15
  PROVE  hexDigit(n) \in Digits /\ hexDigit(n) \in 48..70 /\ digitOf(hexDigit(n)) = n
BY DEF hexDigit, digitOf, Digits

(* The escape of a byte: a percent sign and the digits of its halves. *)
LEMMA EscapedByte ==
  ASSUME NEW x \in Byte
  PROVE  /\ x \div 16 \in 0..15 /\ x % 16 \in 0..15
         /\ x = (x \div 16) * 16 + (x % 16)
         /\ escaped(x) \in Seq(Unit) /\ Len(escaped(x)) = 3
         /\ escaped(x)[1] = Percent
         /\ escaped(x)[2] = hexDigit(x \div 16) /\ escaped(x)[3] = hexDigit(x % 16)
<1>1. x \div 16 \in 0..15 /\ x % 16 \in 0..15 /\ x = (x \div 16) * 16 + (x % 16)
  BY DEF Byte
<1>2. hexDigit(x \div 16) \in Unit /\ hexDigit(x % 16) \in Unit /\ Percent \in Unit
  <2>1. hexDigit(x \div 16) \in 48..70 /\ hexDigit(x % 16) \in 48..70
    BY <1>1, HexDigitRead
  <2>2. 48..70 \subseteq Unit /\ Percent \in Unit
    BY DEF Percent, Unit, LastUnit
  <2> QED BY <2>1, <2>2, Zenon
<1> QED BY <1>1, <1>2, Triples DEF escaped

(* The escapes of bytes are three times as many, each at its place. *)
LEMMA EscapesOf ==
  ASSUME NEW s \in Seq(Byte)
  PROVE  /\ escapes(s) \in Seq(Unit) /\ Len(escapes(s)) = 3 * Len(s)
         /\ \A k \in 1..Len(s) : /\ escapes(s)[3 * k - 2] = Percent
                                 /\ escapes(s)[3 * k - 1] = hexDigit(s[k] \div 16)
                                 /\ escapes(s)[3 * k] = hexDigit(s[k] % 16)
<1>1. PICK n \in Nat : n = Len(s)
  OBVIOUS
<1>2. \A k \in 1..(3 * n) : (k + 2) \div 3 \in 1..n /\ 1 + ((k + 2) % 3) \in 1..3
  BY ONLY n \in Nat
<1>3. \A j \in 1..n : s[j] \in Byte
  BY <1>1
<1>4. ASSUME NEW k \in 1..(3 * n)
      PROVE  escaped(s[(k + 2) \div 3])[1 + ((k + 2) % 3)] \in Unit
  <2>0. s[(k + 2) \div 3] \in Byte
    BY <1>2, <1>3
  <2>1. escaped(s[(k + 2) \div 3]) \in Seq(Unit) /\ Len(escaped(s[(k + 2) \div 3])) = 3
    BY <2>0, EscapedByte
  <2>2. \A j \in 1..3 : escaped(s[(k + 2) \div 3])[j] \in Unit
    BY <2>1, ItemsOf
  <2> QED BY ONLY <1>2, <2>1, <2>2, k \in 1..(3 * n)
<1>5. PICK e : e = [k \in 1..(3 * n) |-> escaped(s[(k + 2) \div 3])[1 + ((k + 2) % 3)]]
  OBVIOUS
<1>6. e = escapes(s)
  BY <1>1, <1>5, Zenon DEF escapes
<1>7. PICK m \in Nat : m = 3 * n
  OBVIOUS
<1>8. e \in [1..m -> Unit]
  BY ONLY <1>4, <1>5, <1>7
<1>9. e \in Seq(Unit) /\ Len(e) = 3 * n
  BY <1>7, <1>8, ListOf
<1>10. ASSUME NEW k \in 1..n
       PROVE  /\ e[3 * k - 2] = Percent
              /\ e[3 * k - 1] = hexDigit(s[k] \div 16)
              /\ e[3 * k] = hexDigit(s[k] % 16)
  <2>1. /\ 3 * k - 2 \in 1..(3 * n) /\ 3 * k - 1 \in 1..(3 * n) /\ 3 * k \in 1..(3 * n)
        /\ ((3 * k - 2) + 2) \div 3 = k /\ ((3 * k - 1) + 2) \div 3 = k /\ (3 * k + 2) \div 3 = k
        /\ 1 + (((3 * k - 2) + 2) % 3) = 1 /\ 1 + (((3 * k - 1) + 2) % 3) = 2
        /\ 1 + ((3 * k + 2) % 3) = 3
    BY ONLY n \in Nat, k \in 1..n
  <2>2. \A j \in 1..(3 * n) : e[j] = escaped(s[(j + 2) \div 3])[1 + ((j + 2) % 3)]
    BY <1>5, Zenon
  <2>3. e[3 * k - 2] = escaped(s[k])[1]
    BY <2>1, <2>2
  <2>4. e[3 * k - 1] = escaped(s[k])[2]
    BY <2>1, <2>2
  <2>5. e[3 * k] = escaped(s[k])[3]
    BY <2>1, <2>2
  <2>6. s[k] \in Byte
    BY <1>3
  <2>7. /\ escaped(s[k])[1] = Percent
        /\ escaped(s[k])[2] = hexDigit(s[k] \div 16) /\ escaped(s[k])[3] = hexDigit(s[k] % 16)
    BY <2>6, EscapedByte
  <2> QED BY ONLY <2>3, <2>4, <2>5, <2>7
<1> QED BY <1>1, <1>6, <1>9, <1>10

(* The digits of a number to the base of 64. *)
LEMMA SixBits ==
  ASSUME NEW a \in Nat, NEW m \in 0..63
  PROVE  (64 * a + m) \div 64 = a /\ (64 * a + m) % 64 = m
BY SMT

(* Every number has such digits. *)
LEMMA SixBitsOf ==
  ASSUME NEW c \in Nat
  PROVE  c \div 64 \in Nat /\ c % 64 \in 0..63 /\ c = 64 * (c \div 64) + (c % 64)
BY SMT

(* A byte that continues a sequence carries six bits and is known as one. *)
LEMMA Continues ==
  ASSUME NEW m \in 0..63
  PROVE  128 + m \in 128..191 /\ (128 + m) \div 64 = 2 /\ (128 + m) % 64 = m
BY SMT

(* Two bytes: the first announces one to follow, and both together are the *)
(* code point.                                                             *)
LEMMA TwoBytes ==
  ASSUME NEW c \in Nat, 128 <= c, c < 2048, NEW p, NEW q, p = 192 + (c \div 64), q = 128 + (c % 64)
  PROVE  /\ p \in 192..223 /\ q \in 128..191
         /\ p \div 32 = 6 /\ q \div 64 = 2
         /\ (p % 32) * 64 + (q % 64) = c
BY SMT

(* Leaving off digits one by one. *)
LEMMA DivTwice ==
  ASSUME NEW c \in Nat
  PROVE  /\ c \div 4096 = (c \div 64) \div 64
         /\ c \div 262144 = ((c \div 64) \div 64) \div 64
<1>1. PICK d, m \in Nat : d = c \div 64 /\ m = c % 64 /\ m < 64 /\ c = 64 * d + m
  BY SixBitsOf
<1>2. PICK e, n \in Nat : e = d \div 64 /\ n = d % 64 /\ n < 64 /\ d = 64 * e + n
  BY SixBitsOf
<1>3. PICK f, o \in Nat : f = e \div 64 /\ o = e % 64 /\ o < 64 /\ e = 64 * f + o
  BY SixBitsOf
<1>4. c = 4096 * e + (64 * n + m) /\ 64 * n + m < 4096
  BY <1>1, <1>2
<1>5. c \div 4096 = e
  BY <1>4, SMT
<1>6. c = 262144 * f + (4096 * o + 64 * n + m) /\ 4096 * o + 64 * n + m < 262144
  BY <1>4, <1>3, <1>2, <1>1, SMT
<1>7. c \div 262144 = f
  BY <1>6, SMT
<1> QED BY <1>1, <1>2, <1>3, <1>5, <1>7

(* Three bytes, for what two cannot hold. *)
LEMMA ThreeBytes ==
  ASSUME NEW c \in Nat, 2048 <= c, c < 65536, NEW p, NEW q, NEW r, p = 224 + (c \div 4096),
         q = 128 + ((c \div 64) % 64), r = 128 + (c % 64)
  PROVE  /\ p \in 224..239 /\ q \in 128..191 /\ r \in 128..191
         /\ p \div 32 = 7 /\ p \div 16 = 14 /\ q \div 64 = 2 /\ r \div 64 = 2
         /\ (p % 16) * 4096 + (q % 64) * 64 + (r % 64) = c
<1>1. PICK d, m \in Nat : d = c \div 64 /\ m = c % 64 /\ m < 64 /\ c = 64 * d + m
  BY SixBitsOf
<1>2. PICK e, n \in Nat : e = d \div 64 /\ n = d % 64 /\ n < 64 /\ d = 64 * e + n
  BY SixBitsOf
<1>3. e = c \div 4096
  BY <1>1, <1>2, DivTwice
<1>4. e < 16
  BY <1>1, <1>2
<1>5. p = 224 + e /\ q = 128 + n /\ r = 128 + m
  BY <1>1, <1>2, <1>3
<1>6. p \in 224..239 /\ p \div 32 = 7 /\ p \div 16 = 14 /\ p % 16 = e
  BY <1>4, <1>5, SMT
<1>7. q \in 128..191 /\ r \in 128..191 /\ q \div 64 = 2 /\ r \div 64 = 2 /\ q % 64 = n /\ r % 64 = m
  BY <1>1, <1>2, <1>5, SMT
<1>8. e * 4096 + n * 64 + m = c
  BY <1>1, <1>2
<1> QED BY <1>6, <1>7, <1>8

(* Four bytes, for what is beyond 16 bits. *)
LEMMA FourBytes ==
  ASSUME NEW c \in Nat, 65536 <= c, c <= LastCode, NEW p, NEW q, NEW r, NEW t, p = 240 + (c \div 262144),
         q = 128 + ((c \div 4096) % 64), r = 128 + ((c \div 64) % 64), t = 128 + (c % 64)
  PROVE  /\ p \in 240..244 /\ q \in 128..191 /\ r \in 128..191 /\ t \in 128..191
         /\ p \div 32 = 7 /\ p \div 16 = 15 /\ p \div 8 = 30
         /\ q \div 64 = 2 /\ r \div 64 = 2 /\ t \div 64 = 2
         /\ (p % 8) * 262144 + (q % 64) * 4096 + (r % 64) * 64 + (t % 64) = c
<1>1. PICK d, m \in Nat : d = c \div 64 /\ m = c % 64 /\ m < 64 /\ c = 64 * d + m
  BY SixBitsOf
<1>2. PICK e, n \in Nat : e = d \div 64 /\ n = d % 64 /\ n < 64 /\ d = 64 * e + n
  BY SixBitsOf
<1>3. PICK f, o \in Nat : f = e \div 64 /\ o = e % 64 /\ o < 64 /\ e = 64 * f + o
  BY SixBitsOf
<1>4. e = c \div 4096 /\ f = c \div 262144
  BY <1>1, <1>2, <1>3, DivTwice
<1>5. c = 262144 * f + 4096 * o + 64 * n + m
  BY <1>1, <1>2, <1>3
<1>6. f <= 4
  BY <1>5, SMT DEF LastCode
<1>7. p = 240 + f /\ q = 128 + o /\ r = 128 + n /\ t = 128 + m
  BY <1>1, <1>2, <1>3, <1>4
<1>8. p \in 240..244 /\ p \div 32 = 7 /\ p \div 16 = 15 /\ p \div 8 = 30 /\ p % 8 = f
  BY <1>6, <1>7, SMT
<1>9. /\ q \in 128..191 /\ r \in 128..191 /\ t \in 128..191
      /\ q \div 64 = 2 /\ r \div 64 = 2 /\ t \div 64 = 2
      /\ q % 64 = o /\ r % 64 = n /\ t % 64 = m
  BY <1>1, <1>2, <1>3, <1>7, SMT
<1> QED BY <1>5, <1>8, <1>9, SMT


(* Ranges as inequalities. *)
LEMMA InRange ==
  ASSUME NEW x1 \in Int, NEW x2 \in Int
  PROVE  \A x : x \in x1..x2 <=> x \in Int /\ x1 <= x /\ x <= x2
OBVIOUS

(* The first halves of pairs. *)
LEMMA InHigh ==
  \A x : x \in High <=> x \in Int /\ 55296 <= x /\ x <= 56319
BY SMT DEF High

(* The second halves. *)
LEMMA InLow ==
  \A x : x \in Low <=> x \in Int /\ 56320 <= x /\ x <= 57343
BY SMT DEF Low

(* All 16-bit units. *)
LEMMA InUnit ==
  \A x : x \in Unit <=> x \in Int /\ 0 <= x /\ x <= 65535
<1>1. PICK m \in Int : m = LastUnit
  BY SMT DEF LastUnit
<1>2. Unit = 0..m
  BY <1>1 DEF Unit
<1>3. \A x : x \in 0..m <=> x \in Int /\ 0 <= x /\ x <= m
  BY InRange
<1>4. m = 65535
  BY <1>1, SMT DEF LastUnit
<1>5. \A x : x \in Unit <=> x \in Int /\ 0 <= x /\ x <= m
  BY <1>2, <1>3, Zenon
<1> QED BY ONLY <1>4, <1>5, SMT

(* The code point of a pair is beyond 16 bits, within Unicode, and splits *)
(* into the same pair.                                                    *)
LEMMA PairBack ==
  ASSUME NEW h \in High, NEW l \in Low
  PROVE  /\ pairValue(h, l) \in Nat /\ 65536 <= pairValue(h, l) /\ pairValue(h, l) <= LastCode
         /\ 55296 + ((pairValue(h, l) - 65536) \div 1024) = h
         /\ 56320 + ((pairValue(h, l) - 65536) % 1024) = l
<1>0. h \in Int /\ 55296 <= h /\ h <= 56319 /\ l \in Int /\ 56320 <= l /\ l <= 57343
  BY InHigh, InLow
<1>1. PICK x \in Nat : x = h - 55296 /\ x < 1024
  BY <1>0, SMT
<1>2. PICK y \in Nat : y = l - 56320 /\ y < 1024
  BY <1>0, SMT
<1>3. pairValue(h, l) = 65536 + x * 1024 + y
  BY <1>0, <1>1, <1>2, SMT DEF pairValue
<1>4. PICK v \in Nat : v = 1024 * x + y
  OBVIOUS
<1>5. v \div 1024 = x /\ v % 1024 = y
  BY <1>1, <1>2, <1>4, SMT
<1>6. pairValue(h, l) - 65536 = v
  BY <1>3, <1>4, SMT
<1>7. v < 1048576
  BY <1>1, <1>2, <1>4, SMT
<1>8. pairValue(h, l) = 65536 + v
  BY <1>3, <1>4, SMT
<1> QED BY <1>0, <1>1, <1>2, <1>4, <1>5, <1>6, <1>7, <1>8, SMT DEF LastCode

(* The text u stands in s after the first c places; the escapes of some bytes do. *)
At(s, c, u) == c + Len(u) <= Len(s) /\ \A k \in 1..Len(u) : s[c + k] = u[k]

(* The same, digit by digit, for the escapes of bytes. *)
EscapesAt(s, c, bytes) ==
  /\ c + 3 * Len(bytes) <= Len(s)
  /\ \A k \in 1..Len(bytes) : /\ s[c + (3 * k - 2)] = Percent
                              /\ s[c + (3 * k - 1)] = hexDigit(bytes[k] \div 16)
                              /\ s[c + 3 * k] = hexDigit(bytes[k] % 16)

(* If the escapes stand there, so do their digits. *)
LEMMA EscapesStand ==
  ASSUME NEW s, NEW c \in Nat, NEW bytes \in Seq(Byte), At(s, c, escapes(bytes))
  PROVE  EscapesAt(s, c, bytes)
<1>1. PICK e \in Seq(Unit) : e = escapes(bytes)
  BY EscapesOf
<1>2. PICK n \in Nat : n = Len(bytes)
  OBVIOUS
<1>3. /\ Len(e) = 3 * n
      /\ \A k \in 1..n : /\ e[3 * k - 2] = Percent
                         /\ e[3 * k - 1] = hexDigit(bytes[k] \div 16)
                         /\ e[3 * k] = hexDigit(bytes[k] % 16)
  BY <1>1, <1>2, EscapesOf
<1>4. c + 3 * n <= Len(s) /\ \A k \in 1..(3 * n) : s[c + k] = e[k]
  BY <1>1, <1>3 DEF At
<1>5. ASSUME NEW k \in 1..n
      PROVE  /\ s[c + (3 * k - 2)] = Percent
             /\ s[c + (3 * k - 1)] = hexDigit(bytes[k] \div 16)
             /\ s[c + 3 * k] = hexDigit(bytes[k] % 16)
  <2>1. 3 * k - 2 \in 1..(3 * n) /\ 3 * k - 1 \in 1..(3 * n) /\ 3 * k \in 1..(3 * n)
    BY ONLY n \in Nat, k \in 1..n
  <2> QED BY <1>3, <1>4, <2>1
<1> QED BY <1>2, <1>4, <1>5 DEF EscapesAt

(* An escape reads as the byte it was made of. *)
LEMMA EscapesRead ==
  ASSUME job.in \in Seq(Unit), NEW c \in Nat, NEW bytes \in Seq(Byte),
         EscapesAt(job.in, c, bytes), NEW k \in 1..Len(bytes)
  PROVE  isEscape(job.in, c + (3 * k - 2)) /\ byteAt(c + (3 * k - 2)) = bytes[k]
<1>1. PICK s \in Seq(Unit) : s = job.in
  OBVIOUS
<1>2. PICK n \in Nat : n = Len(bytes)
  OBVIOUS
<1>3. PICK p \in Nat : p = c + (3 * k - 2)
  BY <1>2
<1>4. p + 1 = c + (3 * k - 1) /\ p + 2 = c + 3 * k /\ p + 2 <= Len(s)
  BY <1>1, <1>2, <1>3 DEF EscapesAt
<1>5. PICK y \in Byte : y = bytes[k]
  OBVIOUS
<1>6. s[p] = Percent /\ s[p + 1] = hexDigit(y \div 16) /\ s[p + 2] = hexDigit(y % 16)
  BY <1>1, <1>3, <1>4, <1>5 DEF EscapesAt
<1>7. y \div 16 \in 0..15 /\ y % 16 \in 0..15 /\ y = (y \div 16) * 16 + (y % 16)
  BY EscapedByte
<1>8. /\ hexDigit(y \div 16) \in Digits /\ digitOf(hexDigit(y \div 16)) = y \div 16
      /\ hexDigit(y % 16) \in Digits /\ digitOf(hexDigit(y % 16)) = y % 16
  BY <1>7, HexDigitRead
<1>9. isEscape(s, p)
  BY <1>4, <1>6, <1>8 DEF isEscape
<1>10. byteAt(p) = digitOf(s[p + 1]) * 16 + digitOf(s[p + 2])
  BY <1>1, <1>9 DEF byteAt
<1>11. byteAt(p) = y
  BY <1>6, <1>7, <1>8, <1>10
<1> QED BY <1>1, <1>3, <1>5, <1>9, <1>11

(* A code point goes to bytes, from which the same comes back. *)
LEMMA Utf8One ==
  ASSUME NEW c \in Nat, c < 128
  PROVE  utf8(c) = <<c>>
BY SMT DEF utf8

(* A range of bytes. *)
LEMMA ByteRange ==
  ASSUME NEW p, NEW x \in Nat, NEW y \in 0..255, p \in x..y
  PROVE  p \in Byte
BY SMT DEF Byte

(* UTF-8 of two bytes. *)
LEMMA Utf8Two ==
  ASSUME NEW c \in Nat, 128 <= c, c < 2048
  PROVE  /\ utf8(c) \in Seq(Byte) /\ Len(utf8(c)) = 2
         /\ utf8(c)[1] \in 192..223 /\ utf8(c)[2] \in 128..191
         /\ utf8(c)[1] \div 32 = 6 /\ utf8(c)[2] \div 64 = 2
         /\ (utf8(c)[1] % 32) * 64 + (utf8(c)[2] % 64) = c
<1>1. PICK p, q : p = 192 + (c \div 64) /\ q = 128 + (c % 64)
  OBVIOUS
<1>2. utf8(c) = <<p, q>>
  BY <1>1, SMT DEF utf8, trail
<1>3. /\ p \in 192..223 /\ q \in 128..191 /\ p \div 32 = 6 /\ q \div 64 = 2
      /\ (p % 32) * 64 + (q % 64) = c
  BY <1>1, TwoBytes, SMT
<1>4. p \in Byte /\ q \in Byte
  BY ONLY <1>3, ByteRange
<1>5. <<p, q>> \in Seq(Byte) /\ Len(<<p, q>>) = 2 /\ <<p, q>>[1] = p /\ <<p, q>>[2] = q
  BY ONLY <1>4
<1> QED BY ONLY <1>2, <1>3, <1>5

(* UTF-8 of three bytes. *)
LEMMA Utf8Three ==
  ASSUME NEW c \in Nat, 2048 <= c, c < 65536
  PROVE  /\ utf8(c) \in Seq(Byte) /\ Len(utf8(c)) = 3
         /\ utf8(c)[1] \in 224..239 /\ utf8(c)[2] \in 128..191 /\ utf8(c)[3] \in 128..191
         /\ utf8(c)[1] \div 32 = 7 /\ utf8(c)[1] \div 16 = 14
         /\ utf8(c)[2] \div 64 = 2 /\ utf8(c)[3] \div 64 = 2
         /\ (utf8(c)[1] % 16) * 4096 + (utf8(c)[2] % 64) * 64 + (utf8(c)[3] % 64) = c
<1>1. PICK p, q, r : p = 224 + (c \div 4096) /\ q = 128 + ((c \div 64) % 64) /\ r = 128 + (c % 64)
  OBVIOUS
<1>2. utf8(c) = <<p, q, r>>
  BY <1>1, SMT DEF utf8, trail
<1>3. /\ p \in 224..239 /\ q \in 128..191 /\ r \in 128..191
      /\ p \div 32 = 7 /\ p \div 16 = 14 /\ q \div 64 = 2 /\ r \div 64 = 2
      /\ (p % 16) * 4096 + (q % 64) * 64 + (r % 64) = c
  BY <1>1, ThreeBytes, SMT
<1>4. p \in Byte /\ q \in Byte /\ r \in Byte
  <2>1. p \in 224..239 /\ q \in 128..191 /\ r \in 128..191
    BY ONLY <1>3
  <2> QED BY ONLY <2>1, SMT DEF Byte
<1>5. /\ <<p, q, r>> \in Seq(Byte) /\ Len(<<p, q, r>>) = 3
      /\ <<p, q, r>>[1] = p /\ <<p, q, r>>[2] = q /\ <<p, q, r>>[3] = r
  BY ONLY <1>4, Triples
<1> QED BY ONLY <1>2, <1>3, <1>5

(* UTF-8 of four bytes. *)
LEMMA Utf8Four ==
  ASSUME NEW c \in Nat, 65536 <= c, c <= LastCode
  PROVE  /\ utf8(c) \in Seq(Byte) /\ Len(utf8(c)) = 4
         /\ utf8(c)[1] \in 240..244 /\ utf8(c)[2] \in 128..191
         /\ utf8(c)[3] \in 128..191 /\ utf8(c)[4] \in 128..191
         /\ utf8(c)[1] \div 32 = 7 /\ utf8(c)[1] \div 16 = 15 /\ utf8(c)[1] \div 8 = 30
         /\ utf8(c)[2] \div 64 = 2 /\ utf8(c)[3] \div 64 = 2 /\ utf8(c)[4] \div 64 = 2
         /\ (utf8(c)[1] % 8) * 262144 + (utf8(c)[2] % 64) * 4096
              + (utf8(c)[3] % 64) * 64 + (utf8(c)[4] % 64) = c
<1>1. PICK p, q, r, t : /\ p = 240 + (c \div 262144) /\ q = 128 + ((c \div 4096) % 64)
                        /\ r = 128 + ((c \div 64) % 64) /\ t = 128 + (c % 64)
  BY SMT
<1>2. utf8(c) = <<p, q, r, t>>
  BY <1>1, SMT DEF utf8, trail
<1>3. /\ p \in 240..244 /\ q \in 128..191 /\ r \in 128..191 /\ t \in 128..191
      /\ p \div 32 = 7 /\ p \div 16 = 15 /\ p \div 8 = 30
      /\ q \div 64 = 2 /\ r \div 64 = 2 /\ t \div 64 = 2
      /\ (p % 8) * 262144 + (q % 64) * 4096 + (r % 64) * 64 + (t % 64) = c
  BY <1>1, FourBytes, SMT
<1>4. p \in Byte /\ q \in Byte /\ r \in Byte /\ t \in Byte
  <2>1. p \in 240..244 /\ q \in 128..191 /\ r \in 128..191 /\ t \in 128..191
    BY ONLY <1>3
  <2> QED BY ONLY <2>1, ByteRange
<1>5. /\ <<p, q, r, t>> \in Seq(Byte) /\ Len(<<p, q, r, t>>) = 4
      /\ <<p, q, r, t>>[1] = p /\ <<p, q, r, t>>[2] = q
      /\ <<p, q, r, t>>[3] = r /\ <<p, q, r, t>>[4] = t
  BY ONLY <1>4, SMT
<1> QED BY ONLY <1>2, <1>3, <1>5, SMT

(* UTF-8 is one to four bytes, for every code point. *)
LEMMA Utf8Bytes ==
  ASSUME NEW c \in Nat, c <= LastCode
  PROVE  utf8(c) \in Seq(Byte) /\ Len(utf8(c)) \in 1..4
<1>1. CASE c < 128
  <2>1. c \in Byte
    BY <1>1 DEF Byte
  <2>2. utf8(c) = <<c>>
    BY <1>1, Utf8One, SMT
  <2> QED BY ONLY <2>1, <2>2
<1>2. CASE c >= 128 /\ c < 2048
  BY <1>2, Utf8Two, SMT
<1>3. CASE c >= 2048 /\ c < 65536
  BY <1>3, Utf8Three, SMT
<1>4. CASE c >= 65536
  BY <1>4, Utf8Four, SMT
<1> QED BY <1>1, <1>2, <1>3, <1>4, SMT

(* What stands at the place that is read, byte by byte. *)
LEMMA BytesAhead ==
  ASSUME job.in \in Seq(Unit), job.i \in Nat \ {0}, NEW bytes \in Seq(Byte),
         EscapesAt(job.in, job.i - 1, bytes)
  PROVE  \A k \in 1..Len(bytes) :
            /\ b(k) = bytes[k] /\ isEscape(job.in, job.i + 3 * (k - 1))
            /\ byteAt(job.i + 3 * (k - 1)) = bytes[k]
<1>1. PICK i \in Nat : i = job.i - 1
  OBVIOUS
<1>2. job.i = i + 1
  BY <1>1
<1>3. ASSUME NEW k \in 1..Len(bytes)
      PROVE  /\ b(k) = bytes[k] /\ isEscape(job.in, job.i + 3 * (k - 1))
             /\ byteAt(job.i + 3 * (k - 1)) = bytes[k]
  <2>1. isEscape(job.in, i + (3 * k - 2)) /\ byteAt(i + (3 * k - 2)) = bytes[k]
    BY <1>1, EscapesRead
  <2>2. PICK m \in Nat : m = Len(bytes)
    OBVIOUS
  <2>3. job.i + 3 * (k - 1) = i + (3 * k - 2)
    BY <1>2, <2>2
  <2> QED BY <2>1, <2>3 DEF b
<1> QED BY <1>3

(* Bytes that continue are seen to follow. *)
LEMMA FollowsAhead ==
  ASSUME job.in \in Seq(Unit), job.i \in Nat \ {0}, NEW bytes \in Seq(Byte),
         EscapesAt(job.in, job.i - 1, bytes),
         \A k \in 2..Len(bytes) : bytes[k] \div 64 = 2
  PROVE  follows(Len(bytes))
<1>1. PICK n \in Nat : n = Len(bytes)
  OBVIOUS
<1>2. ASSUME NEW k \in 1..(n - 1)
      PROVE  isEscape(job.in, job.i + 3 * k) /\ byteAt(job.i + 3 * k) \div 64 = 2
  <2>1. k + 1 \in 1..n /\ k + 1 \in 2..n /\ (k + 1) - 1 = k
    BY <1>1
  <2> QED BY <1>1, <2>1, BytesAhead
<1> QED BY <1>1, <1>2 DEF follows

(* What decode makes of two bytes. *)
LEMMA DecodesTwo ==
  ASSUME b(1) \in 192..223, follows(2), b(1) \div 32 = 6
  PROVE  b(1) >= 128 /\ sequence = 2 /\ chr(2) = (b(1) % 32) * 64 + (b(2) % 64)
<1>1. sequence = 2
  BY SMT DEF sequence
<1>2. chr(2) = (b(1) % 32) * 64 + (b(2) % 64)
  BY SMT DEF chr, bits
<1> QED BY <1>1, <1>2, SMT

(* What decode makes of three bytes. *)
LEMMA DecodesThree ==
  ASSUME b(1) \in 224..239, follows(3), b(1) \div 32 = 7, b(1) \div 16 = 14
  PROVE  /\ b(1) >= 128 /\ sequence = 3
         /\ chr(3) = (b(1) % 16) * 4096 + (b(2) % 64) * 64 + (b(3) % 64)
<1>1. sequence = 3
  BY SMT DEF sequence
<1>2. chr(3) = (b(1) % 16) * 4096 + (b(2) % 64) * 64 + (b(3) % 64)
  BY SMT DEF chr, bits
<1> QED BY <1>1, <1>2, SMT

(* What decode makes of four bytes. *)
LEMMA DecodesFour ==
  ASSUME b(1) \in 240..244, follows(4),
         b(1) \div 32 = 7, b(1) \div 16 = 15, b(1) \div 8 = 30
  PROVE  /\ b(1) >= 128 /\ sequence = 4
         /\ chr(4) = (b(1) % 8) * 262144 + (b(2) % 64) * 4096 + (b(3) % 64) * 64 + (b(4) % 64)
<1>1. sequence = 4
  BY SMT DEF sequence
<1>2. chr(4) = (b(1) % 8) * 262144 + (b(2) % 64) * 4096 + (b(3) % 64) * 64 + (b(4) % 64)
  BY SMT DEF chr, bits
<1> QED BY <1>1, <1>2, SMT

(* decode reads the escaped UTF-8 of a code point as that code point and *)
(* refuses none.                                                         *)
LEMMA DecodesChar ==
  ASSUME job.in \in Seq(Unit), job.i \in Nat \ {0},
         NEW c \in Nat, 128 <= c, c <= LastCode, c \notin High \cup Low,
         EscapesAt(job.in, job.i - 1, utf8(c))
  PROVE  /\ byteAt(job.i) # -1 /\ b(1) >= 128
         /\ sequence = Len(utf8(c)) /\ sequence \in 2..4
         /\ chr(sequence) = c /\ ~ refused(sequence, c)
<1>1. PICK u \in Seq(Byte) : u = utf8(c)
  BY Utf8Bytes
<1>2. PICK n \in Nat : n = Len(u)
  OBVIOUS
<1>3. \A k \in 1..n : b(k) = u[k]
  BY <1>1, <1>2, BytesAhead
<1>4. (\A k \in 2..n : u[k] \div 64 = 2) => follows(n)
  BY <1>1, <1>2, FollowsAhead
<1>5. PICK i \in Nat : i = job.i
  OBVIOUS
<1>6. i + 3 * (1 - 1) = i
  BY <1>5
<1>7. byteAt(job.i) = b(1)
  BY <1>5, <1>6 DEF b
<1>8. CASE c < 2048
  <2>1. /\ n = 2 /\ u[1] \in 192..223 /\ u[2] \in 128..191
        /\ u[1] \div 32 = 6 /\ u[2] \div 64 = 2
        /\ (u[1] % 32) * 64 + (u[2] % 64) = c
    <3>1. c \in Nat /\ 128 <= c /\ c < 2048
      BY ONLY c \in Nat, 128 <= c, <1>8, SMT
    <3>2. /\ Len(utf8(c)) = 2 /\ utf8(c)[1] \in 192..223 /\ utf8(c)[2] \in 128..191
          /\ utf8(c)[1] \div 32 = 6 /\ utf8(c)[2] \div 64 = 2
          /\ (utf8(c)[1] % 32) * 64 + (utf8(c)[2] % 64) = c
      BY ONLY <3>1, Utf8Two
    <3> QED BY ONLY <1>1, <1>2, <3>2, SMT
  <2>2. b(1) = u[1] /\ b(2) = u[2]
    BY ONLY <1>3, <2>1
  <2>3. follows(2)
    BY ONLY <1>4, <2>1
  <2>4. b(1) \in 192..223 /\ b(1) \div 32 = 6
    BY ONLY <2>1, <2>2
  <2>5. b(1) >= 128 /\ sequence = 2 /\ chr(2) = (b(1) % 32) * 64 + (b(2) % 64)
    BY ONLY <2>3, <2>4, DecodesTwo
  <2>6. ~ refused(2, c)
    BY ONLY c \in Nat, 128 <= c, SMT DEF refused
  <2>7. b(1) # -1 /\ chr(2) = c
    BY ONLY <2>1, <2>2, <2>4, <2>5, SMT
  <2> QED BY ONLY <1>1, <1>2, <1>7, <2>1, <2>5, <2>6, <2>7
<1>9. CASE c >= 2048 /\ c < 65536
  <2>1. /\ n = 3 /\ u[1] \in 224..239 /\ u[2] \in 128..191 /\ u[3] \in 128..191
        /\ u[1] \div 32 = 7 /\ u[1] \div 16 = 14 /\ u[2] \div 64 = 2 /\ u[3] \div 64 = 2
        /\ (u[1] % 16) * 4096 + (u[2] % 64) * 64 + (u[3] % 64) = c
    <3>1. c \in Nat /\ 2048 <= c /\ c < 65536
      BY ONLY c \in Nat, <1>9, SMT
    <3>2. /\ Len(utf8(c)) = 3 /\ utf8(c)[1] \in 224..239 /\ utf8(c)[2] \in 128..191 /\ utf8(c)[3] \in 128..191
          /\ utf8(c)[1] \div 32 = 7 /\ utf8(c)[1] \div 16 = 14 /\ utf8(c)[2] \div 64 = 2 /\ utf8(c)[3] \div 64 = 2
          /\ (utf8(c)[1] % 16) * 4096 + (utf8(c)[2] % 64) * 64 + (utf8(c)[3] % 64) = c
      BY ONLY <3>1, Utf8Three
    <3> QED BY ONLY <1>1, <1>2, <3>2, SMT
  <2>2. b(1) = u[1] /\ b(2) = u[2] /\ b(3) = u[3]
    BY ONLY <1>3, <2>1
  <2>3. follows(3)
    BY ONLY <1>4, <2>1
  <2>4. b(1) \in 224..239 /\ b(1) \div 32 = 7 /\ b(1) \div 16 = 14
    BY ONLY <2>1, <2>2
  <2>5. /\ b(1) >= 128 /\ sequence = 3
        /\ chr(3) = (b(1) % 16) * 4096 + (b(2) % 64) * 64 + (b(3) % 64)
    BY ONLY <2>3, <2>4, DecodesThree
  <2>6. ~ refused(3, c)
    BY ONLY c \in Nat, <1>9, c \notin High \cup Low, SMT DEF refused
  <2>7. b(1) # -1 /\ chr(3) = c
    BY ONLY <2>1, <2>2, <2>4, <2>5, SMT
  <2> QED BY ONLY <1>1, <1>2, <1>7, <2>1, <2>5, <2>6, <2>7
<1>10. CASE c >= 65536
  <2>1. /\ n = 4 /\ u[1] \in 240..244 /\ u[2] \in 128..191 /\ u[3] \in 128..191 /\ u[4] \in 128..191
        /\ u[1] \div 32 = 7 /\ u[1] \div 16 = 15 /\ u[1] \div 8 = 30
        /\ u[2] \div 64 = 2 /\ u[3] \div 64 = 2 /\ u[4] \div 64 = 2
        /\ (u[1] % 8) * 262144 + (u[2] % 64) * 4096 + (u[3] % 64) * 64 + (u[4] % 64) = c
    <3>1. c \in Nat /\ 65536 <= c /\ c <= LastCode
      BY ONLY c \in Nat, c <= LastCode, <1>10, SMT
    <3>2. /\ Len(utf8(c)) = 4 /\ utf8(c)[1] \in 240..244 /\ utf8(c)[2] \in 128..191 /\ utf8(c)[3] \in 128..191 /\ utf8(c)[4] \in 128..191
          /\ utf8(c)[1] \div 32 = 7 /\ utf8(c)[1] \div 16 = 15 /\ utf8(c)[1] \div 8 = 30
          /\ utf8(c)[2] \div 64 = 2 /\ utf8(c)[3] \div 64 = 2 /\ utf8(c)[4] \div 64 = 2
          /\ (utf8(c)[1] % 8) * 262144 + (utf8(c)[2] % 64) * 4096 + (utf8(c)[3] % 64) * 64 + (utf8(c)[4] % 64) = c
      BY ONLY <3>1, Utf8Four
    <3> QED BY ONLY <1>1, <1>2, <3>2, SMT
  <2>2. b(1) = u[1] /\ b(2) = u[2] /\ b(3) = u[3] /\ b(4) = u[4]
    BY ONLY <1>3, <2>1, SMT
  <2>3. follows(4)
    BY ONLY <1>4, <2>1, SMT
  <2>4. b(1) \in 240..244 /\ b(1) \div 32 = 7 /\ b(1) \div 16 = 15 /\ b(1) \div 8 = 30
    BY ONLY <2>1, <2>2, SMT
  <2>5. /\ b(1) >= 128 /\ sequence = 4
        /\ chr(4) = (b(1) % 8) * 262144 + (b(2) % 64) * 4096 + (b(3) % 64) * 64 + (b(4) % 64)
    BY ONLY <2>3, <2>4, DecodesFour, SMT
  <2>6. ~ refused(4, c)
    BY ONLY c \in Nat, c <= LastCode, <1>10, SMT DEF refused, LastCode
  <2>7. b(1) # -1 /\ chr(4) = c
    BY ONLY <2>1, <2>2, <2>4, <2>5, SMT
  <2> QED BY ONLY <1>1, <1>2, <1>7, <2>1, <2>5, <2>6, <2>7, SMT
<1> QED BY ONLY c \in Nat, <1>8, <1>9, <1>10, SMT

(* Two lists joined keep their items. *)
LEMMA Joined ==
  ASSUME NEW S, NEW s \in Seq(S), NEW t \in Seq(S)
  PROVE  /\ s \o t \in Seq(S) /\ Len(s \o t) = Len(s) + Len(t)
         /\ \A k \in 1..Len(s) : (s \o t)[k] = s[k]
         /\ \A k \in 1..Len(t) : (s \o t)[Len(s) + k] = t[k]
OBVIOUS

(* The unit a link carries for the k-th of w. *)
carried(w, k) == IF lone(w, k) THEN Unknown16 ELSE w[k]

(* After c places of s stands what carries the units d + 1 to e of w, up to place f. *)
PlainPiece(w, d, s, c, e, f) ==
  e = d + 1 /\ f = c + 1 /\ f <= Len(s) /\ s[f] # Percent /\ s[f] = carried(w, e)
(* The escaped UTF-8 of a code point that is no half, for one unit or a pair. *)
CodedPiece(w, d, s, c, e, f) ==
  \E cp \in Nat :
    /\ cp <= LastCode /\ cp \notin High \cup Low
    /\ EscapesAt(s, c, utf8(cp)) /\ f = c + 3 * Len(utf8(cp))
    /\ e = d + Len(units(cp)) /\ \A k \in 1..Len(units(cp)) : carried(w, d + k) = units(cp)[k]
(* Either of these. *)
Piece(w, d, s, c, e, f) == PlainPiece(w, d, s, c, e, f) \/ CodedPiece(w, d, s, c, e, f)

(* The pieces of s carry the first n units of w; P are the ends of pieces. *)
Pieces(w, n, s, P) ==
  /\ P \subseteq Nat \X Nat
  /\ <<0, 0>> \in P
  /\ \A p \in P : p[1] <= n /\ p[2] <= Len(s) /\ (p[1] = n => p[2] = Len(s))
  /\ \A p \in P : p[1] < n => \E q \in P : Piece(w, p[1], s, p[2], q[1], q[2])

(* What stands in a text stays when more is written. *)
LEMMA EscapesGrow ==
  ASSUME NEW s \in Seq(Unit), NEW t \in Seq(Unit), NEW c \in Nat, NEW bytes \in Seq(Byte),
         EscapesAt(s, c, bytes)
  PROVE  EscapesAt(s \o t, c, bytes)
<1>1. PICK n \in Nat : n = Len(bytes)
  OBVIOUS
<1>2. PICK m \in Nat : m = Len(s)
  OBVIOUS
<1>3. PICK r \in Seq(Unit) : r = s \o t
  BY Joined
<1>4. Len(r) >= m /\ \A k \in 1..m : r[k] = s[k]
  BY <1>2, <1>3, Joined
<1>5. c + 3 * n <= m
  BY <1>1, <1>2 DEF EscapesAt
<1>6. c + 3 * n <= Len(r)
  BY <1>4, <1>5
<1>7. ASSUME NEW k \in 1..n
      PROVE  /\ r[c + (3 * k - 2)] = Percent
             /\ r[c + (3 * k - 1)] = hexDigit(bytes[k] \div 16)
             /\ r[c + 3 * k] = hexDigit(bytes[k] % 16)
  <2>1. c + (3 * k - 2) \in 1..m /\ c + (3 * k - 1) \in 1..m /\ c + 3 * k \in 1..m
    BY ONLY c \in Nat, n \in Nat, m \in Nat, k \in 1..n, <1>5
  <2>2. /\ s[c + (3 * k - 2)] = Percent
        /\ s[c + (3 * k - 1)] = hexDigit(bytes[k] \div 16)
        /\ s[c + 3 * k] = hexDigit(bytes[k] % 16)
    BY <1>1 DEF EscapesAt
  <2> QED BY ONLY <1>4, <2>1, <2>2
<1> QED BY ONLY <1>1, <1>3, <1>6, <1>7 DEF EscapesAt

(* So it is with a piece. *)
LEMMA PieceGrows ==
  ASSUME NEW w, NEW d, NEW s \in Seq(Unit), NEW t \in Seq(Unit), NEW c \in Nat, NEW e, NEW f,
         Piece(w, d, s, c, e, f)
  PROVE  Piece(w, d, s \o t, c, e, f)
<1>1. CASE PlainPiece(w, d, s, c, e, f)
  <2>1. /\ e = d + 1 /\ f = c + 1 /\ f <= Len(s) /\ s[f] # Percent /\ s[f] = carried(w, e)
    BY <1>1 DEF PlainPiece
  <2>2. f \in 1..Len(s) /\ f <= Len(s \o t)
    BY <2>1, Joined
  <2>3. (s \o t)[f] = s[f]
    BY <2>2, Joined
  <2> QED BY <2>1, <2>2, <2>3 DEF Piece, PlainPiece
<1>2. CASE CodedPiece(w, d, s, c, e, f)
  <2>1. PICK cp \in Nat :
          /\ cp <= LastCode /\ cp \notin High \cup Low
          /\ EscapesAt(s, c, utf8(cp)) /\ f = c + 3 * Len(utf8(cp))
          /\ e = d + Len(units(cp)) /\ \A k \in 1..Len(units(cp)) : carried(w, d + k) = units(cp)[k]
    BY <1>2 DEF CodedPiece
  <2>2. utf8(cp) \in Seq(Byte)
    BY <2>1, Utf8Bytes
  <2>3. EscapesAt(s \o t, c, utf8(cp))
    BY <2>1, <2>2, EscapesGrow
  <2> QED BY <2>1, <2>3, Zenon DEF Piece, CodedPiece
<1> QED BY <1>1, <1>2 DEF Piece

(* One more piece at the end carries more units. *)
LEMMA PiecesGrow ==
  ASSUME NEW w, NEW n \in Nat, NEW m \in Nat, n < m, NEW s \in Seq(Unit), NEW t \in Seq(Unit),
         NEW P, Pieces(w, n, s, P), <<n, Len(s)>> \in P,
         Len(t) > 0, Piece(w, n, s \o t, Len(s), m, Len(s \o t))
  PROVE  \E Q : Pieces(w, m, s \o t, Q) /\ <<m, Len(s \o t)>> \in Q
<1>1. PICK r \in Seq(Unit) : r = s \o t
  BY Joined
<1>2. PICK ls \in Nat : ls = Len(s)
  OBVIOUS
<1>3. PICK lr \in Nat : lr = Len(r) /\ lr > ls
  BY <1>1, <1>2, Joined
<1>4. PICK Q : Q = P \cup {<<m, lr>>}
  OBVIOUS
<1>5. /\ P \subseteq Nat \X Nat /\ <<0, 0>> \in P
      /\ \A p \in P : p[1] <= n /\ p[2] <= ls /\ (p[1] = n => p[2] = ls)
      /\ \A p \in P : p[1] < n => \E q \in P : Piece(w, p[1], s, p[2], q[1], q[2])
  BY <1>2 DEF Pieces
<1>6. Q \subseteq Nat \X Nat /\ <<0, 0>> \in Q /\ <<m, lr>> \in Q
  BY <1>4, <1>5
<1>7. ASSUME NEW p \in Q
      PROVE  /\ p[1] <= m /\ p[2] <= lr /\ (p[1] = m => p[2] = lr)
             /\ p[1] < m => \E q \in Q : Piece(w, p[1], r, p[2], q[1], q[2])
  <2>1. CASE p = <<m, lr>>
    BY <2>1
  <2>2. CASE p \in P
    <3>1. p[1] \in Nat /\ p[2] \in Nat /\ p[1] <= n /\ p[2] <= ls /\ (p[1] = n => p[2] = ls)
      BY <1>5, <2>2
    <3>2. p[1] < m /\ p[2] <= lr
      BY <1>3, <3>1
    <3>3. CASE p[1] < n
      <4>1. PICK q \in P : Piece(w, p[1], s, p[2], q[1], q[2])
        BY <1>5, <2>2, <3>3
      <4>2. Piece(w, p[1], r, p[2], q[1], q[2])
        BY <1>1, <3>1, <4>1, PieceGrows
      <4>3. q \in Q
        BY <1>4, <4>1
      <4> QED BY ONLY <3>1, <3>2, <4>2, <4>3, n \in Nat, m \in Nat
    <3>4. CASE p[1] = n
      <4>1. p[2] = ls
        BY <3>1, <3>4
      <4>2. Piece(w, p[1], r, p[2], m, lr)
        BY <1>1, <1>2, <1>3, <3>4, <4>1
      <4>3. PICK q \in Q : q = <<m, lr>>
        BY <1>6
      <4>4. q[1] = m /\ q[2] = lr
        BY <4>3
      <4>5. \E qq \in Q : Piece(w, p[1], r, p[2], qq[1], qq[2])
        BY <4>2, <4>4, Zenon
      <4> QED BY ONLY <3>1, <3>2, <4>5, n \in Nat, m \in Nat
    <3> QED BY <3>1, <3>3, <3>4
  <2> QED BY <1>4, <2>1, <2>2
<1>8. Pieces(w, m, r, Q)
  BY ONLY <1>3, <1>6, <1>7 DEF Pieces
<1> QED BY <1>1, <1>3, <1>6, <1>8

(* A list of one. *)
LEMMA Singles ==
  ASSUME NEW S, NEW x \in S
  PROVE  <<x>> \in Seq(S) /\ Len(<<x>>) = 1 /\ <<x>>[1] = x
OBVIOUS

(* Lists that agree at every place are the same. *)
LEMMA SameList ==
  ASSUME NEW S, NEW s \in Seq(S), NEW t \in Seq(S), Len(s) = Len(t),
         \A k \in 1..Len(s) : s[k] = t[k]
  PROVE  s = t
OBVIOUS

(* The escape of one byte is the list of escapes of one. *)
LEMMA OneEscape ==
  ASSUME NEW c \in Byte
  PROVE  escapes(<<c>>) = escaped(c)
<1>1. PICK u \in Seq(Byte) : u = <<c>> /\ Len(u) = 1 /\ u[1] = c
  BY Singles
<1>2. PICK e \in Seq(Unit) : e = escapes(u) /\ Len(e) = 3
  <2>1. escapes(u) \in Seq(Unit) /\ Len(escapes(u)) = 3 * Len(u)
    BY EscapesOf
  <2> QED BY <1>1, <2>1
<1>3. /\ e[3 * 1 - 2] = Percent /\ e[3 * 1 - 1] = hexDigit(u[1] \div 16)
      /\ e[3 * 1] = hexDigit(u[1] % 16)
  <2>1. \A k \in 1..Len(u) : /\ e[3 * k - 2] = Percent
                             /\ e[3 * k - 1] = hexDigit(u[k] \div 16)
                             /\ e[3 * k] = hexDigit(u[k] % 16)
    BY <1>2, EscapesOf
  <2>2. 1 \in 1..Len(u)
    BY <1>1
  <2> QED BY ONLY <2>1, <2>2, Zenon
<1>4. e[1] = Percent /\ e[2] = hexDigit(c \div 16) /\ e[3] = hexDigit(c % 16)
  BY <1>1, <1>3
<1>5. PICK f \in Seq(Unit) : /\ f = escaped(c) /\ Len(f) = 3
                             /\ f[1] = Percent /\ f[2] = hexDigit(c \div 16) /\ f[3] = hexDigit(c % 16)
  BY EscapedByte
<1>6. Len(e) = Len(f) /\ \A k \in 1..Len(e) : e[k] = f[k]
  BY <1>2, <1>4, <1>5
<1>7. e = f
  BY ONLY <1>6, SameList, e \in Seq(Unit), f \in Seq(Unit)
<1> QED BY <1>1, <1>2, <1>5, <1>7

(* A character that needs no escape is written as a piece. *)
LEMMA PlainWritten ==
  ASSUME NEW w, NEW d \in Nat, NEW s \in Seq(Unit), NEW x \in Unit,
         x # Percent, x = carried(w, d + 1)
  PROVE  /\ <<x>> \in Seq(Unit) /\ Len(<<x>>) > 0
         /\ Piece(w, d, s \o <<x>>, Len(s), d + 1, Len(s \o <<x>>))
<1>1. PICK t \in Seq(Unit) : t = <<x>> /\ Len(t) = 1 /\ t[1] = x
  BY Singles
<1>2. Len(s \o t) = Len(s) + 1 /\ (s \o t)[Len(s) + 1] = x
  BY <1>1, Joined
<1>3. PlainPiece(w, d, s \o t, Len(s), d + 1, Len(s \o t))
  BY <1>2 DEF PlainPiece
<1> QED BY <1>1, <1>3 DEF Piece

(* The escapes of a code point are written as a piece. *)
LEMMA CodedWritten ==
  ASSUME NEW w, NEW d \in Nat, NEW s \in Seq(Unit), NEW cp \in Nat,
         cp <= LastCode, cp \notin High \cup Low,
         \A k \in 1..Len(units(cp)) : carried(w, d + k) = units(cp)[k],
         NEW e, e = d + Len(units(cp)), NEW v, v = encodeURIComponent(cp)
  PROVE  v \in Seq(Unit) /\ Len(v) > 0 /\ Piece(w, d, s \o v, Len(s), e, Len(s \o v))
<1>1. PICK u \in Seq(Byte) : u = utf8(cp) /\ Len(u) \in 1..4
  BY Utf8Bytes
<1>2. PICK t \in Seq(Unit) : t = escapes(u) /\ Len(t) = 3 * Len(u)
  BY EscapesOf
<1>3. t = encodeURIComponent(cp)
  BY <1>1, <1>2 DEF encodeURIComponent
<1>4. PICK c \in Nat : c = Len(s)
  OBVIOUS
<1>5. Len(s \o t) = c + Len(t) /\ \A k \in 1..Len(t) : (s \o t)[c + k] = t[k]
  BY <1>4, Joined
<1>6. At(s \o t, c, t)
  BY <1>5 DEF At
<1>7. EscapesAt(s \o t, c, u)
  BY <1>2, <1>6, EscapesStand
<1>8. Len(s \o t) = c + 3 * Len(u)
  BY <1>2, <1>5
<1>9. CodedPiece(w, d, s \o t, c, d + Len(units(cp)), Len(s \o t))
  BY ONLY <1>1, <1>7, <1>8, cp \in Nat, cp <= LastCode, cp \notin High \cup Low,
         \A k \in 1..Len(units(cp)) : carried(w, d + k) = units(cp)[k], Zenon DEF CodedPiece
<1>10. Len(t) > 0
  <2>1. PICK m \in 1..4 : m = Len(u)
    BY <1>1
  <2> QED BY ONLY <1>2, <2>1
<1>11. v = t
  BY <1>3
<1> QED BY ONLY <1>2, <1>4, <1>9, <1>10, <1>11, e = d + Len(units(cp)) DEF Piece

(* What is carried, by what stands at a place. *)
LEMMA UnitsOfOne ==
  ASSUME NEW cp \in Nat, cp < 65536
  PROVE  units(cp) = <<cp>> /\ Len(units(cp)) = 1 /\ units(cp)[1] = cp
<1>1. units(cp) = <<cp>>
  BY SMT DEF units
<1> QED BY <1>1

(* A pair goes to its code point and back. *)
LEMMA UnitsOfPair ==
  ASSUME NEW h \in High, NEW l \in Low
  PROVE  /\ units(pairValue(h, l)) = <<h, l>> /\ Len(units(pairValue(h, l))) = 2
         /\ units(pairValue(h, l))[1] = h /\ units(pairValue(h, l))[2] = l
         /\ pairValue(h, l) \in Nat /\ pairValue(h, l) <= LastCode
         /\ pairValue(h, l) \notin High \cup Low
<1>1. PICK v \in Nat : v = pairValue(h, l) /\ v >= 65536 /\ v <= LastCode
  BY PairBack, SMT
<1>2. 55296 + ((v - 65536) \div 1024) = h /\ 56320 + ((v - 65536) % 1024) = l
  BY <1>1, PairBack, SMT
<1>3. units(v) = <<h, l>>
  BY ONLY <1>1, <1>2, SMT DEF units
<1>4. v \notin High /\ v \notin Low
  BY ONLY <1>1, InHigh, InLow, SMT
<1> QED BY <1>1, <1>3, <1>4

(* No unit is both halves. *)
LEMMA Apart ==
  ASSUME NEW x
  PROVE  ~ (x \in High /\ x \in Low)
BY InHigh, InLow, SMT

(* A unit that is no half is carried as it is. *)
LEMMA CarriedPlain ==
  ASSUME NEW w, NEW k, w[k] \notin High \cup Low
  PROVE  carried(w, k) = w[k]
BY DEF carried, lone

(* So are the halves of a pair. *)
LEMMA CarriedPair ==
  ASSUME NEW w \in Seq(Unit), NEW k \in Nat \ {0}, isPair(w, k)
  PROVE  /\ carried(w, k) = w[k] /\ carried(w, k + 1) = w[k + 1]
         /\ w[k] \in High /\ w[k + 1] \in Low /\ ~ isPair(w, k + 1)
<1>1. w[k] \in High /\ w[k + 1] \in Low /\ k + 1 \in Nat
  BY DEF isPair
<1>2. w[k] \notin Low /\ w[k + 1] \notin High
  BY <1>1, Apart
<1>3. ~ isPair(w, k + 1)
  BY <1>2 DEF isPair
<1>4. ~ lone(w, k)
  BY <1>2 DEF lone
<1>5. (k + 1) - 1 = k /\ k + 1 # 1
  OBVIOUS
<1>6. ~ lone(w, k + 1)
  BY <1>2, <1>5 DEF lone
<1> QED BY <1>1, <1>3, <1>4, <1>6 DEF carried

(* A half alone is carried as U+FFFD. *)
LEMMA CarriedLone ==
  ASSUME NEW w \in Seq(Unit), NEW k \in Nat \ {0}, w[k] \in High \cup Low, ~ isPair(w, k),
         k = 1 \/ ~ isPair(w, k - 1)
  PROVE  carried(w, k) = Unknown16
BY DEF carried, lone

(* The types of a job and of a behaviour of the codec. *)
JobType ==
  [task : {"encode", "decode"}, in : Seq(Unit), i : Nat \ {0}, out : Seq(Unit),
   chars : SUBSET Int, keepEscaped : BOOLEAN]
(* What is left to do, in each kind of behaviour. *)
Todos == {<<"encode", "decode">>, <<"encode", "encode">>, <<"encode">>, <<"decode">>, <<>>}
(* The type of the codec's state. *)
CodType ==
  cod \in [kind : {"link", "address", "bytes"}, todo : Todos, first : Seq(Unit), job : JobType]

(* The fields of the job at hand. *)
LEMMA JobFields ==
  ASSUME CodType
  PROVE  /\ job \in JobType /\ job.in \in Seq(Unit) /\ job.i \in Nat \ {0} /\ job.out \in Seq(Unit)
         /\ job.task \in {"encode", "decode"} /\ job.chars \in SUBSET Int
         /\ job.keepEscaped \in BOOLEAN
         /\ cod.first \in Seq(Unit) /\ cod.todo \in Todos
         /\ cod.kind \in {"link", "address", "bytes"}
<1>1. cod.job \in JobType /\ cod.first \in Seq(Unit) /\ cod.todo \in Todos
         /\ cod.kind \in {"link", "address", "bytes"}
  BY DEF CodType
<1>2. PICK j \in JobType : j = job
  BY <1>1 DEF job
<1>3. /\ j.in \in Seq(Unit) /\ j.i \in Nat \ {0} /\ j.out \in Seq(Unit)
      /\ j.task \in {"encode", "decode"} /\ j.chars \in SUBSET Int /\ j.keepEscaped \in BOOLEAN
  BY ONLY j \in JobType DEF JobType
<1> QED BY <1>1, <1>2, <1>3

(* What a round of the loop changes: what is read and what has come out. *)
LEMMA Writes ==
  ASSUME CodType, NEW u \in Seq(Unit), NEW n \in Nat, writes(u, n)
  PROVE  /\ CodType'
         /\ cod'.kind = cod.kind /\ cod'.todo = cod.todo /\ cod'.first = cod.first
         /\ job'.task = job.task /\ job'.in = job.in /\ job'.chars = job.chars
         /\ job'.keepEscaped = job.keepEscaped
         /\ job'.i = job.i + n /\ job'.out = job.out \o u
<1>1. PICK j \in JobType : j = job
  BY JobFields
<1>2. /\ j.in \in Seq(Unit) /\ j.i \in Nat \ {0} /\ j.out \in Seq(Unit)
      /\ j.task \in {"encode", "decode"} /\ j.chars \in SUBSET Int /\ j.keepEscaped \in BOOLEAN
  BY ONLY j \in JobType DEF JobType
<1>3. PICK o \in Seq(Unit) : o = j.out \o u
  BY <1>2, Joined
<1>4. PICK m \in Nat \ {0} : m = j.i + n
  BY <1>2
<1>5. PICK jj : jj = [[j EXCEPT !.out = o] EXCEPT !.i = m]
  OBVIOUS
<1>6. jj \in JobType
  BY ONLY j \in JobType, o \in Seq(Unit), m \in Nat \ {0}, <1>5 DEF JobType
<1>7. /\ jj.task = j.task /\ jj.in = j.in /\ jj.chars = j.chars /\ jj.keepEscaped = j.keepEscaped
      /\ jj.i = m /\ jj.out = o
  BY ONLY j \in JobType, <1>5 DEF JobType
<1>8. cod' = [cod EXCEPT !.job = jj]
  <2>1. cod' = [cod EXCEPT !.job = [j EXCEPT !.out = @ \o u, !.i = @ + n]]
    BY <1>1 DEF writes
  <2>2. [j EXCEPT !.out = @ \o u, !.i = @ + n] = jj
    BY ONLY j \in JobType, <1>3, <1>4, <1>5 DEF JobType
  <2> QED BY ONLY <2>1, <2>2, Zenon
<1>9. /\ cod'.job = jj /\ cod'.kind = cod.kind /\ cod'.todo = cod.todo /\ cod'.first = cod.first
      /\ CodType'
  BY <1>6, <1>8 DEF CodType
<1> QED BY <1>1, <1>3, <1>4, <1>7, <1>9 DEF job

(* A link while it is written: all that has been read is in what has come out. *)
LinkWritten ==
  /\ cod.todo = <<"encode", "decode">> /\ job.task = "encode" /\ job.in = cod.first
  /\ job.chars = linkChars /\ job.keepEscaped = FALSE
  /\ job.i - 1 <= Len(job.in) /\ (job.i = 1 \/ ~ isPair(job.in, job.i - 1))
  /\ \E P : Pieces(cod.first, job.i - 1, job.out, P) /\ <<job.i - 1, Len(job.out)>> \in P

(* A round that writes a piece, and does not end within a pair. *)
LEMMA LinkOn ==
  ASSUME CodType, LinkWritten, NEW u \in Seq(Unit), Len(u) > 0, NEW n \in {1, 2}, writes(u, n),
         job.i - 1 + n <= Len(job.in), ~ isPair(job.in, job.i - 1 + n),
         Piece(cod.first, job.i - 1, job.out \o u, Len(job.out), job.i - 1 + n, Len(job.out \o u))
  PROVE  LinkWritten'
<1>0. n \in Nat
  OBVIOUS
<1>1. /\ cod'.todo = cod.todo /\ cod'.first = cod.first /\ job'.task = job.task
      /\ job'.in = job.in /\ job'.chars = job.chars /\ job'.keepEscaped = job.keepEscaped
      /\ job'.i = job.i + n /\ job'.out = job.out \o u
  BY <1>0, Writes
<1>2. PICK d \in Nat : d = job.i - 1
  BY JobFields
<1>3. d < d + n /\ d + n \in Nat /\ job'.i - 1 = d + n /\ job.i - 1 + n = d + n /\ job'.i # 1
  BY <1>1, <1>2, JobFields
<1>4. PICK P : Pieces(cod.first, d, job.out, P) /\ <<d, Len(job.out)>> \in P
  BY <1>2 DEF LinkWritten
<1>5. Piece(cod.first, d, job.out \o u, Len(job.out), d + n, Len(job.out \o u))
  BY <1>2, <1>3
<1>6. \E Q : Pieces(cod.first, d + n, job.out \o u, Q) /\ <<d + n, Len(job.out \o u)>> \in Q
  <2>1. job.out \in Seq(Unit)
    BY JobFields
  <2> QED BY <1>3, <1>4, <1>5, <2>1, PiecesGrow
<1>7. \E Q : Pieces(cod'.first, job'.i - 1, job'.out, Q) /\ <<job'.i - 1, Len(job'.out)>> \in Q
  BY <1>1, <1>3, <1>6
<1>8. job'.i - 1 <= Len(job'.in) /\ ~ isPair(job'.in, job'.i - 1)
  BY <1>1, <1>3
<1>9. /\ cod'.todo = <<"encode", "decode">> /\ job'.task = "encode" /\ job'.in = cod'.first
      /\ job'.chars = linkChars /\ job'.keepEscaped = FALSE
  BY <1>1 DEF LinkWritten
<1> QED BY <1>7, <1>8, <1>9 DEF LinkWritten

(* The unit that is encoded next. *)
LEMMA LinkReads ==
  ASSUME CodType, LinkWritten, job.i <= Len(job.in)
  PROVE  /\ cod.first \in Seq(Unit) /\ job.in = cod.first /\ job.out \in Seq(Unit)
         /\ code \in Unit /\ code = cod.first[job.i] /\ job.i \in Nat \ {0}
         /\ job.i - 1 \in Nat /\ (job.i - 1) + 1 = job.i
         /\ code \in Nat /\ code <= 65535 /\ code <= LastCode
<1>1. /\ cod.first \in Seq(Unit) /\ job.in = cod.first /\ job.out \in Seq(Unit) /\ job.i \in Nat \ {0}
  BY JobFields DEF LinkWritten
<1>2. job.i \in 1..Len(job.in) /\ job.i - 1 \in Nat /\ (job.i - 1) + 1 = job.i
  BY <1>1
<1>3. code \in Unit /\ code = cod.first[job.i]
  BY <1>1, <1>2 DEF code
<1>4. code \in Nat /\ code <= 65535
  BY <1>3, InUnit, SMT
<1>5. code <= LastCode
  BY <1>4, SMT DEF LastCode
<1> QED BY <1>1, <1>2, <1>3, <1>4, <1>5

(* ASCII is kept or escaped. *)
LEMMA LinkAscii ==
  ASSUME CodType, LinkWritten, EncodeAscii
  PROVE  LinkWritten'
<1>1. job.i <= Len(job.in) /\ code < 128
  BY DEF EncodeAscii, reads
<1>2. writes(IF code \in Alphanumeric \cup job.chars THEN <<code>> ELSE escaped(code), 1)
  BY DEF EncodeAscii
<1>3. PICK d \in Nat : d = job.i - 1 /\ d + 1 = job.i /\ job.i - 1 + 1 = d + 1
  BY <1>1, LinkReads
<1>4. code \notin High \cup Low
  BY <1>1, <1>1, LinkReads, InHigh, InLow, SMT
<1>5. carried(cod.first, d + 1) = code /\ ~ isPair(job.in, job.i - 1 + 1)
  <2>1. cod.first[d + 1] = code /\ cod.first[d + 1] \notin High /\ job.in = cod.first
    BY <1>1, <1>3, <1>4, LinkReads
  <2>2. carried(cod.first, d + 1) = code
    BY <1>4, <2>1, CarriedPlain
  <2> QED BY <1>3, <2>1, <2>2 DEF isPair
<1>6. CASE code \in Alphanumeric \cup job.chars
  <2>1. code # Percent
    <3>1. code \in Alphanumeric \cup linkChars
      BY <1>6 DEF LinkWritten
    <3> QED BY ONLY <3>1, SMT DEF Alphanumeric, linkChars, Percent
  <2>2. /\ <<code>> \in Seq(Unit) /\ Len(<<code>>) > 0
        /\ Piece(cod.first, d, job.out \o <<code>>, Len(job.out), d + 1, Len(job.out \o <<code>>))
    BY <1>1, <1>5, <2>1, LinkReads, PlainWritten
  <2>3. writes(<<code>>, 1)
    BY <1>2, <1>6
  <2>4. job.i - 1 + 1 <= Len(job.in)
    BY <1>1, <1>3
  <2> QED BY <1>3, <1>5, <2>2, <2>3, <2>4, LinkOn
<1>7. CASE code \notin Alphanumeric \cup job.chars
  <2>1. writes(escaped(code), 1)
    BY <1>2, <1>7
  <2>2. code \in Byte
    <3>1. code \in Nat /\ code < 128
      BY <1>1, LinkReads
    <3> QED BY ONLY <3>1, SMT DEF Byte
  <2>3. encodeURIComponent(code) = escaped(code)
    <3>1. utf8(code) = <<code>>
      BY <1>1, LinkReads, Utf8One
    <3> QED BY <2>2, <3>1, OneEscape DEF encodeURIComponent
  <2>4. units(code) = <<code>> /\ Len(units(code)) = 1 /\ units(code)[1] = code
    <3>1. code \in Nat /\ code < 65536
      BY <1>1, LinkReads
    <3> QED BY <3>1, UnitsOfOne
  <2>5. \A k \in 1..Len(units(code)) : carried(cod.first, d + k) = units(code)[k]
    BY <1>5, <2>4
  <2>6. /\ escaped(code) \in Seq(Unit) /\ Len(escaped(code)) > 0
        /\ Piece(cod.first, d, job.out \o escaped(code), Len(job.out), d + 1, Len(job.out \o escaped(code)))
    <3>1. d + 1 = d + Len(units(code)) /\ code \in Nat /\ code <= LastCode /\ job.out \in Seq(Unit)
      BY <1>1, <2>4, LinkReads
    <3>2. escaped(code) = encodeURIComponent(code)
      BY <2>3
    <3> QED BY ONLY <1>4, <2>5, <3>1, <3>2, d \in Nat, CodedWritten
  <2>7. job.i - 1 + 1 <= Len(job.in)
    BY <1>1, <1>3
  <2> QED BY <1>3, <1>5, <2>1, <2>6, <2>7, LinkOn
<1> QED BY <1>6, <1>7

(* What is beyond ASCII but no half is escaped. *)
LEMMA LinkOther ==
  ASSUME CodType, LinkWritten, EncodeOther
  PROVE  LinkWritten'
<1>1. job.i <= Len(job.in) /\ code \notin High \cup Low /\ writes(encodeURIComponent(code), 1)
  BY DEF EncodeOther, reads
<1>2. PICK d \in Nat : d = job.i - 1 /\ d + 1 = job.i /\ job.i - 1 + 1 = d + 1
  BY <1>1, LinkReads
<1>3. carried(cod.first, d + 1) = code /\ ~ isPair(job.in, job.i - 1 + 1)
  <2>1. cod.first[d + 1] = code /\ cod.first[d + 1] \notin High /\ job.in = cod.first
    BY <1>1, <1>2, LinkReads
  <2>2. carried(cod.first, d + 1) = code
    BY <1>1, <2>1, CarriedPlain
  <2> QED BY <1>2, <2>1, <2>2 DEF isPair
<1>4. units(code) = <<code>> /\ Len(units(code)) = 1 /\ units(code)[1] = code
  <2>1. code \in Nat /\ code < 65536
    BY <1>1, LinkReads
  <2> QED BY <2>1, UnitsOfOne
<1>5. \A k \in 1..Len(units(code)) : carried(cod.first, d + k) = units(code)[k]
  BY <1>3, <1>4
<1>6. PICK u : u = encodeURIComponent(code)
  OBVIOUS
<1>7. /\ u \in Seq(Unit) /\ Len(u) > 0
      /\ Piece(cod.first, d, job.out \o u, Len(job.out), d + 1, Len(job.out \o u))
  <2>1. d + 1 = d + Len(units(code)) /\ code \in Nat /\ code <= LastCode /\ job.out \in Seq(Unit)
    BY <1>1, <1>4, LinkReads
  <2> QED BY ONLY <1>1, <1>5, <1>6, <2>1, d \in Nat, CodedWritten
<1>8. job.i - 1 + 1 <= Len(job.in) /\ writes(u, 1)
  BY <1>1, <1>2, <1>6
<1> QED BY <1>2, <1>3, <1>7, <1>8, LinkOn

(* A lone half is written as U+FFFD. *)
LEMMA LinkLone ==
  ASSUME CodType, LinkWritten, EncodeLone
  PROVE  LinkWritten'
<1>1. /\ job.i <= Len(job.in) /\ code \in High \cup Low /\ ~ isPair(job.in, job.i)
      /\ writes(encodeURIComponent(Unknown16), 1)
  BY DEF EncodeLone, reads
<1>2. PICK d \in Nat : d = job.i - 1 /\ d + 1 = job.i /\ job.i - 1 + 1 = d + 1
  BY <1>1, LinkReads
<1>3. carried(cod.first, d + 1) = Unknown16
  <2>1. job.i = 1 \/ ~ isPair(job.in, job.i - 1)
    BY DEF LinkWritten
  <2> QED BY <1>1, <1>2, <2>1, LinkReads, CarriedLone
<1>4. Unknown16 \in Nat /\ Unknown16 < 65536 /\ Unknown16 <= LastCode /\ Unknown16 \notin High \cup Low
  <2>1. Unknown16 \in Nat /\ Unknown16 < 65536 /\ Unknown16 <= LastCode /\ Unknown16 > 57343
    BY SMT DEF Unknown16, LastCode
  <2> QED BY <2>1, InHigh, InLow, SMT
<1>5. units(Unknown16) = <<Unknown16>> /\ Len(units(Unknown16)) = 1 /\ units(Unknown16)[1] = Unknown16
  BY <1>4, UnitsOfOne
<1>6. \A k \in 1..Len(units(Unknown16)) : carried(cod.first, d + k) = units(Unknown16)[k]
  BY <1>3, <1>5
<1>7. PICK u : u = encodeURIComponent(Unknown16)
  OBVIOUS
<1>8. /\ u \in Seq(Unit) /\ Len(u) > 0
      /\ Piece(cod.first, d, job.out \o u, Len(job.out), d + 1, Len(job.out \o u))
  <2>1. job.out \in Seq(Unit)
    BY JobFields
  <2>2. d + 1 = d + Len(units(Unknown16))
    BY <1>5
  <2>3. PICK w, o, cp : w = cod.first /\ o = job.out /\ cp = Unknown16
    OBVIOUS
  <2>4. o \in Seq(Unit) /\ cp \in Nat /\ cp <= LastCode /\ cp \notin High \cup Low
    BY <1>4, <2>1, <2>3
  <2>5. \A k \in 1..Len(units(cp)) : carried(w, d + k) = units(cp)[k]
    BY ONLY <1>6, <2>3
  <2>6. d + 1 = d + Len(units(cp)) /\ u = encodeURIComponent(cp)
    BY ONLY <1>7, <2>2, <2>3
  <2>7. u \in Seq(Unit) /\ Len(u) > 0 /\ Piece(w, d, o \o u, Len(o), d + 1, Len(o \o u))
    BY ONLY <2>4, <2>5, <2>6, d \in Nat, CodedWritten
  <2> QED BY ONLY <2>3, <2>7
<1>9. job.i - 1 + 1 <= Len(job.in) /\ writes(u, 1) /\ ~ isPair(job.in, job.i - 1 + 1)
  BY <1>1, <1>2, <1>7
<1> QED BY <1>2, <1>8, <1>9, LinkOn

(* A pair is written as one code point. *)
LEMMA LinkPair ==
  ASSUME CodType, LinkWritten, EncodePair
  PROVE  LinkWritten'
<1>1. /\ job.i <= Len(job.in) /\ isPair(job.in, job.i)
      /\ writes(encodeURIComponent(pairValue(code, job.in[job.i + 1])), 2)
  BY DEF EncodePair, reads
<1>2. PICK d \in Nat : /\ d = job.i - 1 /\ d + 1 = job.i /\ d + 2 = job.i + 1
                       /\ job.i - 1 + 2 = d + 2 /\ (d + 1) + 1 = d + 2
  BY <1>1, LinkReads
<1>3. PICK h, l : h = code /\ l = job.in[job.i + 1]
  OBVIOUS
<1>4. /\ carried(cod.first, d + 1) = h /\ carried(cod.first, d + 2) = l
      /\ h \in High /\ l \in Low /\ ~ isPair(job.in, d + 2)
  <2>1. cod.first \in Seq(Unit) /\ d + 1 \in Nat \ {0} /\ isPair(cod.first, d + 1) /\ job.in = cod.first
    BY <1>1, <1>2, LinkReads
  <2>2. /\ carried(cod.first, d + 1) = cod.first[d + 1]
        /\ carried(cod.first, (d + 1) + 1) = cod.first[(d + 1) + 1]
        /\ cod.first[d + 1] \in High /\ cod.first[(d + 1) + 1] \in Low
        /\ ~ isPair(cod.first, (d + 1) + 1)
    BY <2>1, CarriedPair
  <2>3. h = cod.first[d + 1] /\ l = cod.first[d + 2]
    BY <1>1, <1>2, <1>3, <2>1, LinkReads
  <2> QED BY <1>2, <2>1, <2>2, <2>3
<1>5. PICK v \in Nat : /\ v = pairValue(h, l) /\ v <= LastCode /\ v \notin High \cup Low
                       /\ Len(units(v)) = 2 /\ units(v)[1] = h /\ units(v)[2] = l
  BY <1>4, UnitsOfPair
<1>6. \A k \in 1..Len(units(v)) : carried(cod.first, d + k) = units(v)[k]
  <2>1. \A k \in 1..2 : k = 1 \/ k = 2
    OBVIOUS
  <2> QED BY <1>4, <1>5, <2>1
<1>7. PICK u : u = encodeURIComponent(v)
  OBVIOUS
<1>8. /\ u \in Seq(Unit) /\ Len(u) > 0
      /\ Piece(cod.first, d, job.out \o u, Len(job.out), d + 2, Len(job.out \o u))
  <2>1. job.out \in Seq(Unit)
    BY JobFields
  <2>2. d + 2 = d + Len(units(v)) /\ v \in Nat
    BY <1>5
  <2>3. PICK w, o, cp : w = cod.first /\ o = job.out /\ cp = v
    OBVIOUS
  <2>4. o \in Seq(Unit) /\ cp \in Nat /\ cp <= LastCode /\ cp \notin High \cup Low
    BY <1>5, <2>1, <2>3
  <2>5. \A k \in 1..Len(units(cp)) : carried(w, d + k) = units(cp)[k]
    BY ONLY <1>6, <2>3
  <2>6. d + 2 = d + Len(units(cp)) /\ u = encodeURIComponent(cp)
    BY ONLY <1>7, <2>2, <2>3
  <2>7. u \in Seq(Unit) /\ Len(u) > 0 /\ Piece(w, d, o \o u, Len(o), d + 2, Len(o \o u))
    BY ONLY <2>4, <2>5, <2>6, d \in Nat, CodedWritten
  <2> QED BY ONLY <2>3, <2>7
<1>9. job.i - 1 + 2 <= Len(job.in) /\ writes(u, 2) /\ ~ isPair(job.in, job.i - 1 + 2)
  <2>1. job.i < Len(job.in)
    BY <1>1 DEF isPair
  <2>2. job.i - 1 + 2 <= Len(job.in)
    BY <1>1, <2>1, LinkReads
  <2> QED BY <1>1, <1>2, <1>3, <1>4, <1>5, <1>7, <2>2
<1> QED BY <1>2, <1>8, <1>9, LinkOn

(* A link while it is read: what has been read up to the end of a piece has come out. *)
LinkHalf(P, q) ==
  /\ Pieces(cod.first, Len(cod.first), job.in, P) /\ q \in P
  /\ q[2] = job.i - 1 /\ Len(job.out) = q[1]
  /\ \A k \in 1..q[1] : job.out[k] = carried(cod.first, k)
(* Some pieces are those that are read. *)
LinkRead ==
  /\ cod.todo = <<"decode">> /\ job.task = "decode" /\ job.chars = {}
  /\ \E P, q : LinkHalf(P, q)

(* A round that reads a piece to its end and gives the units it carries. *)
LEMMA LinkReadOn ==
  ASSUME CodType, LinkRead, NEW P, NEW q, LinkHalf(P, q), NEW r, r \in P,
         NEW u \in Seq(Unit), NEW n \in Nat, writes(u, n), r[2] = q[2] + n, r[1] = q[1] + Len(u),
         \A k \in 1..Len(u) : carried(cod.first, q[1] + k) = u[k]
  PROVE  LinkRead'
<1>1. /\ cod'.todo = cod.todo /\ cod'.first = cod.first /\ job'.task = job.task
      /\ job'.in = job.in /\ job'.chars = job.chars
      /\ job'.i = job.i + n /\ job'.out = job.out \o u
  BY Writes
<1>2. PICK w, o, i, v : w = cod.first /\ o = job.out /\ i = job.i /\ v = job.out \o u
  OBVIOUS
<1>3. i \in Nat \ {0} /\ o \in Seq(Unit)
  BY <1>2, JobFields
<1>4. /\ Pieces(w, Len(w), job.in, P) /\ q \in P /\ q[2] = i - 1 /\ Len(o) = q[1]
      /\ \A k \in 1..q[1] : o[k] = carried(w, k)
  BY <1>2 DEF LinkHalf
<1>5. q[1] \in Nat /\ q[2] \in Nat
  BY <1>4 DEF Pieces
<1>6. PICK m, d \in Nat : m = Len(u) /\ d = q[1]
  BY <1>5
<1>7. Len(v) = d + m /\ (\A k \in 1..d : v[k] = o[k]) /\ (\A k \in 1..m : v[d + k] = u[k])
  <2>1. Len(o) = d /\ v = o \o u
    BY <1>2, <1>4, <1>6
  <2>2. /\ Len(o \o u) = Len(o) + Len(u)
        /\ \A k \in 1..Len(o) : (o \o u)[k] = o[k]
        /\ \A k \in 1..Len(u) : (o \o u)[Len(o) + k] = u[k]
    BY <1>3, Joined
  <2> QED BY <1>6, <2>1, <2>2
<1>8. ASSUME NEW k \in 1..(d + m)
      PROVE  v[k] = carried(w, k)
  <2>1. CASE k \in 1..d
    BY ONLY <1>4, <1>6, <1>7, <2>1
  <2>2. CASE k \notin 1..d
    <3>1. PICK j \in 1..m : k = d + j
      <4>1. k - d \in 1..m /\ k = d + (k - d)
        BY ONLY <2>2, m \in Nat, d \in Nat, k \in 1..(d + m)
      <4> QED BY <4>1
    <3>2. carried(w, d + j) = u[j]
      BY <1>2, <1>6, <3>1
    <3> QED BY ONLY <1>7, <3>1, <3>2
  <2> QED BY <2>1, <2>2
<1>9. r[2] = (i + n) - 1 /\ r[1] = d + m
  BY <1>3, <1>4, <1>5, <1>6
<1>10. LinkHalf(P, r)'
  <2>1. /\ Pieces(w, Len(w), job.in, P) /\ r \in P /\ r[2] = (i + n) - 1 /\ Len(v) = r[1]
        /\ \A k \in 1..r[1] : v[k] = carried(w, k)
    BY ONLY <1>4, <1>7, <1>8, <1>9, r \in P
  <2>2. cod'.first = w /\ job'.in = job.in /\ job'.i = i + n /\ job'.out = v
    BY <1>1, <1>2
  <2> QED BY <2>1, <2>2 DEF LinkHalf
<1>11. cod'.todo = <<"decode">> /\ job'.task = "decode" /\ job'.chars = {}
  BY <1>1 DEF LinkRead
<1> QED BY <1>10, <1>11 DEF LinkRead

(* What comes next is a piece. *)
LEMMA LinkAhead ==
  ASSUME CodType, LinkRead, job.i <= Len(job.in), NEW P, NEW q, LinkHalf(P, q)
  PROVE  /\ q[1] \in Nat /\ q[2] \in Nat /\ q[2] = job.i - 1
         /\ \E r \in P : /\ r[1] \in Nat /\ r[2] \in Nat
                         /\ Piece(cod.first, q[1], job.in, q[2], r[1], r[2])
<1>1. PICK w, s, i : w = cod.first /\ s = job.in /\ i = job.i
  OBVIOUS
<1>2. i \in Nat \ {0} /\ i <= Len(s) /\ w \in Seq(Unit) /\ s \in Seq(Unit)
  BY <1>1, JobFields
<1>3. Pieces(w, Len(w), s, P) /\ q \in P /\ q[2] = i - 1
  BY <1>1 DEF LinkHalf
<1>4. PICK n, m \in Nat : n = Len(w) /\ m = Len(s)
  BY <1>2
<1>5. q[1] \in Nat /\ q[2] \in Nat /\ q[1] <= n /\ (q[1] = n => q[2] = m)
  BY <1>3, <1>4 DEF Pieces
<1>6. q[1] < n
  BY <1>2, <1>3, <1>4, <1>5
<1>7. PICK r \in P : Piece(w, q[1], s, q[2], r[1], r[2])
  BY <1>3, <1>4, <1>6 DEF Pieces
<1>8. r[1] \in Nat /\ r[2] \in Nat
  BY <1>3, <1>7 DEF Pieces
<1> QED BY <1>1, <1>3, <1>5, <1>7, <1>8

(* A character that was not escaped stays; an escaped one comes back. *)
LEMMA LinkPlainOn ==
  ASSUME CodType, LinkRead, NEW P, NEW q, LinkHalf(P, q), NEW r \in P,
         r[1] \in Nat, r[2] \in Nat, q[1] \in Nat, q[2] \in Nat,
         PlainPiece(cod.first, q[1], job.in, q[2], r[1], r[2])
  PROVE  /\ byteAt(job.i) = -1
         /\ DecodePlain => LinkRead'
<1>1. q[2] = job.i - 1
  BY DEF LinkHalf
<1>2. /\ r[1] = q[1] + 1 /\ r[2] = q[2] + 1 /\ r[2] <= Len(job.in)
      /\ job.in[r[2]] # Percent /\ job.in[r[2]] = carried(cod.first, r[1])
  BY DEF PlainPiece
<1>3. r[2] = job.i
  BY <1>1, <1>2, JobFields
<1>4. ~ isEscape(job.in, job.i)
  BY <1>2, <1>3 DEF isEscape
<1>5. byteAt(job.i) = -1
  BY <1>4 DEF byteAt
<1>6. ASSUME DecodePlain PROVE LinkRead'
  <2>1. writes(<<code>>, 1) /\ code = job.in[job.i] /\ job.i <= Len(job.in)
    BY <1>6 DEF DecodePlain, code, reads
  <2>2. code \in Unit
    BY <2>1, JobFields
  <2>3. PICK u \in Seq(Unit) : u = <<code>> /\ Len(u) = 1 /\ u[1] = code
    BY <2>2, Singles
  <2>4. \A k \in 1..Len(u) : carried(cod.first, q[1] + k) = u[k]
    BY <1>2, <1>3, <2>1, <2>3
  <2>5. writes(u, 1) /\ r[2] = q[2] + 1 /\ r[1] = q[1] + Len(u)
    BY <1>2, <2>1, <2>3
  <2> QED BY <2>4, <2>5, LinkReadOn
<1> QED BY <1>5, <1>6

(* Escapes that were written come back, whichever branch of decode reads *)
(* them.                                                                 *)
LEMMA LinkCodedOn ==
  ASSUME CodType, LinkRead, NEW P, NEW q, LinkHalf(P, q), NEW r \in P,
         r[1] \in Nat, r[2] \in Nat, q[1] \in Nat, q[2] \in Nat,
         CodedPiece(cod.first, q[1], job.in, q[2], r[1], r[2]),
         DecodeAscii \/ DecodeSequence \/ DecodeBroken \/ DecodePlain
  PROVE  LinkRead'
<1>1. q[2] = job.i - 1
  BY DEF LinkHalf
<1>2. PICK cp \in Nat :
        /\ cp <= LastCode /\ cp \notin High \cup Low
        /\ EscapesAt(job.in, q[2], utf8(cp)) /\ r[2] = q[2] + 3 * Len(utf8(cp))
        /\ r[1] = q[1] + Len(units(cp))
        /\ \A k \in 1..Len(units(cp)) : carried(cod.first, q[1] + k) = units(cp)[k]
  BY DEF CodedPiece
<1>3. job.in \in Seq(Unit) /\ job.i \in Nat \ {0} /\ EscapesAt(job.in, job.i - 1, utf8(cp))
  BY <1>1, <1>2, JobFields
<1>4. PICK u \in Seq(Byte) : u = utf8(cp) /\ Len(u) \in 1..4
  BY <1>2, Utf8Bytes
<1>n. PICK len \in 1..4 : len = Len(u)
  BY <1>4
<1>5. CASE cp < 128
  <2>1. utf8(cp) = <<cp>> /\ Len(utf8(cp)) = 1 /\ utf8(cp)[1] = cp
    BY <1>5, Utf8One
  <2>2. b(1) = u[1] /\ isEscape(job.in, job.i + 3 * (1 - 1)) /\ byteAt(job.i + 3 * (1 - 1)) = u[1]
    <3>1. \A k \in 1..Len(u) :
            /\ b(k) = u[k] /\ isEscape(job.in, job.i + 3 * (k - 1))
            /\ byteAt(job.i + 3 * (k - 1)) = u[k]
      BY <1>3, <1>4, BytesAhead
    <3>2. 1 \in 1..Len(u)
      BY <1>4, <2>1
    <3> QED BY ONLY <3>1, <3>2, Zenon
  <2>3. job.i + 3 * (1 - 1) = job.i
    BY <1>3
  <2>4. b(1) = cp /\ byteAt(job.i) = cp
    BY <1>4, <2>1, <2>2, <2>3
  <2>5. DecodeAscii
    <3>1. b(1) < 128 /\ ~ (b(1) >= 128) /\ byteAt(job.i) # -1
      BY ONLY <1>5, <2>4, cp \in Nat
    <3> QED BY <3>1 DEF DecodeSequence, DecodeBroken, DecodePlain
  <2>6. writes(<<cp>>, 3)
    <3>1. b(1) \notin job.chars
      BY DEF LinkRead
    <3> QED BY <2>4, <2>5, <3>1 DEF DecodeAscii
  <2>7. units(cp) = <<cp>> /\ Len(units(cp)) = 1 /\ units(cp)[1] = cp
    BY <1>5, UnitsOfOne
  <2>8. <<cp>> \in Seq(Unit)
    <3>1. cp \in Unit
      BY ONLY <1>5, cp \in Nat, InUnit, SMT
    <3> QED BY <3>1
  <2>9. r[2] = q[2] + 3 /\ r[1] = q[1] + Len(<<cp>>)
    BY <1>2, <2>1, <2>7
  <2>10. \A k \in 1..Len(<<cp>>) : carried(cod.first, q[1] + k) = <<cp>>[k]
    BY <1>2, <2>7
  <2>11. PICK t \in Seq(Unit) : t = <<cp>>
    BY <2>8
  <2>12. writes(t, 3) /\ r[2] = q[2] + 3 /\ r[1] = q[1] + Len(t)
         /\ \A k \in 1..Len(t) : carried(cod.first, q[1] + k) = t[k]
    BY <2>6, <2>9, <2>10, <2>11
  <2> QED BY <2>12, LinkReadOn
<1>6. CASE cp >= 128
  <2>1. /\ byteAt(job.i) # -1 /\ b(1) >= 128
        /\ sequence = Len(utf8(cp)) /\ sequence \in 2..4
        /\ chr(sequence) = cp /\ ~ refused(sequence, cp)
    BY <1>2, <1>3, <1>6, DecodesChar
  <2>2. sequence > 1 /\ sequence # 1 /\ ~ (b(1) < 128)
    <3>1. PICK n \in 2..4 : n = sequence
      BY <2>1
    <3>2. PICK x \in 0..255 : x = b(1)
      <4>1. b(1) = u[1]
        <5>1. \A k \in 1..Len(u) : b(k) = u[k]
          BY <1>3, <1>4, BytesAhead
        <5>2. 1 \in 1..Len(u)
          BY ONLY <1>n
        <5> QED BY <5>1, <5>2
      <4>2. u[1] \in Byte
        BY ONLY <1>n, u \in Seq(Byte)
      <4> QED BY <4>1, <4>2 DEF Byte
    <3>3. n > 1 /\ n # 1
      OBVIOUS
    <3>4. ~ (b(1) < 128)
      BY ONLY <2>1, <3>2
    <3> QED BY ONLY <3>1, <3>3, <3>4
  <2>3. DecodeSequence
    BY <2>1, <2>2 DEF DecodeAscii, DecodeBroken, DecodePlain
  <2>4. writes(units(cp), 3 * sequence)
    BY <2>1, <2>3 DEF DecodeSequence
  <2>5. units(cp) \in Seq(Unit)
    <3>1. CASE cp < 65536
      <4>1. cp \in Unit
        BY ONLY <3>1, cp \in Nat, InUnit, SMT
      <4>2. units(cp) = <<cp>>
        BY <3>1, UnitsOfOne
      <4> QED BY ONLY <4>1, <4>2, Singles
    <3>2. CASE cp >= 65536
      <4>1. PICK x, y : x = 55296 + ((cp - 65536) \div 1024) /\ y = 56320 + ((cp - 65536) % 1024)
        OBVIOUS
      <4>2. x \in Int /\ 0 <= x /\ x <= 65535 /\ y \in Int /\ 0 <= y /\ y <= 65535
        BY ONLY <1>2, cp \in Nat, <3>2, <4>1, SMT DEF LastCode
      <4>3. x \in Unit /\ y \in Unit
        BY ONLY <4>2, InUnit, SMT
      <4>4. units(cp) = <<x, y>>
        BY ONLY cp \in Nat, <3>2, <4>1, SMT DEF units
      <4> QED BY ONLY <4>3, <4>4
    <3> QED BY <3>1, <3>2
  <2>6. PICK n \in Nat : n = 3 * sequence /\ r[2] = q[2] + n
    BY <1>2, <2>1
  <2>7. writes(units(cp), n)
    BY <2>4, <2>6
  <2> QED BY <1>2, <2>5, <2>6, <2>7, LinkReadOn
<1> QED BY <1>5, <1>6, SMT

(* Every round of decode reads one piece. *)
LEMMA LinkReadKeeps ==
  ASSUME CodType, LinkRead, CodecNext, ~ NextJob
  PROVE  LinkRead'
<1>1. DecodeAscii \/ DecodeSequence \/ DecodeBroken \/ DecodePlain
  BY DEF LinkRead, CodecNext, EncodeEscaped, EncodeAscii, EncodePair, EncodeLone, EncodeOther, reads
<1>2. job.i <= Len(job.in)
  BY <1>1 DEF DecodeAscii, DecodeSequence, DecodeBroken, DecodePlain, decoding, reads
<1>3. PICK P, q : LinkHalf(P, q)
  BY DEF LinkRead
<1>4. /\ q[1] \in Nat /\ q[2] \in Nat
      /\ \E r \in P : /\ r[1] \in Nat /\ r[2] \in Nat
                      /\ Piece(cod.first, q[1], job.in, q[2], r[1], r[2])
  BY <1>2, <1>3, LinkAhead
<1>5. PICK r \in P : r[1] \in Nat /\ r[2] \in Nat
                     /\ Piece(cod.first, q[1], job.in, q[2], r[1], r[2])
  BY <1>4
<1>6. CASE PlainPiece(cod.first, q[1], job.in, q[2], r[1], r[2])
  <2>1. byteAt(job.i) = -1 /\ (DecodePlain => LinkRead')
    BY <1>3, <1>4, <1>5, <1>6, LinkPlainOn
  <2> QED BY <1>1, <2>1 DEF DecodeAscii, DecodeSequence, DecodeBroken, decoding
<1>7. CASE CodedPiece(cod.first, q[1], job.in, q[2], r[1], r[2])
  BY <1>1, <1>3, <1>4, <1>5, <1>7, LinkCodedOn
<1> QED BY <1>5, <1>6, <1>7 DEF Piece

(* A new job. *)
LEMMA JobOf ==
  ASSUME NEW task \in {"encode", "decode"}, NEW in \in Seq(Unit), NEW chars \in SUBSET Int,
         NEW keep \in BOOLEAN, NEW j, j = jobOf(task, in, chars, keep)
  PROVE  /\ j \in JobType /\ j.task = task /\ j.in = in /\ j.i = 1 /\ j.out = <<>>
         /\ j.chars = chars /\ j.keepEscaped = keep
<1>1. <<>> \in Seq(Unit) /\ 1 \in Nat \ {0}
  OBVIOUS
<1> QED BY ONLY <1>1, j = jobOf(task, in, chars, keep), task \in {"encode", "decode"}, in \in Seq(Unit),
     chars \in SUBSET Int, keep \in BOOLEAN DEF jobOf, JobType

(* The sets of characters to except are sets of characters. *)
LEMMA CharSets ==
  linkChars \in SUBSET Int /\ encodeDefault \in SUBSET Int /\ decodeDefault \in SUBSET Int
  /\ componentChars \in SUBSET Int
BY SMT DEF linkChars, encodeDefault, decodeDefault, componentChars

(* The next job takes what has come out; after the last one nothing follows. *)
LEMMA NextJobIs ==
  ASSUME CodType, NextJob
  PROVE  /\ CodType' /\ cod'.kind = cod.kind /\ cod'.first = cod.first /\ job.i > Len(job.in)
         /\ \/ /\ cod.todo = <<"encode", "decode">> /\ cod'.todo = <<"decode">>
               /\ job' = jobOf("decode", job.out, componentChars, FALSE)
            \/ /\ cod.todo = <<"encode", "encode">> /\ cod'.todo = <<"encode">>
               /\ job' = jobOf("encode", job.out, job.chars, TRUE)
            \/ /\ cod.todo \in {<<"encode">>, <<"decode">>} /\ cod'.todo = <<>>
               /\ job' = job
<1>1. /\ cod.todo # <<>> /\ job.i > Len(job.in)
      /\ cod' = [cod EXCEPT
               !.todo = Tail(@),
               !.job = IF Len(cod.todo) = 1 THEN @
                       ELSE IF cod.todo[2] = "decode"
                            THEN jobOf("decode", job.out, componentChars, FALSE)
                       ELSE jobOf("encode", job.out, job.chars, TRUE)]
  BY DEF NextJob
<1>2. /\ cod.job = job /\ job \in JobType /\ job.out \in Seq(Unit) /\ job.chars \in SUBSET Int
      /\ cod.todo \in Todos
  BY JobFields DEF job
<1>3. PICK t, j, n : /\ t = cod.todo /\ n = Tail(t)
                     /\ j = (IF Len(t) = 1 THEN job
                             ELSE IF t[2] = "decode"
                                  THEN jobOf("decode", job.out, componentChars, FALSE)
                             ELSE jobOf("encode", job.out, job.chars, TRUE))
  OBVIOUS
<1>4. cod' = [[cod EXCEPT !.todo = n] EXCEPT !.job = j]
  BY <1>1, <1>2, <1>3
<1>5. jobOf("decode", job.out, componentChars, FALSE) \in JobType
      /\ jobOf("encode", job.out, job.chars, TRUE) \in JobType
  <2>1. PICK jd, je : /\ jd = jobOf("decode", job.out, componentChars, FALSE)
                      /\ je = jobOf("encode", job.out, job.chars, TRUE)
    OBVIOUS
  <2>2. jd \in JobType
    BY <1>2, <2>1 DEF jobOf, JobType, componentChars
  <2>3. je \in JobType
    BY <1>2, <2>1 DEF jobOf, JobType
  <2> QED BY <2>1, <2>2, <2>3
<1>6. \/ /\ t = <<"encode", "decode">> /\ n = <<"decode">>
         /\ j = jobOf("decode", job.out, componentChars, FALSE)
      \/ /\ t = <<"encode", "encode">> /\ n = <<"encode">>
         /\ j = jobOf("encode", job.out, job.chars, TRUE)
      \/ t \in {<<"encode">>, <<"decode">>} /\ n = <<>> /\ j = job
  <2>1. t \in Todos /\ t # <<>>
    BY <1>1, <1>2, <1>3
  <2>2. CASE t = <<"encode", "decode">>
    BY <1>3, <2>2
  <2>3. CASE t = <<"encode", "encode">>
    BY <1>3, <2>3
  <2>4. CASE t = <<"encode">>
    BY <1>3, <2>4
  <2>5. CASE t = <<"decode">>
    BY <1>3, <2>5
  <2> QED BY <2>1, <2>2, <2>3, <2>4, <2>5 DEF Todos
<1>7. n \in Todos /\ j \in JobType
  BY <1>2, <1>5, <1>6 DEF Todos
<1>8. cod \in [kind : {"link", "address", "bytes"}, todo : Todos, first : Seq(Unit), job : JobType]
  BY DEF CodType
<1>9. /\ cod' \in [kind : {"link", "address", "bytes"}, todo : Todos, first : Seq(Unit), job : JobType]
      /\ cod'.kind = cod.kind /\ cod'.first = cod.first /\ cod'.todo = n /\ cod'.job = j
  BY ONLY <1>4, <1>7, <1>8
<1> QED BY <1>1, <1>3, <1>6, <1>9 DEF CodType, job

(* A link that was read. *)
LinkDone ==
  cod.todo = <<>> /\ job.out = [k \in DOMAIN cod.first |-> carried(cod.first, k)]
(* A link, however far it has come. *)
LinkInv == LinkWritten \/ LinkRead \/ LinkDone

(* All is written: decode begins at the first piece. *)
LEMMA LinkTurns ==
  ASSUME CodType, LinkWritten, NextJob
  PROVE  LinkRead'
<1>1. cod.todo = <<"encode", "decode">>
  BY DEF LinkWritten
<1>2. /\ cod'.todo = <<"decode">> /\ job' = jobOf("decode", job.out, componentChars, FALSE)
      /\ cod'.first = cod.first /\ job.i > Len(job.in)
  <2>1. cod.todo # <<"encode", "encode">> /\ cod.todo # <<"encode">> /\ cod.todo # <<"decode">>
    BY <1>1
  <2> QED BY <2>1, NextJobIs
<1>3. /\ job'.task = "decode" /\ job'.in = job.out /\ job'.i = 1 /\ job'.out = <<>>
      /\ job'.chars = {}
  <2>1. job.out \in Seq(Unit) /\ componentChars = {}
    BY JobFields DEF componentChars
  <2>2. PICK j : j = jobOf("decode", job.out, componentChars, FALSE)
    OBVIOUS
  <2>3. /\ j.task = "decode" /\ j.in = job.out /\ j.i = 1 /\ j.out = <<>> /\ j.chars = componentChars
    BY <2>2 DEF jobOf
  <2> QED BY ONLY <1>2, <2>1, <2>2, <2>3
<1>4. job.i - 1 = Len(cod.first)
  <2>1. job.i \in Nat /\ job.i - 1 <= Len(job.in) /\ job.in = cod.first /\ cod.first \in Seq(Unit)
    BY JobFields DEF LinkWritten
  <2> QED BY <1>2, <2>1
<1>5. PICK P : Pieces(cod.first, Len(cod.first), job.out, P)
  BY <1>4 DEF LinkWritten
<1>6. PICK q : q = <<0, 0>>
  OBVIOUS
<1>7. LinkHalf(P, q)'
  <2>1. q \in P /\ q[1] = 0 /\ q[2] = 0
    BY <1>5, <1>6 DEF Pieces
  <2>2. /\ Pieces(cod'.first, Len(cod'.first), job'.in, P) /\ q \in P
        /\ q[2] = job'.i - 1 /\ Len(job'.out) = q[1]
        /\ \A k \in 1..q[1] : job'.out[k] = carried(cod'.first, k)
    <3>1. Pieces(cod'.first, Len(cod'.first), job'.in, P)
      BY <1>2, <1>3, <1>5
    <3>2. q[2] = job'.i - 1 /\ Len(job'.out) = q[1] /\ 1..q[1] = {}
      BY <1>3, <2>1
    <3> QED BY <2>1, <3>1, <3>2
  <2> QED BY <2>2 DEF LinkHalf
<1> QED BY <1>2, <1>3, <1>7 DEF LinkRead

(* All is read: what has come out is what was carried. *)
LEMMA LinkEnds ==
  ASSUME CodType, LinkRead, NextJob
  PROVE  LinkDone'
<1>1. cod'.todo = <<>> /\ job' = job /\ cod'.first = cod.first /\ job.i > Len(job.in)
  <2>1. cod.todo = <<"decode">>
    BY DEF LinkRead
  <2>2. cod.todo # <<"encode", "encode">> /\ cod.todo # <<"encode", "decode">>
    BY <2>1
  <2> QED BY <2>2, NextJobIs
<1>2. PICK P, q : LinkHalf(P, q)
  BY DEF LinkRead
<1>3. PICK w, s, o, i : w = cod.first /\ s = job.in /\ o = job.out /\ i = job.i
  OBVIOUS
<1>4. w \in Seq(Unit) /\ s \in Seq(Unit) /\ o \in Seq(Unit) /\ i \in Nat /\ i > Len(s)
  BY <1>1, <1>3, JobFields
<1>5. /\ Pieces(w, Len(w), s, P) /\ q \in P /\ q[2] = i - 1 /\ Len(o) = q[1]
      /\ \A k \in 1..q[1] : o[k] = carried(w, k)
  BY <1>2, <1>3 DEF LinkHalf
<1>6. PICK n, m \in Nat : n = Len(w) /\ m = Len(s)
  BY <1>4
<1>7. /\ q[1] \in Nat /\ q[2] \in Nat /\ q[1] <= n /\ q[2] <= m
      /\ q[1] < n => \E r \in P : Piece(w, q[1], s, q[2], r[1], r[2]) /\ r[2] \in Nat /\ r[2] <= m
  BY <1>5, <1>6 DEF Pieces
<1>8. q[2] = m
  BY <1>4, <1>5, <1>6, <1>7
<1>9. q[1] = n
  <2>1. SUFFICES ASSUME q[1] < n PROVE FALSE
    BY <1>7
  <2>2. PICK r \in P : Piece(w, q[1], s, q[2], r[1], r[2]) /\ r[2] \in Nat /\ r[2] <= m
    BY <1>7, <2>1
  <2>3. r[2] > q[2]
    <3>1. CASE PlainPiece(w, q[1], s, q[2], r[1], r[2])
      BY <1>7, <3>1 DEF PlainPiece
    <3>2. CASE CodedPiece(w, q[1], s, q[2], r[1], r[2])
      <4>1. PICK cp \in Nat : cp <= LastCode /\ r[2] = q[2] + 3 * Len(utf8(cp))
        BY <3>2 DEF CodedPiece
      <4>2. PICK l \in 1..4 : l = Len(utf8(cp))
        BY <4>1, Utf8Bytes
      <4>3. q[2] \in Nat /\ r[2] = q[2] + 3 * l
        BY <1>7, <4>1, <4>2
      <4> QED BY ONLY <4>2, <4>3
    <3> QED BY <2>2, <3>1, <3>2 DEF Piece
  <2> QED BY ONLY <1>7, <1>8, <2>2, <2>3
<1>10. o = [k \in DOMAIN w |-> carried(w, k)]
  <2>1. DOMAIN o = 1..n /\ DOMAIN w = 1..n /\ o = [k \in DOMAIN o |-> o[k]]
    BY <1>4, <1>5, <1>6, <1>9
  <2>2. \A k \in 1..n : o[k] = carried(w, k)
    BY <1>5, <1>9
  <2> QED BY ONLY <2>1, <2>2
<1> QED BY <1>1, <1>3, <1>10 DEF LinkDone

(* Every step of a link keeps this. *)
LEMMA LinkInvKeeps ==
  ASSUME CodType, LinkInv, CodecNext
  PROVE  LinkInv'
<1>1. CASE LinkWritten
  <2>1. CASE NextJob
    BY <1>1, <2>1, LinkTurns DEF LinkInv
  <2>2. CASE ~ NextJob
    <3>1. EncodeAscii \/ EncodePair \/ EncodeLone \/ EncodeOther
      BY <1>1, <2>2 DEF LinkWritten, CodecNext, DecodeAscii, DecodeSequence, DecodeBroken, DecodePlain,
           decoding, reads, EncodeEscaped, keeps
    <3> QED BY <1>1, <3>1, LinkAscii, LinkPair, LinkLone, LinkOther DEF LinkInv
  <2> QED BY <2>1, <2>2
<1>2. CASE LinkRead
  BY <1>2, LinkReadKeeps, LinkEnds DEF LinkInv
<1>3. CASE LinkDone
  BY <1>3 DEF LinkDone, CodecNext, NextJob, DecodeAscii, DecodeSequence, DecodeBroken, DecodePlain,
        decoding, reads, EncodeEscaped, EncodeAscii, EncodePair, EncodeLone, EncodeOther
<1> QED BY <1>1, <1>2, <1>3 DEF LinkInv

(* At the end the link has carried its text. *)
LEMMA LinkInvSound ==
  ASSUME LinkInv, finished
  PROVE  LinkCarries
<1>1. LinkDone
  BY DEF LinkInv, LinkWritten, LinkRead, finished
<1> QED BY <1>1 DEF LinkDone, LinkCarries, carried

(* A text of characters that are kept and of escapes; C are the ends of these. *)
Kept == Alphanumeric \cup encodeDefault
(* A character that is kept, or an escape. *)
Chunk(s, c, C) == \/ s[c + 1] \in Kept /\ c + 1 \in C
                  \/ isEscape(s, c + 1) /\ c + 3 \in C
(* Nothing but these. *)
Chunks(s, C) ==
  /\ C \subseteq Nat /\ 0 \in C /\ Len(s) \in C
  /\ \A c \in C : c <= Len(s) /\ (c < Len(s) => Chunk(s, c, C))

(* Two such texts joined are one. *)
LEMMA ChunksJoin ==
  ASSUME NEW s \in Seq(Unit), NEW t \in Seq(Unit), NEW C, Chunks(s, C), NEW D, Chunks(t, D)
  PROVE  \E E : Chunks(s \o t, E)
<1>1. PICK n, m \in Nat : n = Len(s) /\ m = Len(t)
  OBVIOUS
<1>2. PICK r \in Seq(Unit) : r = s \o t
  BY Joined
<1>3. /\ Len(r) = n + m /\ (\A k \in 1..n : r[k] = s[k]) /\ (\A k \in 1..m : r[n + k] = t[k])
  BY <1>1, <1>2, Joined
<1>4. PICK F : F = {n + d : d \in D}
  OBVIOUS
<1>5. PICK E : E = C \cup F
  OBVIOUS
<1>6. /\ C \subseteq Nat /\ 0 \in C /\ n \in C
      /\ \A c \in C : c <= n /\ (c < n => Chunk(s, c, C))
  BY <1>1 DEF Chunks
<1>7. /\ D \subseteq Nat /\ 0 \in D /\ m \in D
      /\ \A d \in D : d <= m /\ (d < m => Chunk(t, d, D))
  BY <1>1 DEF Chunks
<1>8. E \subseteq Nat /\ 0 \in E /\ n + m \in E
  <2>1. \A d \in D : n + d \in Nat
    BY <1>7
  <2>2. F \subseteq Nat /\ n + m \in F
    BY <1>4, <1>7, <2>1
  <2> QED BY <1>5, <1>6, <2>2
<1>9. ASSUME NEW d \in D
      PROVE  n + d <= n + m /\ (n + d < n + m => Chunk(r, n + d, E))
  <2>1. d \in Nat /\ d <= m
    BY <1>7
  <2>2. ASSUME d < m
        PROVE  Chunk(r, n + d, E)
    <3>1. (n + d) + 1 = n + (d + 1) /\ (n + d) + 3 = n + (d + 3) /\ d + 1 \in 1..m
          /\ (n + d) + 1 + 1 = n + (d + 1 + 1) /\ (n + d) + 1 + 2 = n + (d + 1 + 2)
      BY <2>1, <2>2
    <3>2. r[(n + d) + 1] = t[d + 1]
      BY <1>3, <3>1
    <3>3. Chunk(t, d, D)
      BY <1>7, <2>2
    <3>4. CASE t[d + 1] \in Kept /\ d + 1 \in D
      <4>1. n + (d + 1) \in E
        BY <1>4, <1>5, <3>4
      <4> QED BY <3>1, <3>2, <3>4, <4>1 DEF Chunk
    <3>5. CASE isEscape(t, d + 1) /\ d + 3 \in D
      <4>1. n + (d + 3) \in E
        BY <1>4, <1>5, <3>5
      <4>2. (d + 1) + 2 <= m /\ t[d + 1] = Percent /\ t[(d + 1) + 1] \in Digits /\ t[(d + 1) + 2] \in Digits
        BY <1>1, <3>5 DEF isEscape
      <4>3. (d + 1) + 1 \in 1..m /\ (d + 1) + 2 \in 1..m /\ ((n + d) + 1) + 2 <= n + m
        BY <2>1, <4>2
      <4>4. r[((n + d) + 1) + 1] \in Digits /\ r[((n + d) + 1) + 2] \in Digits
        <5>1. PICK x, y : x = (d + 1) + 1 /\ y = (d + 1) + 2
          OBVIOUS
        <5>2. r[n + x] = t[x] /\ r[n + y] = t[y]
          BY <1>3, <4>3, <5>1
        <5>3. ((n + d) + 1) + 1 = n + x /\ ((n + d) + 1) + 2 = n + y
          BY <2>1, <5>1
        <5> QED BY ONLY <4>2, <5>1, <5>2, <5>3
      <4>5. isEscape(r, (n + d) + 1)
        BY <1>3, <3>2, <4>2, <4>3, <4>4 DEF isEscape
      <4> QED BY <3>1, <4>1, <4>5 DEF Chunk
    <3> QED BY <3>3, <3>4, <3>5 DEF Chunk
  <2> QED BY <2>1, <2>2
<1>10. ASSUME NEW c \in C, c < n
      PROVE  c <= n + m /\ Chunk(r, c, E)
  <2>1. c \in Nat /\ c + 1 \in 1..n
    BY <1>6, <1>10
  <2>2. r[c + 1] = s[c + 1]
    BY <1>3, <2>1
  <2>3. Chunk(s, c, C)
    BY <1>6, <1>10
  <2>4. CASE s[c + 1] \in Kept /\ c + 1 \in C
    BY <1>5, <1>10, <2>1, <2>2, <2>4 DEF Chunk
  <2>5. CASE isEscape(s, c + 1) /\ c + 3 \in C
    <3>1. (c + 1) + 2 <= n /\ s[c + 1] = Percent /\ s[(c + 1) + 1] \in Digits /\ s[(c + 1) + 2] \in Digits
      BY <1>1, <2>5 DEF isEscape
    <3>2. (c + 1) + 1 \in 1..n /\ (c + 1) + 2 \in 1..n /\ (c + 1) + 2 <= n + m
      BY <2>1, <3>1
    <3>3. isEscape(r, c + 1)
      BY <1>3, <2>2, <3>1, <3>2 DEF isEscape
    <3> QED BY <1>5, <2>1, <2>5, <3>2, <3>3 DEF Chunk
  <2>6. c <= n + m
    BY <1>10, <2>1
  <2> QED BY <2>3, <2>4, <2>5, <2>6 DEF Chunk
<1>11. ASSUME NEW c \in E
       PROVE  c <= n + m /\ (c < n + m => Chunk(r, c, E))
  <2>1. CASE c \in C /\ c < n
    BY <1>10, <2>1
  <2>2. CASE c \in C /\ ~ (c < n)
    <3>1. c = n + 0 /\ 0 \in D
      BY <1>6, <1>7, <2>2
    <3> QED BY <1>9, <3>1
  <2>3. CASE c \in F
    <3>1. PICK d \in D : c = n + d
      BY <1>4, <2>3
    <3> QED BY <1>9, <3>1
  <2> QED BY <1>5, <2>1, <2>2, <2>3
<1>12. Chunks(r, E)
  BY <1>3, <1>8, <1>11 DEF Chunks
<1> QED BY <1>2, <1>12

(* A character that is kept is one. *)
LEMMA ChunksOne ==
  ASSUME NEW x \in Unit, x \in Kept
  PROVE  \E C : Chunks(<<x>>, C)
<1>1. PICK u \in Seq(Unit) : u = <<x>> /\ Len(u) = 1 /\ u[1] = x
  BY Singles
<1>2. PICK C : C = {0, 1}
  OBVIOUS
<1>3. Chunk(u, 0, C)
  BY <1>1, <1>2 DEF Chunk
<1>4. Chunks(u, C)
  BY ONLY <1>1, <1>2, <1>3 DEF Chunks
<1> QED BY <1>1, <1>4

(* An escape is one. *)
LEMMA ChunksEscape ==
  ASSUME NEW u \in Seq(Unit), Len(u) = 3, isEscape(u, 1)
  PROVE  \E C : Chunks(u, C)
<1>1. PICK C : C = {0, 3}
  OBVIOUS
<1>2. Chunk(u, 0, C)
  BY <1>1 DEF Chunk
<1>3. Chunks(u, C)
  BY ONLY <1>1, <1>2, Len(u) = 3 DEF Chunks
<1> QED BY <1>3

(* The escapes of bytes are one. *)
LEMMA ChunksEscapes ==
  ASSUME NEW bytes \in Seq(Byte)
  PROVE  \E C : Chunks(escapes(bytes), C)
<1>1. PICK n \in Nat : n = Len(bytes)
  OBVIOUS
<1>2. PICK e \in Seq(Unit) : e = escapes(bytes)
  BY EscapesOf
<1>3. /\ Len(e) = 3 * n
      /\ \A k \in 1..n : /\ e[3 * k - 2] = Percent
                         /\ e[3 * k - 1] = hexDigit(bytes[k] \div 16)
                         /\ e[3 * k] = hexDigit(bytes[k] % 16)
  BY <1>1, <1>2, EscapesOf
<1>4. PICK C : C = {3 * k : k \in 0..n}
  OBVIOUS
<1>5. ASSUME NEW k \in 0..n
      PROVE  3 * k <= 3 * n /\ (3 * k < 3 * n => Chunk(e, 3 * k, C))
  <2>1. ASSUME k < n
        PROVE  Chunk(e, 3 * k, C)
    <3>1. /\ k + 1 \in 1..n /\ k + 1 \in 0..n /\ 3 * (k + 1) - 2 = 3 * k + 1
          /\ 3 * (k + 1) - 1 = (3 * k + 1) + 1
          /\ 3 * (k + 1) = (3 * k + 1) + 2 /\ (3 * k + 1) + 2 <= 3 * n /\ 3 * k + 3 = 3 * (k + 1)
      BY <1>1, <2>1
    <3>2. PICK y \in Byte : y = bytes[k + 1]
      BY <1>1, <3>1
    <3>3. e[3 * k + 1] = Percent /\ e[(3 * k + 1) + 1] = hexDigit(y \div 16)
          /\ e[(3 * k + 1) + 2] = hexDigit(y % 16)
      BY <1>3, <3>1, <3>2
    <3>4. y \div 16 \in 0..15 /\ y % 16 \in 0..15
      BY EscapedByte
    <3>5. hexDigit(y \div 16) \in Digits /\ hexDigit(y % 16) \in Digits
      BY <3>4, HexDigitRead
    <3>6. isEscape(e, 3 * k + 1)
      BY <1>3, <3>1, <3>3, <3>5 DEF isEscape
    <3>7. 3 * k + 3 \in C
      BY <1>4, <3>1
    <3> QED BY <3>6, <3>7 DEF Chunk
  <2> QED BY <2>1, <1>1
<1>6. C \subseteq Nat /\ 0 \in C /\ 3 * n \in C
  <2>1. 0 \in 0..n /\ n \in 0..n /\ 0 = 3 * 0
    OBVIOUS
  <2> QED BY <1>4, <2>1
<1>7. \A c \in C : c <= 3 * n /\ (c < 3 * n => Chunk(e, c, C))
  BY <1>4, <1>5
<1>8. Chunks(e, C)
  BY <1>3, <1>6, <1>7 DEF Chunks
<1> QED BY <1>2, <1>8

(* An address while it is encoded, and while it is encoded again. *)
AddressWritten ==
  /\ cod.todo = <<"encode", "encode">> /\ job.task = "encode"
  /\ job.chars = encodeDefault /\ job.keepEscaped = TRUE
  /\ \E C : Chunks(job.out, C)
(* Encoded again up to the end of a chunk: the same has come out. *)
AddressHalf(C) ==
  /\ Chunks(job.in, C) /\ job.i - 1 \in C
  /\ Len(job.out) = job.i - 1 /\ \A k \in 1..Len(job.out) : job.out[k] = job.in[k]
(* Some chunks are those that are read. *)
AddressRead ==
  /\ cod.todo = <<"encode">> /\ job.task = "encode"
  /\ job.chars = encodeDefault /\ job.keepEscaped = TRUE
  /\ \E C : AddressHalf(C)
(* An address that was encoded twice. *)
AddressDone == cod.todo = <<>> /\ job.out = job.in
(* An address, however far it has come. *)
AddressInv == AddressWritten \/ AddressRead \/ AddressDone

(* A round that writes chunks. *)
LEMMA AddressOn ==
  ASSUME CodType, AddressWritten, NEW u \in Seq(Unit), NEW n \in Nat, writes(u, n),
         NEW D, Chunks(u, D)
  PROVE  AddressWritten'
<1>1. /\ cod'.todo = cod.todo /\ job'.task = job.task
      /\ job'.chars = job.chars /\ job'.keepEscaped = job.keepEscaped /\ job'.out = job.out \o u
  BY Writes
<1>2. PICK C : Chunks(job.out, C)
  BY DEF AddressWritten
<1>3. \E E : Chunks(job.out \o u, E)
  <2>1. job.out \in Seq(Unit)
    BY JobFields
  <2> QED BY <1>2, <2>1, ChunksJoin
<1>4. \E E : Chunks(job'.out, E)
  BY <1>1, <1>3
<1> QED BY <1>1, <1>4 DEF AddressWritten

(* A round that writes the escapes of a code point. *)
LEMMA AddressCoded ==
  ASSUME CodType, AddressWritten, NEW cp \in Nat, cp <= LastCode, NEW n \in Nat,
         writes(encodeURIComponent(cp), n)
  PROVE  AddressWritten'
<1>1. PICK bytes \in Seq(Byte) : bytes = utf8(cp)
  BY Utf8Bytes
<1>2. PICK u \in Seq(Unit) : u = escapes(bytes)
  BY EscapesOf
<1>3. u = encodeURIComponent(cp)
  BY <1>1, <1>2 DEF encodeURIComponent
<1>4. PICK D : Chunks(u, D)
  BY <1>2, ChunksEscapes
<1>5. writes(u, n)
  BY <1>3
<1> QED BY <1>4, <1>5, AddressOn

(* The unit that is encoded next, of any text. *)
LEMMA CodeIs ==
  ASSUME CodType, job.i <= Len(job.in)
  PROVE  code \in Unit /\ code \in Nat /\ code <= 65535 /\ code <= LastCode /\ code = job.in[job.i]
<1>1. job.in \in Seq(Unit) /\ job.i \in Nat \ {0}
  BY JobFields
<1>2. code \in Unit /\ code = job.in[job.i]
  BY <1>1 DEF code
<1>3. code \in Nat /\ code <= 65535
  BY <1>2, InUnit, SMT
<1>4. code <= LastCode
  BY <1>3, SMT DEF LastCode
<1> QED BY <1>2, <1>3, <1>4

(* Every round of encode writes chunks, escapes that it keeps included. *)
LEMMA AddressWrittenKeeps ==
  ASSUME CodType, AddressWritten, CodecNext, ~ NextJob
  PROVE  AddressWritten'
<1>0. job.in \in Seq(Unit) /\ job.i \in Nat \ {0} /\ 1 \in Nat /\ 2 \in Nat /\ 3 \in Nat
  BY JobFields
<1>1. CASE EncodeEscaped
  <2>1. /\ isEscape(job.in, job.i) /\ writes(SubSeq(job.in, job.i, job.i + 2), 3)
    BY <1>1 DEF EncodeEscaped, keeps
  <2>2. PICK s, i : s = job.in /\ i = job.i
    OBVIOUS
  <2>3. s \in Seq(Unit) /\ i \in Nat \ {0} /\ i + 2 <= Len(s)
    BY <1>0, <2>1, <2>2 DEF isEscape
  <2>4. PICK u \in Seq(Unit) : /\ u = SubSeq(s, i, i + 2) /\ Len(u) = 3
                               /\ u[1] = s[i] /\ u[2] = s[i + 1] /\ u[3] = s[i + 2]
    <3>1. PICK l \in Nat : l = Len(s) /\ i + 2 <= l
      BY <2>3
    <3>2. SubSeq(s, i, i + 2) \in Seq(Unit) /\ Len(SubSeq(s, i, i + 2)) = 3
      BY <2>3
    <3>3. \A k \in 1..3 : SubSeq(s, i, i + 2)[k] = s[i + k - 1]
      BY <2>3
    <3>4. 1 \in 1..3 /\ 2 \in 1..3 /\ 3 \in 1..3 /\ i + 1 - 1 = i /\ i + 2 - 1 = i + 1 /\ i + 3 - 1 = i + 2
      BY <2>3
    <3>5. SubSeq(s, i, i + 2)[1] = s[i] /\ SubSeq(s, i, i + 2)[2] = s[i + 1] /\ SubSeq(s, i, i + 2)[3] = s[i + 2]
      BY ONLY <3>3, <3>4
    <3> QED BY ONLY <3>2, <3>5
  <2>5. isEscape(u, 1)
    <3>1. u[1] = Percent /\ u[1 + 1] \in Digits /\ u[1 + 2] \in Digits
      <4>1. s[i] = Percent /\ s[i + 1] \in Digits /\ s[i + 2] \in Digits
        BY <2>1, <2>2 DEF isEscape
      <4> QED BY ONLY <2>4, <4>1
    <3> QED BY <2>4, <3>1 DEF isEscape
  <2>6. PICK D : Chunks(u, D)
    BY <2>4, <2>5, ChunksEscape
  <2>7. writes(u, 3)
    BY <2>1, <2>2, <2>4
  <2> QED BY <2>6, <2>7, AddressOn
<1>2. CASE EncodeAscii
  <2>1. /\ job.i <= Len(job.in) /\ code < 128
        /\ writes(IF code \in Alphanumeric \cup job.chars THEN <<code>> ELSE escaped(code), 1)
    BY <1>2 DEF EncodeAscii, reads
  <2>2. code \in Unit /\ code \in Nat
    BY <2>1, CodeIs
  <2>3. CASE code \in Alphanumeric \cup job.chars
    <3>1. code \in Kept
      BY <2>3 DEF AddressWritten, Kept
    <3>2. PICK x \in Unit : x = code
      BY <2>2
    <3>3. PICK u \in Seq(Unit) : u = <<x>>
      BY Singles
    <3>4. PICK D : Chunks(u, D)
      BY <3>1, <3>2, <3>3, ChunksOne
    <3>5. writes(u, 1)
      BY <2>1, <2>3, <3>2, <3>3
    <3> QED BY <3>4, <3>5, AddressOn
  <2>4. CASE code \notin Alphanumeric \cup job.chars
    <3>1. code \in Byte
      <4>1. PICK x \in Nat : x = code /\ x < 128
        BY <2>1, <2>2
      <4> QED BY <4>1 DEF Byte
    <3>2. utf8(code) = <<code>>
      BY <2>1, <2>2, Utf8One
    <3>3. encodeURIComponent(code) = escaped(code)
      BY <3>1, <3>2, OneEscape DEF encodeURIComponent
    <3>4. writes(encodeURIComponent(code), 1)
      BY <2>1, <2>4, <3>3
    <3>5. code <= LastCode
      BY <2>1, CodeIs
    <3> QED BY <2>2, <3>4, <3>5, AddressCoded
  <2> QED BY <2>3, <2>4
<1>3. CASE EncodePair
  <2>1. /\ job.i <= Len(job.in) /\ isPair(job.in, job.i)
        /\ writes(encodeURIComponent(pairValue(code, job.in[job.i + 1])), 2)
    BY <1>3 DEF EncodePair, reads
  <2>2. PICK h, l : h = code /\ l = job.in[job.i + 1]
    OBVIOUS
  <2>3. h \in High /\ l \in Low
    BY <2>1, <2>2, CodeIs DEF isPair
  <2>4. PICK v \in Nat : v = pairValue(h, l) /\ v <= LastCode
    BY <2>3, PairBack
  <2>5. writes(encodeURIComponent(v), 2)
    BY <2>1, <2>2, <2>4
  <2> QED BY <2>4, <2>5, AddressCoded
<1>4. CASE EncodeLone
  <2>1. Unknown16 \in Nat /\ Unknown16 <= LastCode
    BY SMT DEF Unknown16, LastCode
  <2>2. writes(encodeURIComponent(Unknown16), 1)
    BY <1>4 DEF EncodeLone
  <2>3. PICK v \in Nat : v = Unknown16 /\ v <= LastCode
    BY <2>1
  <2>4. writes(encodeURIComponent(v), 1)
    BY <2>2, <2>3
  <2> QED BY <2>3, <2>4, AddressCoded
<1>5. CASE EncodeOther
  <2>1. job.i <= Len(job.in) /\ writes(encodeURIComponent(code), 1)
    BY <1>5 DEF EncodeOther, reads
  <2>2. code \in Nat /\ code <= LastCode
    BY <2>1, CodeIs
  <2> QED BY <2>1, <2>2, AddressCoded
<1>6. EncodeEscaped \/ EncodeAscii \/ EncodePair \/ EncodeLone \/ EncodeOther
  BY DEF AddressWritten, CodecNext, DecodeAscii, DecodeSequence, DecodeBroken, DecodePlain, decoding, reads
<1> QED BY <1>1, <1>2, <1>3, <1>4, <1>5, <1>6

(* All is written: encode begins anew, at the first chunk. *)
LEMMA AddressTurns ==
  ASSUME CodType, AddressWritten, NextJob
  PROVE  AddressRead'
<1>1. cod.todo = <<"encode", "encode">> /\ job.chars = encodeDefault
  BY DEF AddressWritten
<1>2. cod'.todo = <<"encode">> /\ job' = jobOf("encode", job.out, job.chars, TRUE)
  <2>1. cod.todo # <<"encode", "decode">> /\ cod.todo # <<"encode">> /\ cod.todo # <<"decode">>
    BY <1>1
  <2> QED BY <2>1, NextJobIs
<1>3. /\ job'.task = "encode" /\ job'.in = job.out /\ job'.i = 1 /\ job'.out = <<>>
      /\ job'.chars = encodeDefault /\ job'.keepEscaped = TRUE
  BY <1>1, <1>2 DEF jobOf
<1>4. PICK C : Chunks(job.out, C)
  BY DEF AddressWritten
<1>5. AddressHalf(C)'
  <2>1. Chunks(job'.in, C) /\ job'.i - 1 = 0 /\ 0 \in C /\ Len(job'.out) = 0
    BY <1>3, <1>4 DEF Chunks
  <2>2. \A k \in 1..Len(job'.out) : job'.out[k] = job'.in[k]
    BY ONLY <2>1
  <2> QED BY <2>1, <2>2 DEF AddressHalf
<1> QED BY <1>2, <1>3, <1>5 DEF AddressRead

(* What was read comes out as it is. *)
LEMMA AddressReadOn ==
  ASSUME CodType, AddressRead, NEW C, AddressHalf(C), NEW n \in Nat, NEW u \in Seq(Unit), Len(u) = n,
         writes(u, n), job.i - 1 + n \in C,
         \A k \in 1..n : u[k] = job.in[job.i - 1 + k]
  PROVE  AddressRead'
<1>1. /\ cod'.todo = cod.todo /\ job'.task = job.task /\ job'.in = job.in /\ job'.i = job.i + n
      /\ job'.chars = job.chars /\ job'.keepEscaped = job.keepEscaped /\ job'.out = job.out \o u
  BY Writes
<1>2. PICK s, o, i, v : s = job.in /\ o = job.out /\ i = job.i - 1 /\ v = o \o u
  OBVIOUS
<1>3. s \in Seq(Unit) /\ o \in Seq(Unit) /\ i \in Nat /\ job'.i - 1 = i + n
  BY <1>1, <1>2, JobFields
<1>4. /\ Chunks(s, C) /\ i \in C
      /\ Len(o) = i /\ \A k \in 1..i : o[k] = s[k]
  BY <1>2 DEF AddressHalf
<1>5. Len(v) = i + n /\ (\A k \in 1..i : v[k] = o[k]) /\ (\A k \in 1..n : v[i + k] = u[k])
  <2>1. /\ Len(o \o u) = Len(o) + Len(u)
        /\ \A k \in 1..Len(o) : (o \o u)[k] = o[k]
        /\ \A k \in 1..Len(u) : (o \o u)[Len(o) + k] = u[k]
    BY ONLY <1>3, u \in Seq(Unit), Joined
  <2> QED BY <1>2, <1>4, <2>1
<1>6. ASSUME NEW k \in 1..(i + n)
      PROVE  v[k] = s[k]
  <2>1. CASE k \in 1..i
    BY <1>4, <1>5, <2>1
  <2>2. CASE k \notin 1..i
    <3>1. PICK j \in 1..n : k = i + j
      <4>1. k - i \in 1..n /\ k = i + (k - i)
        BY <2>2, <1>3
      <4> QED BY <4>1
    <3>2. u[j] = s[i + j]
      BY <1>2, <3>1
    <3> QED BY <1>5, <3>1, <3>2
  <2> QED BY <2>1, <2>2
<1>7. AddressHalf(C)'
  <2>1. i + n \in C
    BY <1>2
  <2>2. job'.in = s /\ job'.out = v
    BY <1>1, <1>2
  <2> QED BY <1>3, <1>4, <1>5, <1>6, <2>1, <2>2 DEF AddressHalf
<1>8. /\ cod'.todo = <<"encode">> /\ job'.task = "encode"
      /\ job'.chars = encodeDefault /\ job'.keepEscaped = TRUE
  BY <1>1 DEF AddressRead
<1> QED BY <1>7, <1>8 DEF AddressRead

(* A character that is kept is ASCII, and no percent sign. *)
LEMMA KeptIs ==
  ASSUME NEW x \in Kept
  PROVE  x < 128 /\ x # Percent /\ x \notin High /\ x \notin Low
<1>1. x < 128 /\ x # Percent /\ x \in Nat
  BY SMT DEF Kept, Alphanumeric, encodeDefault, Percent
<1>2. x \notin High /\ x \notin Low
  BY ONLY <1>1, InHigh, InLow, SMT
<1> QED BY <1>1, <1>2

(* Every round of the second encode reads one chunk and writes it as it is. *)
LEMMA AddressReadKeeps ==
  ASSUME CodType, AddressRead, CodecNext, ~ NextJob
  PROVE  AddressRead'
<1>1. EncodeEscaped \/ EncodeAscii \/ EncodePair \/ EncodeLone \/ EncodeOther
  BY DEF AddressRead, CodecNext, DecodeAscii, DecodeSequence, DecodeBroken, DecodePlain, decoding, reads
<1>2. job.i <= Len(job.in)
  BY <1>1 DEF EncodeEscaped, EncodeAscii, EncodePair, EncodeLone, EncodeOther, reads
<1>3. PICK C : AddressHalf(C)
  BY DEF AddressRead
<1>4. PICK s, i, c : s = job.in /\ i = job.i /\ c = i - 1
  OBVIOUS
<1>5. s \in Seq(Unit) /\ i \in Nat \ {0} /\ c \in Nat /\ c + 1 = i /\ c < Len(s) /\ c + 3 = i + 2
  BY <1>2, <1>4, JobFields
<1>6. Chunk(s, c, C)
  BY <1>3, <1>4, <1>5 DEF AddressHalf, Chunks
<1>7. code \in Unit /\ code = s[i]
  BY <1>2, <1>4, CodeIs
<1>8. CASE s[c + 1] \in Kept /\ c + 1 \in C
  <2>1. code \in Kept /\ code < 128 /\ code # Percent /\ code \notin High /\ code \notin Low
    BY <1>5, <1>7, <1>8, KeptIs
  <2>2. ~ isEscape(job.in, job.i) /\ ~ isPair(job.in, job.i)
    BY <1>4, <1>7, <2>1 DEF isEscape, isPair
  <2>3. ~ (code >= 128)
    <3>1. code \in Nat
      BY <1>2, CodeIs
    <3> QED BY ONLY <2>1, <3>1
  <2>4. EncodeAscii
    BY <1>1, <2>1, <2>2, <2>3 DEF EncodeEscaped, EncodePair, EncodeLone, EncodeOther, keeps
  <2>5. writes(<<code>>, 1)
    <3>1. code \in Alphanumeric \cup job.chars
      BY <2>1 DEF Kept, AddressRead
    <3> QED BY <2>4, <3>1 DEF EncodeAscii
  <2>6. PICK u \in Seq(Unit) : u = <<code>> /\ Len(u) = 1 /\ u[1] = code
    BY <1>7, Singles
  <2>7. writes(u, 1) /\ job.i - 1 + 1 \in C /\ \A k \in 1..1 : u[k] = job.in[job.i - 1 + k]
    <3>1. job.i - 1 + 1 = i /\ c + 1 = i
      BY <1>4, <1>5
    <3> QED BY <1>4, <1>7, <1>8, <2>5, <2>6, <3>1
  <2> QED BY <1>3, <2>6, <2>7, AddressReadOn
<1>9. CASE isEscape(s, c + 1) /\ c + 3 \in C
  <2>1. isEscape(job.in, job.i) /\ keeps /\ code = Percent
    BY <1>4, <1>5, <1>7, <1>9 DEF keeps, AddressRead, isEscape
  <2>2. code < 128 /\ code \notin High /\ code \notin Low /\ ~ (code >= 128) /\ ~ isPair(job.in, job.i)
    <3>1. Percent < 128 /\ ~ (Percent >= 128) /\ Percent \in Nat
      BY SMT DEF Percent
    <3>2. Percent \notin High /\ Percent \notin Low
      BY ONLY <3>1, InHigh, InLow, SMT
    <3> QED BY <1>4, <1>7, <2>1, <3>1, <3>2 DEF isPair
  <2>3. EncodeEscaped
    BY <1>1, <2>1, <2>2 DEF EncodeAscii, EncodePair, EncodeLone, EncodeOther
  <2>4. writes(SubSeq(job.in, job.i, job.i + 2), 3)
    BY <2>3 DEF EncodeEscaped
  <2>5. i + 2 <= Len(s)
    BY <1>5, <1>9 DEF isEscape
  <2>6. PICK u \in Seq(Unit) : /\ u = SubSeq(s, i, i + 2) /\ Len(u) = 3
                               /\ \A k \in 1..3 : u[k] = s[i + k - 1]
    <3>1. SubSeq(s, i, i + 2) \in Seq(Unit) /\ Len(SubSeq(s, i, i + 2)) = 3
      BY <1>5, <2>5
    <3>2. \A k \in 1..3 : SubSeq(s, i, i + 2)[k] = s[i + k - 1]
      BY <1>5, <2>5
    <3> QED BY ONLY <3>1, <3>2
  <2>7. \A k \in 1..3 : u[k] = job.in[job.i - 1 + k]
    <3>1. \A k \in 1..3 : i + k - 1 = job.i - 1 + k
      BY <1>4, <1>5
    <3> QED BY <1>4, <2>6, <3>1
  <2>8. writes(u, 3) /\ job.i - 1 + 3 \in C
    <3>1. job.i - 1 + 3 = c + 3
      BY <1>4, <1>5
    <3> QED BY <1>4, <1>9, <2>4, <2>6, <3>1
  <2> QED BY <1>3, <2>6, <2>7, <2>8, AddressReadOn
<1> QED BY <1>6, <1>8, <1>9 DEF Chunk

(* All is read: the same has come out. *)
LEMMA AddressEnds ==
  ASSUME CodType, AddressRead, NextJob
  PROVE  AddressDone'
<1>1. cod'.todo = <<>> /\ job' = job /\ job.i > Len(job.in)
  <2>1. cod.todo = <<"encode">>
    BY DEF AddressRead
  <2>2. cod.todo # <<"encode", "encode">> /\ cod.todo # <<"encode", "decode">>
    BY <2>1
  <2> QED BY <2>2, NextJobIs
<1>2. PICK C : AddressHalf(C)
  BY DEF AddressRead
<1>3. PICK s, o, i : s = job.in /\ o = job.out /\ i = job.i
  OBVIOUS
<1>4. s \in Seq(Unit) /\ o \in Seq(Unit) /\ i \in Nat \ {0} /\ i > Len(s)
  BY <1>1, <1>3, JobFields
<1>5. i - 1 <= Len(s) /\ Len(o) = i - 1 /\ \A k \in 1..Len(o) : o[k] = s[k]
  BY <1>2, <1>3 DEF AddressHalf, Chunks
<1>6. Len(o) = Len(s)
  BY <1>4, <1>5
<1>7. o = s
  BY ONLY <1>4, <1>5, <1>6, SameList
<1> QED BY <1>1, <1>3, <1>7 DEF AddressDone

(* Every step of an address keeps this. *)
LEMMA AddressInvKeeps ==
  ASSUME CodType, AddressInv, CodecNext
  PROVE  AddressInv'
<1>1. CASE AddressWritten
  BY <1>1, AddressTurns, AddressWrittenKeeps DEF AddressInv
<1>2. CASE AddressRead
  BY <1>2, AddressEnds, AddressReadKeeps DEF AddressInv
<1>3. CASE AddressDone
  BY <1>3 DEF AddressDone, CodecNext, NextJob, DecodeAscii, DecodeSequence, DecodeBroken, DecodePlain,
        decoding, reads, EncodeEscaped, EncodeAscii, EncodePair, EncodeLone, EncodeOther
<1> QED BY <1>1, <1>2, <1>3 DEF AddressInv

(* At the end the second encode has changed nothing. *)
LEMMA AddressInvSound ==
  ASSUME AddressInv, finished
  PROVE  EncodedOnce
<1>1. AddressDone
  BY DEF AddressInv, AddressWritten, AddressRead, finished
<1> QED BY <1>1 DEF AddressDone, EncodedOnce

(* Some numbers have a least one. *)
LEMMA LeastOf ==
  ASSUME NEW S, S \subseteq Nat, S # {}
  PROVE  \E i \in S : \A j \in S : i <= j
<1> DEFINE R == {ss \in Nat \X Nat : ss[1] < ss[2]}
<1>1. IsWellFoundedOn(R, Nat)
  BY NatLessThanWellFounded DEF OpToRel
<1>2. \A i, j \in Nat : <<i, j>> \in R <=> i < j
  OBVIOUS
<1> HIDE DEF R
<1>3. PICK i \in S : \A j \in S : ~ (<<j, i>> \in R)
  BY <1>1, WFMin
<1>4. \A j \in S : ~ (j < i)
  BY <1>2, <1>3
<1>5. \A j \in S : i \in Nat /\ j \in Nat
  OBVIOUS
<1> QED BY ONLY i \in S, <1>4, <1>5

(* The first of some places of a list. *)
LEMMA FirstPlace ==
  ASSUME NEW n \in Nat, NEW S, S \subseteq 1..n, S # {}
  PROVE  \E i \in S : \A j \in S : i <= j
<1>1. S \subseteq Nat
  OBVIOUS
<1> QED BY <1>1, LeastOf

(* What holds at the first place and goes on to the next holds over the *)
(* interval.                                                            *)
LEMMA IntervalInduction ==
  ASSUME NEW a \in Int, NEW e \in Int, NEW S, a <= e, a \in S,
         \A j \in a..(e - 1) : j \in S => j + 1 \in S
  PROVE  \A j \in a..e : j \in S
<1> DEFINE T == {j \in a..e : j \notin S}
<1>1. ASSUME T # {}
      PROVE  FALSE
  <2> DEFINE U == {n \in 1..(e - a) : a + n \notin S}
  <2>1. PICK j \in a..e : j \notin S
    BY <1>1
  <2>2. j # a
    BY <2>1
  <2>3. j - a \in U
    BY <2>1, <2>2
  <2>4. U \subseteq 1..(e - a) /\ U # {} /\ e - a \in Nat
    <3>1. e - a \in Nat
      OBVIOUS
    <3>2. U \subseteq 1..(e - a)
      OBVIOUS
    <3> QED BY <2>3, <3>1, <3>2
  <2>5. \A n \in U : n \in 1..(e - a) /\ a + n \notin S
    OBVIOUS
  <2>6. \A n \in 1..(e - a) : a + n \notin S => n \in U
    OBVIOUS
  <2> HIDE DEF U
  <2>7. PICK n \in U : \A m \in U : n <= m
    BY <2>4, FirstPlace
  <2>8. n \in 1..(e - a) /\ a + n \notin S
    BY <2>5, <2>7
  <2>9. a + (n - 1) \in a..(e - 1) /\ (a + (n - 1)) + 1 = a + n
    BY <2>8
  <2>10. CASE n = 1
    <3>1. a + (n - 1) = a
      BY <2>8, <2>10
    <3> QED BY <2>8, <2>9, <3>1
  <2>11. CASE n # 1
    <3>1. n - 1 \in 1..(e - a) /\ ~ (n <= n - 1)
      BY <2>8, <2>11
    <3>2. n - 1 \notin U
      BY <2>7, <3>1
    <3>3. a + (n - 1) \in S
      BY <2>6, <3>1, <3>2
    <3> QED BY <2>8, <2>9, <3>3
  <2> QED BY <2>10, <2>11
<1> QED BY <1>1

(* What a loop does in each of n turns, and what it goes through from a. *)
IsLoop(n, S, g) == g \in [1..n -> [S -> S]]
(* What the loop goes through. *)
IsRun(n, S, a, g, h) ==
  h \in [0..n -> S] /\ h[0] = a /\ \A i \in 1..n : h[i] = g[i][h[i - 1]]

(* A function over an interval can be defined one place after the other. *)
LEMMA Iterated ==
  ASSUME NEW n \in Nat, NEW S, NEW a \in S, NEW g, IsLoop(n, S, g)
  PROVE  \E h : IsRun(n, S, a, g, h)
<1>0. g \in [1..n -> [S -> S]]
  BY DEF IsLoop
<1> DEFINE Good(k, h) == /\ h \in [0..n -> S] /\ h[0] = a
                         /\ \A i \in 1..k : h[i] = g[i][h[i - 1]]
           K == {k \in 0..n : \E h : Good(k, h)}
<1>1. 0 \in K
  <2> DEFINE h == [i \in 0..n |-> a]
  <2>1. Good(0, h)
    OBVIOUS
  <2> HIDE DEF h
  <2> QED BY <2>1
<1>2. ASSUME NEW k \in 0..(n - 1), k \in K
      PROVE  k + 1 \in K
  <2>1. PICK h : Good(k, h)
    BY <1>2
  <2>2. g[k + 1] \in [S -> S] /\ h[k] \in S
    BY <1>0, <2>1
  <2>3. PICK s : s = g[k + 1][h[k]]
    OBVIOUS
  <2>4. s \in S
    BY <2>2, <2>3
  <2>5. PICK f : f = [h EXCEPT ![k + 1] = s]
    OBVIOUS
  <2>6. f \in [0..n -> S] /\ \A i \in 0..n : f[i] = IF i = k + 1 THEN s ELSE h[i]
    BY <2>1, <2>4, <2>5
  <2>7. f[0] = a
    BY <2>1, <2>6
  <2>8. ASSUME NEW i \in 1..(k + 1)
        PROVE  f[i] = g[i][f[i - 1]]
    <3>1. i - 1 \in 0..k /\ i \in 0..n /\ i - 1 \in 0..n
      OBVIOUS
    <3>2. f[i - 1] = h[i - 1]
      BY <2>6, <3>1
    <3>3. CASE i = k + 1
      BY <2>3, <2>6, <3>1, <3>2, <3>3
    <3>4. CASE i # k + 1
      <4>1. i \in 1..k /\ f[i] = h[i]
        BY <2>6, <3>1, <3>4
      <4> QED BY <2>1, <3>2, <4>1
    <3> QED BY <3>3, <3>4
  <2>9. Good(k + 1, f)
    BY <2>6, <2>7, <2>8
  <2> QED BY <2>9
<1> HIDE DEF K
<1>3. n \in K
  <2>1. 0 \in Int /\ n \in Int /\ 0 <= n
    OBVIOUS
  <2>2. \A k \in 0..(n - 1) : k \in K => k + 1 \in K
    BY <1>2
  <2>3. \A k \in 0..n : k \in K
    BY ONLY <1>1, <2>1, <2>2, IntervalInduction
  <2> QED BY <2>1, <2>3
<1>4. PICK h : Good(n, h)
  BY <1>3 DEF K
<1> QED BY <1>4 DEF IsRun

(* The letters of a text, place by place. *)
Lettered(s, x) == IF x \in Alphanumeric THEN Append(s, x) ELSE s

(* The letters of a text are those up to each place and the one there. *)
LEMMA PlainIs ==
  ASSUME NEW s \in Seq(Unit)
  PROVE  /\ plain(s, 0) = <<>>
         /\ \A k \in 1..Len(s) : plain(s, k) = Lettered(plain(s, k - 1), s[k])
         /\ \A k \in 0..Len(s) : plain(s, k) \in Seq(Unit)
<1>1. PICK n \in Nat : n = Len(s)
  OBVIOUS
<1> DEFINE S == Seq(Unit)
           turn(k, h) == Lettered(h, s[k])
           upTo == CHOOSE f : f = [k \in 0..Len(s) |->
                     IF k = 0 THEN <<>>
                     ELSE IF s[k] \in Alphanumeric THEN Append(f[k - 1], s[k]) ELSE f[k - 1]]
<1>2. \A k : plain(s, k) = upTo[k]
  BY Zenon DEF plain
<1>3. upTo = CHOOSE f : f = [k \in 0..Len(s) |-> IF k = 0 THEN <<>> ELSE turn(k, f[k - 1])]
  BY Zenon DEF Lettered
<1> HIDE DEF upTo
<1>4. <<>> \in S
  OBVIOUS
<1>5. ASSUME NEW k \in 1..n, NEW h \in S
      PROVE  turn(k, h) \in S
  <2>1. s[k] \in Unit
    BY <1>1
  <2> QED BY <2>1 DEF Lettered
<1> HIDE DEF S
<1> DEFINE g == [k \in 1..n |-> [h \in S |-> turn(k, h)]]
<1>6. IsLoop(n, S, g) /\ \A k \in 1..n, h \in S : g[k][h] = turn(k, h)
  BY <1>5 DEF IsLoop
<1> HIDE DEF g
<1>7. PICK h : IsRun(n, S, <<>>, g, h)
  <2>1. PICK R, e, l : R = S /\ e = <<>> /\ l = g
    OBVIOUS
  <2>2. n \in Nat /\ e \in R /\ IsLoop(n, R, l)
    BY <1>4, <1>6, <2>1
  <2>3. \E h : IsRun(n, R, e, l, h)
    BY ONLY <2>2, Iterated
  <2> QED BY <2>1, <2>3
<1>8. h \in [0..n -> S] /\ h[0] = <<>> /\ \A k \in 1..n : h[k] = turn(k, h[k - 1])
  <2>1. h \in [0..n -> S] /\ h[0] = <<>> /\ \A k \in 1..n : h[k] = g[k][h[k - 1]]
    BY <1>7 DEF IsRun
  <2>2. ASSUME NEW k \in 1..n PROVE h[k] = turn(k, h[k - 1])
    <3>1. k - 1 \in 0..n
      OBVIOUS
    <3>2. h[k - 1] \in S
      BY <2>1, <3>1
    <3> QED BY <1>6, <2>1, <3>2
  <2> QED BY <2>1, <2>2
<1> HIDE DEF turn
<1>9. h = [k \in 0..n |-> IF k = 0 THEN <<>> ELSE turn(k, h[k - 1])]
  <2>1. h = [k \in 0..n |-> h[k]]
    BY <1>8
  <2>2. \A k \in 0..n : h[k] = IF k = 0 THEN <<>> ELSE turn(k, h[k - 1])
    <3>1. \A k \in 0..n : k # 0 => k \in 1..n
      OBVIOUS
    <3> QED BY <1>8, <3>1
  <2> QED BY ONLY <2>1, <2>2
<1>10. upTo = [k \in 0..n |-> IF k = 0 THEN <<>> ELSE turn(k, upTo[k - 1])]
  BY <1>1, <1>3, <1>9, Zenon
<1>11. upTo[0] = <<>> /\ \A k \in 1..n : upTo[k] = turn(k, upTo[k - 1])
  <2>1. \A k \in 0..n : upTo[k] = IF k = 0 THEN <<>> ELSE turn(k, upTo[k - 1])
    BY <1>10, Zenon
  <2>2. 0 \in 0..n /\ \A k \in 1..n : k \in 0..n /\ k # 0
    OBVIOUS
  <2> QED BY ONLY <2>1, <2>2
<1>12. \A k \in 0..n : upTo[k] \in S
  <2> DEFINE T == {k \in 0..n : upTo[k] \in S}
  <2>1. 0 \in T
    BY <1>4, <1>11
  <2>2. ASSUME NEW k \in 0..(n - 1), k \in T PROVE k + 1 \in T
    <3>1. k + 1 \in 1..n /\ (k + 1) - 1 = k /\ k + 1 \in 0..n
      OBVIOUS
    <3>2. upTo[k + 1] = turn(k + 1, upTo[k]) /\ upTo[k] \in S
      BY <1>11, <2>2, <3>1
    <3> QED BY <1>5, <3>1, <3>2
  <2> HIDE DEF T
  <2>3. 0 \in Int /\ n \in Int /\ 0 <= n /\ \A k \in 0..(n - 1) : k \in T => k + 1 \in T
    BY <2>2
  <2>4. \A k \in 0..n : k \in T
    BY ONLY <2>1, <2>3, IntervalInduction
  <2> QED BY <2>4 DEF T
<1> QED BY <1>1, <1>2, <1>11, <1>12 DEF turn, S

(* Where there is no letter none is added. *)
LEMMA LettersSkip ==
  ASSUME NEW s \in Seq(Unit), NEW a \in Nat, NEW c \in Nat, a <= c, c <= Len(s),
         \A k \in (a + 1)..c : s[k] \notin Alphanumeric
  PROVE  plain(s, c) = plain(s, a)
<1>1. PICK n \in Nat : n = Len(s)
  OBVIOUS
<1> DEFINE T == {k \in a..c : plain(s, k) = plain(s, a)}
<1>2. a \in T
  OBVIOUS
<1>3. ASSUME NEW k \in a..(c - 1), k \in T
      PROVE  k + 1 \in T
  <2>1. k + 1 \in 1..n /\ (k + 1) - 1 = k /\ k + 1 \in (a + 1)..c /\ k + 1 \in a..c
    BY <1>1
  <2>2. plain(s, k + 1) = Lettered(plain(s, k), s[k + 1])
    BY <1>1, <2>1, PlainIs
  <2>3. plain(s, k) = plain(s, a)
    BY <1>3
  <2> QED BY <2>1, <2>2, <2>3 DEF Lettered
<1> HIDE DEF T
<1>4. a \in Int /\ c \in Int /\ a <= c /\ \A k \in a..(c - 1) : k \in T => k + 1 \in T
  BY <1>3
<1>5. \A k \in a..c : k \in T
  BY ONLY <1>2, <1>4, IntervalInduction
<1>6. c \in T
  BY <1>4, <1>5
<1> QED BY <1>6 DEF T

(* What is added behind does not change the letters before. *)
LEMMA LettersStay ==
  ASSUME NEW s \in Seq(Unit), NEW r \in Seq(Unit), Len(s) <= Len(r),
         \A k \in 1..Len(s) : r[k] = s[k]
  PROVE  plain(r, Len(s)) = plain(s, Len(s))
<1>1. PICK n, m \in Nat : n = Len(s) /\ m = Len(r) /\ n <= m
  OBVIOUS
<1> DEFINE T == {k \in 0..n : plain(r, k) = plain(s, k)}
<1>2. 0 \in T
  BY PlainIs
<1>3. ASSUME NEW k \in 0..(n - 1), k \in T
      PROVE  k + 1 \in T
  <2>1. k + 1 \in 1..n /\ (k + 1) - 1 = k /\ k + 1 \in 1..m /\ k + 1 \in 0..n
    BY <1>1
  <2>2. plain(s, k + 1) = Lettered(plain(s, k), s[k + 1])
    BY <1>1, <2>1, PlainIs
  <2>3. plain(r, k + 1) = Lettered(plain(r, k), r[k + 1])
    BY <1>1, <2>1, PlainIs
  <2>4. plain(r, k) = plain(s, k) /\ r[k + 1] = s[k + 1]
    BY <1>1, <1>3, <2>1
  <2> QED BY <2>1, <2>2, <2>3, <2>4
<1> HIDE DEF T
<1>4. 0 \in Int /\ n \in Int /\ 0 <= n /\ \A k \in 0..(n - 1) : k \in T => k + 1 \in T
  BY <1>3
<1>5. \A k \in 0..n : k \in T
  BY ONLY <1>2, <1>4, IntervalInduction
<1>6. n \in T
  BY <1>4, <1>5
<1> QED BY <1>1, <1>6 DEF T

(* Nor does what has no letter, added behind, add any. *)
LEMMA LettersNone ==
  ASSUME NEW s \in Seq(Unit), NEW u \in Seq(Unit), \A k \in 1..Len(u) : u[k] \notin Alphanumeric
  PROVE  plain(s \o u, Len(s \o u)) = plain(s, Len(s))
<1>1. PICK r \in Seq(Unit) : r = s \o u
  BY Joined
<1>2. PICK n, m \in Nat : n = Len(s) /\ m = Len(u)
  OBVIOUS
<1>3. Len(r) = n + m /\ (\A k \in 1..n : r[k] = s[k]) /\ (\A k \in 1..m : r[n + k] = u[k])
  BY <1>1, <1>2, Joined
<1>4. \A k \in (n + 1)..(n + m) : r[k] \notin Alphanumeric
  <2> TAKE k \in (n + 1)..(n + m)
  <2>1. k - n \in 1..m /\ k = n + (k - n)
    OBVIOUS
  <2> QED BY <1>2, <1>3, <2>1
<1>5. plain(r, n + m) = plain(r, n)
  <2>1. n <= n + m /\ n + m \in Nat /\ n + m <= Len(r)
    BY <1>3
  <2> QED BY <1>4, <2>1, LettersSkip
<1>6. plain(r, n) = plain(s, n)
  <2>1. Len(s) <= Len(r) /\ \A k \in 1..Len(s) : r[k] = s[k]
    BY <1>2, <1>3
  <2> QED BY <1>2, <2>1, LettersStay
<1> QED BY <1>1, <1>2, <1>3, <1>5, <1>6

(* One character more adds itself if it is a letter. *)
LEMMA LetterOne ==
  ASSUME NEW s \in Seq(Unit), NEW x \in Unit
  PROVE  plain(s \o <<x>>, Len(s \o <<x>>)) = Lettered(plain(s, Len(s)), x)
<1>1. PICK u \in Seq(Unit) : u = <<x>> /\ Len(u) = 1 /\ u[1] = x
  BY Singles
<1>2. PICK r \in Seq(Unit) : r = s \o u
  BY Joined
<1>3. PICK n \in Nat : n = Len(s)
  OBVIOUS
<1>4. Len(r) = n + 1 /\ (\A k \in 1..n : r[k] = s[k]) /\ r[n + 1] = x
  BY <1>1, <1>2, <1>3, Joined
<1>5. plain(r, n + 1) = Lettered(plain(r, n), x)
  <2>1. n + 1 \in 1..Len(r) /\ (n + 1) - 1 = n
    BY <1>4
  <2> QED BY <1>4, <2>1, PlainIs
<1>6. plain(r, n) = plain(s, n)
  <2>1. Len(s) <= Len(r) /\ \A k \in 1..Len(s) : r[k] = s[k]
    BY <1>3, <1>4
  <2> QED BY <1>3, <2>1, LettersStay
<1> QED BY <1>1, <1>2, <1>3, <1>4, <1>5, <1>6

(* No half of a character stands alone. *)
NoLone(s) == \A k \in DOMAIN s : ~ lone(s, k)

(* Two texts without a lone half have none when joined. *)
LEMMA NoLoneJoin ==
  ASSUME NEW s \in Seq(Unit), NEW t \in Seq(Unit), NoLone(s), NoLone(t)
  PROVE  NoLone(s \o t)
<1>1. PICK n, m \in Nat : n = Len(s) /\ m = Len(t)
  OBVIOUS
<1>2. PICK r \in Seq(Unit) : r = s \o t
  BY Joined
<1>3. /\ Len(r) = n + m /\ (\A k \in 1..n : r[k] = s[k]) /\ (\A k \in 1..m : r[n + k] = t[k])
  BY <1>1, <1>2, Joined
<1>4. \A k \in 1..n : ~ lone(s, k)
  BY <1>1 DEF NoLone
<1>5. \A k \in 1..m : ~ lone(t, k)
  BY <1>1 DEF NoLone
<1>6. \A k \in 1..n : isPair(s, k) => isPair(r, k)
  <2> SUFFICES ASSUME NEW k \in 1..n, isPair(s, k) PROVE isPair(r, k)
    OBVIOUS
  <2>1. k < n /\ s[k] \in High /\ s[k + 1] \in Low
    BY <1>1 DEF isPair
  <2>2. k + 1 \in 1..n /\ k < Len(r)
    BY <1>3, <2>1
  <2> QED BY <1>3, <2>1, <2>2 DEF isPair
<1>7. \A k \in 1..m : isPair(t, k) => isPair(r, n + k)
  <2> SUFFICES ASSUME NEW k \in 1..m, isPair(t, k) PROVE isPair(r, n + k)
    OBVIOUS
  <2>1. k < m /\ t[k] \in High /\ t[k + 1] \in Low
    BY <1>1 DEF isPair
  <2>2. k + 1 \in 1..m /\ n + k < Len(r) /\ (n + k) + 1 = n + (k + 1)
    BY <1>3, <2>1
  <2>3. r[n + k] \in High /\ r[(n + k) + 1] \in Low
    <3>1. r[n + k] = t[k] /\ r[n + (k + 1)] = t[k + 1]
      BY <1>3, <2>2
    <3> QED BY ONLY <2>1, <2>2, <3>1
  <2> QED BY <2>2, <2>3 DEF isPair
<1>8. ASSUME NEW k \in 1..n
      PROVE  ~ lone(r, k)
  <2>1. r[k] = s[k]
    BY <1>3
  <2>2. CASE s[k] \in High
    <3>1. isPair(s, k) /\ s[k] \notin Low
      BY <1>4, <2>2, Apart DEF lone
    <3> QED BY <1>6, <2>1, <3>1 DEF lone
  <2>3. CASE s[k] \in Low
    <3>1. k # 1 /\ isPair(s, k - 1) /\ s[k] \notin High
      BY <1>4, <2>3, Apart DEF lone
    <3>2. k - 1 \in 1..n
      BY <3>1
    <3>3. isPair(r, k - 1)
      BY <1>6, <3>1, <3>2
    <3> QED BY <2>1, <3>1, <3>3 DEF lone
  <2>4. CASE s[k] \notin High /\ s[k] \notin Low
    BY <2>1, <2>4 DEF lone
  <2> QED BY <2>2, <2>3, <2>4
<1>9. ASSUME NEW k \in 1..m
      PROVE  ~ lone(r, n + k)
  <2>1. r[n + k] = t[k]
    BY <1>3
  <2>2. CASE t[k] \in High
    <3>1. isPair(t, k) /\ t[k] \notin Low
      BY <1>5, <2>2, Apart DEF lone
    <3> QED BY <1>7, <2>1, <3>1 DEF lone
  <2>3. CASE t[k] \in Low
    <3>1. k # 1 /\ isPair(t, k - 1) /\ t[k] \notin High
      BY <1>5, <2>3, Apart DEF lone
    <3>2. k - 1 \in 1..m /\ (n + k) - 1 = n + (k - 1) /\ n + k # 1
      BY <3>1
    <3>3. isPair(r, (n + k) - 1)
      <4>1. isPair(r, n + (k - 1))
        BY <1>7, <3>1, <3>2
      <4> QED BY <3>2, <4>1
    <3> QED BY <2>1, <3>1, <3>2, <3>3 DEF lone
  <2>4. CASE t[k] \notin High /\ t[k] \notin Low
    BY <2>1, <2>4 DEF lone
  <2> QED BY <2>2, <2>3, <2>4
<1>10. ASSUME NEW k \in 1..(n + m)
       PROVE  ~ lone(r, k)
  <2>1. CASE k \in 1..n
    BY <1>8, <2>1
  <2>2. CASE k \notin 1..n
    <3>1. k - n \in 1..m /\ n + (k - n) = k
      BY <2>2
    <3>2. ~ lone(r, n + (k - n))
      BY <1>9, <3>1
    <3> QED BY <3>1, <3>2
  <2> QED BY <2>1, <2>2
<1> QED BY <1>2, <1>3, <1>10 DEF NoLone

(* Units that are no halves at all. *)
LEMMA NoLoneWhole ==
  ASSUME NEW u \in Seq(Unit), \A k \in 1..Len(u) : u[k] \notin High \cup Low
  PROVE  NoLone(u)
BY DEF NoLone, lone

(* A pair has none. *)
LEMMA NoLonePair ==
  ASSUME NEW u \in Seq(Unit), Len(u) = 2, u[1] \in High, u[2] \in Low
  PROVE  NoLone(u)
<1>1. isPair(u, 1)
  BY DEF isPair
<1>2. u[1] \notin Low /\ u[2] \notin High
  BY Apart
<1>3. 2 - 1 = 1 /\ \A k \in DOMAIN u : k = 1 \/ k = 2
  OBVIOUS
<1>4. isPair(u, 2 - 1)
  BY <1>1, <1>3
<1> QED BY <1>1, <1>2, <1>3, <1>4 DEF NoLone, lone

(* A decoded sequence of bytes that is not refused is whole and has no letter in it. *)
LEMMA UnitsWhole ==
  ASSUME NEW c \in Nat, 128 <= c, c <= LastCode, c \notin High \cup Low
  PROVE  /\ units(c) \in Seq(Unit) /\ NoLone(units(c))
         /\ \A k \in 1..Len(units(c)) : units(c)[k] \notin Alphanumeric
<1>1. \A x \in Nat : 128 <= x => x \notin Alphanumeric
  BY SMT DEF Alphanumeric
<1>2. CASE c < 65536
  <2>1. c \in Unit
    BY ONLY <1>2, c \in Nat, InUnit, SMT
  <2>2. PICK u \in Seq(Unit) : u = <<c>> /\ Len(u) = 1 /\ u[1] = c
    BY <2>1, Singles
  <2>3. u = units(c)
    BY <1>2, <2>2, UnitsOfOne
  <2>4. \A k \in 1..Len(u) : u[k] = c
    BY <2>2
  <2>5. NoLone(u)
    BY <2>4, NoLoneWhole
  <2> QED BY <1>1, <2>3, <2>4, <2>5
<1>3. CASE c >= 65536
  <2>1. PICK x, y : x = 55296 + ((c - 65536) \div 1024) /\ y = 56320 + ((c - 65536) % 1024)
    OBVIOUS
  <2>2. /\ x \in Int /\ 55296 <= x /\ x <= 56319 /\ y \in Int /\ 56320 <= y /\ y <= 57343
        /\ x \in Nat /\ y \in Nat /\ 128 <= x /\ 128 <= y /\ x <= 65535 /\ y <= 65535
    BY ONLY c \in Nat, c <= LastCode, <1>3, <2>1, SMT DEF LastCode
  <2>3. x \in High /\ y \in Low /\ x \in Unit /\ y \in Unit
    BY ONLY <2>2, InHigh, InLow, InUnit, SMT
  <2>4. PICK u \in Seq(Unit) : u = <<x, y>> /\ Len(u) = 2 /\ u[1] = x /\ u[2] = y
    <3>1. <<x, y>> \in Seq(Unit) /\ Len(<<x, y>>) = 2 /\ <<x, y>>[1] = x /\ <<x, y>>[2] = y
      BY ONLY <2>3
    <3> QED BY ONLY <3>1, Zenon
  <2>5. units(c) = u
    BY ONLY c \in Nat, <1>3, <2>1, <2>4, SMT DEF units
  <2>6. NoLone(u)
    BY <2>3, <2>4, NoLonePair
  <2>7. x \notin Alphanumeric /\ y \notin Alphanumeric
    BY ONLY <1>1, <2>2
  <2>8. \A k \in 1..Len(u) : u[k] = x \/ u[k] = y
    <3>1. \A k \in 1..2 : k = 1 \/ k = 2
      OBVIOUS
    <3> QED BY ONLY <2>4, <3>1
  <2> QED BY <2>5, <2>6, <2>7, <2>8
<1> QED BY <1>2, <1>3, SMT

(* U+FFFD is no half and no letter. *)
LEMMA UnknownWhole ==
  /\ Unknown16 \in Unit /\ Unknown16 \notin High \cup Low /\ Unknown16 \notin Alphanumeric
<1>1. PICK x : x = Unknown16
  OBVIOUS
<1>2. x \in Int /\ 0 <= x /\ x <= 65535 /\ x > 57343
  BY <1>1, SMT DEF Unknown16
<1>3. x \in Unit /\ x \notin High /\ x \notin Low
  BY ONLY <1>2, InUnit, InHigh, InLow, SMT
<1>4. x \notin Alphanumeric
  BY ONLY <1>2, SMT DEF Alphanumeric
<1> QED BY <1>1, <1>3, <1>4

(* Nor are any number of them. *)
LEMMA UnknownsWhole ==
  ASSUME NEW n \in Nat, NEW u, u = [k \in 1..n |-> Unknown16]
  PROVE  /\ u \in Seq(Unit) /\ NoLone(u) /\ Len(u) = n
         /\ \A k \in 1..Len(u) : u[k] \notin Alphanumeric
<1>1. \A k \in 1..n : u[k] = Unknown16
  BY Zenon
<1>2. u \in [1..n -> Unit]
  BY UnknownWhole
<1>3. u \in Seq(Unit) /\ Len(u) = n
  BY <1>2, ListOf
<1>4. \A k \in 1..Len(u) : u[k] = Unknown16
  BY <1>1, <1>3
<1>5. NoLone(u)
  BY <1>3, <1>4, UnknownWhole, NoLoneWhole
<1> QED BY <1>3, <1>4, <1>5, UnknownWhole

(* Bytes while they are read: what came out is whole, and has their letters. *)
Plainless == \A k \in DOMAIN cod.first : cod.first[k] \notin decodeDefault
(* The first j bytes have been read. *)
BytesHalf(j) ==
  /\ cod.first \in Seq(Byte) /\ job.in = escapes(cod.first)
  /\ j \in 0..Len(cod.first) /\ job.i = 3 * j + 1
  /\ NoLone(job.out)
  /\ Plainless => plain(job.out, Len(job.out)) = plain(cod.first, j)
(* Some number of bytes has. *)
BytesRead ==
  /\ cod.todo = <<"decode">> /\ job.task = "decode" /\ job.chars = decodeDefault
  /\ \E j \in Nat : BytesHalf(j)
(* All have. *)
BytesDone ==
  /\ cod.todo = <<>> /\ NoLone(job.out)
  /\ Plainless => plain(job.out, Len(job.out)) = plain(cod.first, Len(cod.first))
(* Bytes, however far they are read. *)
BytesInv == BytesRead \/ BytesDone

(* A round that reads n bytes and gives what is whole and has their letters. *)
LEMMA BytesOn ==
  ASSUME CodType, BytesRead, NEW j \in Nat, BytesHalf(j), NEW u \in Seq(Unit), NEW n \in Nat,
         j + n <= Len(cod.first), NEW p \in Nat, p = 3 * n, writes(u, p), NoLone(u),
         Plainless => plain(job.out \o u, Len(job.out \o u)) = plain(cod.first, j + n)
  PROVE  BytesRead'
<1>1. /\ cod'.todo = cod.todo /\ cod'.first = cod.first /\ job'.task = job.task
      /\ job'.in = job.in /\ job'.chars = job.chars
      /\ job'.i = job.i + p /\ job'.out = job.out \o u
  BY Writes
<1>2. NoLone(job.out \o u)
  <2>1. job.out \in Seq(Unit)
    BY JobFields
  <2> QED BY <2>1, NoLoneJoin DEF BytesHalf
<1>3. Plainless' <=> Plainless
  BY <1>1 DEF Plainless
<1>4. BytesHalf(j + n)'
  <2>1. cod.first \in Seq(Byte) /\ job.in = escapes(cod.first) /\ j + n \in 0..Len(cod.first)
        /\ job.i + p = 3 * (j + n) + 1
    BY DEF BytesHalf
  <2>2. PICK k \in Nat : k = j + n
    OBVIOUS
  <2>3. /\ cod'.first \in Seq(Byte) /\ job'.in = escapes(cod'.first)
        /\ k \in 0..Len(cod'.first) /\ job'.i = 3 * k + 1
        /\ NoLone(job'.out)
        /\ Plainless' => plain(job'.out, Len(job'.out)) = plain(cod'.first, k)
    BY <1>1, <1>2, <1>3, <2>1, <2>2
  <2>4. BytesHalf(k)'
    BY <2>3 DEF BytesHalf
  <2> QED BY <2>2, <2>4
<1>5. \E k \in Nat : BytesHalf(k)'
  BY <1>4
<1>6. cod'.todo = <<"decode">> /\ job'.task = "decode" /\ job'.chars = decodeDefault
  BY <1>1 DEF BytesRead
<1> QED BY <1>5, <1>6 DEF BytesRead

(* The bytes that come next. *)
LEMMA BytesNext ==
  ASSUME CodType, BytesRead, NEW j \in Nat, BytesHalf(j), NEW k \in Nat \ {0}, j + k <= Len(cod.first)
  PROVE  /\ isEscape(job.in, job.i + 3 * (k - 1)) /\ byteAt(job.i + 3 * (k - 1)) = cod.first[j + k]
         /\ b(k) = cod.first[j + k] /\ cod.first[j + k] \in Byte
<1>1. PICK f, s : f = cod.first /\ s = job.in
  OBVIOUS
<1>2. f \in Seq(Byte) /\ s = escapes(f) /\ s \in Seq(Unit) /\ job.i = 3 * j + 1
  <2>1. f \in Seq(Byte) /\ s = escapes(f) /\ job.i = 3 * j + 1
    BY <1>1 DEF BytesHalf
  <2> QED BY <2>1, EscapesOf
<1>3. At(s, 0, escapes(f))
  BY <1>2 DEF At
<1>4. EscapesAt(job.in, 0, f)
  <2>1. 0 \in Nat
    OBVIOUS
  <2> QED BY <1>1, <1>2, <1>3, <2>1, EscapesStand
<1>5. PICK m \in 1..Len(f) : m = j + k
  BY <1>1, <1>2
<1>6. isEscape(job.in, 0 + (3 * m - 2)) /\ byteAt(0 + (3 * m - 2)) = f[m]
  <2>1. 0 \in Nat /\ job.in \in Seq(Unit)
    BY <1>1, <1>2
  <2> QED BY <1>2, <1>4, <2>1, EscapesRead
<1>7. 0 + (3 * m - 2) = job.i + 3 * (k - 1)
  BY <1>2, <1>5
<1>8. f[m] \in Byte
  BY <1>2
<1> QED BY <1>1, <1>5, <1>6, <1>7, <1>8 DEF b

(* A byte of ASCII comes out as it is, or stays escaped. *)
LEMMA BytesAsciiOn ==
  ASSUME CodType, BytesRead, NEW j \in Nat, BytesHalf(j), j < Len(cod.first), DecodeAscii
  PROVE  BytesRead'
<1>1. PICK f, o : f = cod.first /\ o = job.out
  OBVIOUS
<1>2. f \in Seq(Byte) /\ f \in Seq(Unit) /\ o \in Seq(Unit)
  BY <1>1, JobFields DEF BytesHalf
<1>3. PICK x \in Byte : x = f[j + 1] /\ x = b(1)
  <2>1. 1 \in Nat \ {0} /\ j + 1 <= Len(cod.first)
    BY <1>1, <1>2
  <2> QED BY <1>1, <2>1, BytesNext
<1>4. x < 128 /\ writes(IF x \in job.chars THEN escaped(x) ELSE <<x>>, 3)
  BY <1>3 DEF DecodeAscii
<1>5. x \in Unit /\ x \notin High /\ x \notin Low
  <2>1. x \in Int /\ 0 <= x /\ x < 128 /\ x <= 65535
    <3>1. x \in Int /\ 0 <= x
      BY DEF Byte
    <3> QED BY ONLY <1>4, <3>1
  <2> QED BY ONLY <2>1, InUnit, InHigh, InLow, SMT
<1>6. CASE x \in job.chars
  <2>1. PICK u \in Seq(Unit) : u = escaped(x) /\ Len(u) = 3 /\ NoLone(u)
    <3>1. PICK u \in Seq(Unit) : /\ u = escaped(x) /\ Len(u) = 3
                                 /\ u[1] = Percent /\ u[2] = hexDigit(x \div 16) /\ u[3] = hexDigit(x % 16)
      BY EscapedByte
    <3>2. x \div 16 \in 0..15 /\ x % 16 \in 0..15
      BY EscapedByte
    <3>3. hexDigit(x \div 16) \in 48..70 /\ hexDigit(x % 16) \in 48..70 /\ Percent \in 37..70
      <4>1. hexDigit(x \div 16) \in 48..70 /\ hexDigit(x % 16) \in 48..70
        BY <3>2, HexDigitRead
      <4> QED BY <4>1 DEF Percent
    <3>4. \A k \in 1..Len(u) : u[k] \in 37..70
      <4>1. \A k \in 1..3 : k = 1 \/ k = 2 \/ k = 3
        OBVIOUS
      <4>2. u[1] \in 37..70 /\ u[2] \in 37..70 /\ u[3] \in 37..70
        <5>1. PICK v, w : v = hexDigit(x \div 16) /\ w = hexDigit(x % 16)
          OBVIOUS
        <5>2. v \in 37..70 /\ w \in 37..70
          <6>1. v \in 48..70 /\ w \in 48..70
            BY <3>3, <5>1, Zenon
          <6> QED BY ONLY <6>1
        <5> QED BY ONLY <3>1, <3>3, <5>1, <5>2
      <4> QED BY ONLY <3>1, <4>1, <4>2
    <3>5. \A v \in 37..70 : v \notin High \cup Low
      BY ONLY InHigh, InLow, SMT
    <3>6. NoLone(u)
      BY <3>4, <3>5, NoLoneWhole
    <3> QED BY <3>1, <3>6
  <2>2. ~ Plainless
    <3>1. x \in decodeDefault /\ j + 1 \in DOMAIN f
      BY <1>1, <1>2, <1>6 DEF BytesRead
    <3> QED BY <1>1, <1>3, <3>1 DEF Plainless
  <2>3. writes(u, 3) /\ 1 \in Nat /\ 3 \in Nat /\ 3 = 3 * 1 /\ j + 1 <= Len(cod.first)
    BY <1>1, <1>2, <1>4, <1>6, <2>1
  <2> QED BY <2>1, <2>2, <2>3, BytesOn
<1>7. CASE x \notin job.chars
  <2>1. PICK u \in Seq(Unit) : u = <<x>> /\ Len(u) = 1 /\ u[1] = x
    BY <1>5, Singles
  <2>2. NoLone(u)
    <3>1. \A k \in 1..Len(u) : u[k] = x
      BY ONLY <2>1
    <3> QED BY <1>5, <3>1, NoLoneWhole
  <2>3. plain(o \o u, Len(o \o u)) = Lettered(plain(o, Len(o)), x)
    BY <1>2, <1>5, <2>1, LetterOne
  <2>4. plain(f, j + 1) = Lettered(plain(f, j), x)
    <3>1. j + 1 \in 1..Len(f) /\ (j + 1) - 1 = j
      BY <1>1, <1>2
    <3> QED BY <1>2, <1>3, <3>1, PlainIs
  <2>5. Plainless => plain(job.out \o u, Len(job.out \o u)) = plain(cod.first, j + 1)
    BY <1>1, <2>3, <2>4 DEF BytesHalf
  <2>6. writes(u, 3) /\ 1 \in Nat /\ 3 \in Nat /\ 3 = 3 * 1 /\ j + 1 <= Len(cod.first)
    BY <1>1, <1>2, <1>4, <1>7, <2>1
  <2> QED BY <2>2, <2>5, <2>6, BytesOn
<1> QED BY <1>6, <1>7

(* Bytes beyond ASCII give no letters and are none. *)
LEMMA BytesSkip ==
  ASSUME CodType, BytesRead, NEW j \in Nat, BytesHalf(j), NEW n \in Nat, j + n <= Len(cod.first),
         \A k \in 1..n : b(k) >= 128,
         NEW u \in Seq(Unit), NoLone(u), \A k \in 1..Len(u) : u[k] \notin Alphanumeric,
         NEW p \in Nat, p = 3 * n, writes(u, p)
  PROVE  BytesRead'
<1>1. PICK f, o : f = cod.first /\ o = job.out
  OBVIOUS
<1>2. f \in Seq(Byte) /\ f \in Seq(Unit) /\ o \in Seq(Unit)
  BY <1>1, JobFields DEF BytesHalf
<1>3. ASSUME NEW i \in (j + 1)..(j + n)
      PROVE  f[i] \notin Alphanumeric
  <2>1. PICK k \in 1..n : i = j + k
    <3>1. i - j \in 1..n /\ i = j + (i - j)
      OBVIOUS
    <3> QED BY <3>1
  <2>2. k \in Nat \ {0} /\ j + k <= Len(cod.first)
    BY <1>1, <1>2
  <2>3. PICK x \in Byte : x = f[i] /\ x = b(k)
    BY <1>1, <2>1, <2>2, BytesNext
  <2>4. x >= 128 /\ x \in Int
    BY <2>3 DEF Byte
  <2>5. x \notin Alphanumeric
    BY ONLY <2>4, SMT DEF Alphanumeric
  <2> QED BY <2>3, <2>5
<1>4. plain(f, j + n) = plain(f, j)
  <2>1. j + n \in Nat /\ j <= j + n /\ j + n <= Len(f)
    BY <1>1
  <2> QED BY <1>2, <1>3, <2>1, LettersSkip
<1>5. plain(o \o u, Len(o \o u)) = plain(o, Len(o))
  BY <1>2, LettersNone
<1>6. Plainless => plain(job.out \o u, Len(job.out \o u)) = plain(cod.first, j + n)
  BY <1>1, <1>4, <1>5 DEF BytesHalf
<1> QED BY <1>6, BytesOn

(* A sequence is as long as its first byte says and the others follow. *)
LEMMA SequenceIs ==
  /\ sequence \in {1, 2, 3, 4}
  /\ sequence = 2 => follows(2) /\ b(1) \div 32 = 6
  /\ sequence = 3 => follows(3) /\ b(1) \div 16 = 14
  /\ sequence = 4 => follows(4) /\ b(1) \div 8 = 30
BY SMT DEF sequence

(* A code point that is not refused is within Unicode and no half. *)
LEMMA ChrRange ==
  ASSUME \A k \in 1..4 : b(k) \in Int, NEW n \in 2..4, ~ refused(n, chr(n))
  PROVE  /\ chr(n) \in Nat /\ 128 <= chr(n) /\ chr(n) <= LastCode /\ chr(n) \notin High \cup Low
<1>1. PICK p, q, r, t \in Int : p = b(1) /\ q = b(2) /\ r = b(3) /\ t = b(4)
  OBVIOUS
<1>2. CASE n = 2
  <2>1. chr(n) = (p % 32) * 64 + (q % 64)
    BY ONLY <1>1, <1>2, SMT DEF chr, bits
  <2>2. (p % 32) * 64 + (q % 64) \in Int /\ (p % 32) * 64 + (q % 64) < 2048
    BY SMT
  <2>3. ~ (chr(n) < 128)
    BY ONLY <1>2, ~ refused(n, chr(n)), SMT DEF refused
  <2>4. chr(n) \in Nat /\ 128 <= chr(n) /\ chr(n) < 2048
    BY ONLY <2>1, <2>2, <2>3, SMT
  <2>5. chr(n) <= LastCode
    BY ONLY <2>4, SMT DEF LastCode
  <2> QED BY ONLY <2>4, <2>5, InHigh, InLow, SMT
<1>3. CASE n = 3
  <2>1. chr(n) = (p % 16) * 4096 + (q % 64) * 64 + (r % 64)
    BY ONLY <1>1, <1>3, SMT DEF chr, bits
  <2>2. (p % 16) * 4096 + (q % 64) * 64 + (r % 64) \in Int
        /\ (p % 16) * 4096 + (q % 64) * 64 + (r % 64) < 65536
    BY SMT
  <2>3. ~ (chr(n) < 2048) /\ chr(n) \notin High \cup Low
    BY ONLY <1>3, ~ refused(n, chr(n)), SMT DEF refused
  <2>4. chr(n) \in Nat /\ 128 <= chr(n) /\ chr(n) < 65536
    BY ONLY <2>1, <2>2, <2>3, SMT
  <2>5. chr(n) <= LastCode
    BY ONLY <2>4, SMT DEF LastCode
  <2> QED BY <2>3, <2>4, <2>5
<1>4. CASE n = 4
  <2>1. chr(n) = (p % 8) * 262144 + (q % 64) * 4096 + (r % 64) * 64 + (t % 64)
    BY ONLY <1>1, <1>4, SMT DEF chr, bits
  <2>2. chr(n) \in Int
    BY ONLY <2>1, p \in Int, q \in Int, r \in Int, t \in Int, SMT
  <2>3. ~ (chr(n) < 65536) /\ ~ (chr(n) > LastCode)
    BY ONLY <1>4, ~ refused(n, chr(n)), SMT DEF refused
  <2>4. LastCode \in Int
    BY SMT DEF LastCode
  <2>5. chr(n) \in Nat /\ 128 <= chr(n) /\ chr(n) <= LastCode /\ 65536 <= chr(n)
    BY ONLY <2>2, <2>3, <2>4, SMT
  <2> QED BY ONLY <2>5, InHigh, InLow, SMT
<1> QED BY <1>2, <1>3, <1>4

(* A byte, or none. *)
LEMMA ByteAtIs ==
  ASSUME NEW i
  PROVE  byteAt(i) \in Int
<1>1. CASE isEscape(job.in, i)
  <2>1. PICK x, y : x = job.in[i + 1] /\ y = job.in[i + 2]
    OBVIOUS
  <2>2. x \in Digits /\ y \in Digits
    BY <1>1, <2>1 DEF isEscape
  <2>3. \A z \in Digits : digitOf(z) \in Int
    BY SMT DEF Digits, digitOf
  <2>4. digitOf(x) * 16 + digitOf(y) \in Int
    BY <2>2, <2>3
  <2> QED BY <1>1, <2>1, <2>4 DEF byteAt
<1>2. CASE ~ isEscape(job.in, i)
  BY <1>2 DEF byteAt
<1> QED BY <1>1, <1>2

(* A sequence of bytes gives one code point, or U+FFFD for each byte. *)
LEMMA BytesSequenceOn ==
  ASSUME CodType, BytesRead, NEW j \in Nat, BytesHalf(j), j < Len(cod.first), DecodeSequence
  PROVE  BytesRead'
<1>1. PICK n \in 2..4 : n = sequence
  <2>1. sequence > 1
    BY DEF DecodeSequence
  <2>2. PICK m \in {1, 2, 3, 4} : m = sequence
    BY SequenceIs
  <2>3. m \in 2..4
    BY <2>1, <2>2
  <2> QED BY <2>2, <2>3
<1>2. /\ follows(n) /\ b(1) >= 128
      /\ writes(IF refused(n, chr(n)) THEN [k \in 1..n |-> Unknown16] ELSE units(chr(n)), 3 * n)
  <2>1. follows(sequence)
    <3>1. sequence = 2 \/ sequence = 3 \/ sequence = 4
      BY <1>1
    <3> QED BY <3>1, SequenceIs
  <2> QED BY <1>1, <2>1 DEF DecodeSequence
<1>3. j + n <= Len(cod.first)
  <2>1. PICK f \in Seq(Byte) : f = cod.first
    BY DEF BytesHalf
  <2>2. PICK m \in Nat : m = Len(f)
    OBVIOUS
  <2>3. Len(job.in) = 3 * m /\ job.i = 3 * j + 1
    BY <2>1, <2>2, EscapesOf DEF BytesHalf
  <2>4. n - 1 \in 1..(n - 1)
    OBVIOUS
  <2>5. isEscape(job.in, job.i + 3 * (n - 1))
    BY <1>2, <2>4 DEF follows
  <2>6. job.i + 3 * (n - 1) + 2 <= Len(job.in)
    BY <2>5 DEF isEscape
  <2>7. (3 * j + 1) + 3 * (n - 1) + 2 <= 3 * m
    BY <2>3, <2>6
  <2> QED BY ONLY <2>1, <2>2, <2>7, j \in Nat, n \in 2..4
<1>4. ASSUME NEW k \in 1..n
      PROVE  b(k) >= 128
  <2>1. CASE k = 1
    BY <1>2, <2>1
  <2>2. CASE k # 1
    <3>1. k - 1 \in 1..(n - 1)
      BY <2>2
    <3>2. byteAt(job.i + 3 * (k - 1)) \div 64 = 2
      BY <1>2, <3>1 DEF follows
    <3>3. PICK x \in Int : x = b(k) /\ x \div 64 = 2
      BY <3>2, ByteAtIs DEF b
    <3>4. x >= 128
      BY ONLY <3>3, SMT
    <3> QED BY <3>3, <3>4
  <2> QED BY <2>1, <2>2
<1>5. PICK p \in Nat : p = 3 * n
  OBVIOUS
<1>6. CASE refused(n, chr(n))
  <2>1. PICK u : u = [k \in 1..n |-> Unknown16]
    OBVIOUS
  <2>2. /\ u \in Seq(Unit) /\ NoLone(u) /\ \A k \in 1..Len(u) : u[k] \notin Alphanumeric
    BY <2>1, UnknownsWhole
  <2>3. writes(u, p)
    BY <1>2, <1>5, <1>6, <2>1
  <2> QED BY <1>3, <1>4, <1>5, <2>2, <2>3, BytesSkip
<1>7. CASE ~ refused(n, chr(n))
  <2>1. PICK c \in Nat : c = chr(n) /\ 128 <= c /\ c <= LastCode /\ c \notin High \cup Low
    <3>1. \A k \in 1..4 : b(k) \in Int
      BY ByteAtIs DEF b
    <3> QED BY <1>7, <3>1, ChrRange
  <2>2. PICK u \in Seq(Unit) : /\ u = units(c) /\ NoLone(u)
                               /\ \A k \in 1..Len(u) : u[k] \notin Alphanumeric
    BY <2>1, UnitsWhole
  <2>3. writes(u, p)
    BY <1>2, <1>5, <1>7, <2>1, <2>2
  <2> QED BY <1>3, <1>4, <1>5, <2>2, <2>3, BytesSkip
<1> QED BY <1>6, <1>7

(* A byte that begins no sequence gives U+FFFD and takes no other with it. *)
LEMMA BytesBrokenOn ==
  ASSUME CodType, BytesRead, NEW j \in Nat, BytesHalf(j), j < Len(cod.first), DecodeBroken
  PROVE  BytesRead'
<1>1. PICK u \in Seq(Unit) : u = <<Unknown16>> /\ Len(u) = 1 /\ u[1] = Unknown16
  BY UnknownWhole, Singles
<1>2. \A k \in 1..Len(u) : u[k] = Unknown16
  BY <1>1
<1>3. NoLone(u) /\ \A k \in 1..Len(u) : u[k] \notin Alphanumeric
  BY <1>2, UnknownWhole, NoLoneWhole
<1>4. PICK n, p \in Nat : n = 1 /\ p = 3 * n /\ p = 3
  OBVIOUS
<1>5. b(1) >= 128 /\ writes(u, p)
  BY <1>1, <1>4 DEF DecodeBroken
<1>6. j + n <= Len(cod.first)
  <2>1. PICK m \in Nat : m = Len(cod.first)
    BY JobFields
  <2> QED BY <1>4, <2>1
<1>7. \A k \in 1..n : b(k) >= 128
  <2>1. \A k \in 1..n : k = 1
    BY <1>4
  <2> QED BY <1>5, <2>1
<1> QED BY <1>3, <1>4, <1>5, <1>6, <1>7, BytesSkip

(* Every round of decode reads bytes whole. *)
LEMMA BytesReadKeeps ==
  ASSUME CodType, BytesRead, CodecNext, ~ NextJob
  PROVE  BytesRead'
<1>1. DecodeAscii \/ DecodeSequence \/ DecodeBroken \/ DecodePlain
  BY DEF BytesRead, CodecNext, EncodeEscaped, EncodeAscii, EncodePair, EncodeLone, EncodeOther, reads
<1>2. job.i <= Len(job.in)
  BY <1>1 DEF DecodeAscii, DecodeSequence, DecodeBroken, DecodePlain, decoding, reads
<1>3. PICK j \in Nat : BytesHalf(j)
  BY DEF BytesRead
<1>4. j < Len(cod.first)
  <2>1. PICK f \in Seq(Byte) : f = cod.first
    BY <1>3 DEF BytesHalf
  <2>2. PICK m \in Nat : m = Len(f)
    OBVIOUS
  <2>3. Len(job.in) = 3 * m /\ job.i = 3 * j + 1
    BY <1>3, <2>1, <2>2, EscapesOf DEF BytesHalf
  <2>4. 3 * j + 1 <= 3 * m
    BY <1>2, <2>3
  <2> QED BY <2>1, <2>2, <2>4
<1>5. ~ DecodePlain
  <2>1. 1 \in Nat \ {0} /\ j + 1 <= Len(cod.first)
    <3>1. PICK m \in Nat : m = Len(cod.first)
      BY JobFields
    <3> QED BY <1>4, <3>1
  <2>2. byteAt(job.i + 3 * (1 - 1)) \in Byte
    BY <1>3, <2>1, BytesNext
  <2>3. job.i + 3 * (1 - 1) = job.i
    BY JobFields
  <2>4. byteAt(job.i) # -1
    <3>1. PICK x \in Byte : x = byteAt(job.i)
      BY <2>2, <2>3
    <3>2. x # -1
      BY DEF Byte
    <3> QED BY <3>1, <3>2
  <2> QED BY <2>4 DEF DecodePlain
<1> QED BY <1>1, <1>3, <1>4, <1>5, BytesAsciiOn, BytesSequenceOn, BytesBrokenOn

(* All are read. *)
LEMMA BytesEnds ==
  ASSUME CodType, BytesRead, NextJob
  PROVE  BytesDone'
<1>1. cod'.todo = <<>> /\ job' = job /\ cod'.first = cod.first /\ job.i > Len(job.in)
  <2>1. cod.todo = <<"decode">>
    BY DEF BytesRead
  <2>2. cod.todo # <<"encode", "encode">> /\ cod.todo # <<"encode", "decode">>
    BY <2>1
  <2> QED BY <2>2, NextJobIs
<1>2. PICK j \in Nat : BytesHalf(j)
  BY DEF BytesRead
<1>3. j = Len(cod.first)
  <2>1. PICK f \in Seq(Byte) : f = cod.first
    BY <1>2 DEF BytesHalf
  <2>2. PICK m \in Nat : m = Len(f)
    OBVIOUS
  <2>3. Len(job.in) = 3 * m /\ job.i = 3 * j + 1 /\ j <= m
    BY <1>2, <2>1, <2>2, EscapesOf DEF BytesHalf
  <2>4. ~ (3 * j + 1 <= 3 * m)
    BY <1>1, <2>3
  <2> QED BY <2>1, <2>2, <2>3, <2>4
<1>4. Plainless' <=> Plainless
  BY <1>1 DEF Plainless
<1> QED BY <1>1, <1>2, <1>3, <1>4 DEF BytesHalf, BytesDone

(* Every step on bytes keeps this. *)
LEMMA BytesInvKeeps ==
  ASSUME CodType, BytesInv, CodecNext
  PROVE  BytesInv'
<1>1. CASE BytesRead
  BY <1>1, BytesEnds, BytesReadKeeps DEF BytesInv
<1>2. CASE BytesDone
  BY <1>2 DEF BytesDone, CodecNext, NextJob, DecodeAscii, DecodeSequence, DecodeBroken, DecodePlain,
        decoding, reads, EncodeEscaped, EncodeAscii, EncodePair, EncodeLone, EncodeOther
<1> QED BY <1>1, <1>2 DEF BytesInv

(* At the end nothing is broken, and no letter lost or made up. *)
LEMMA BytesInvSound ==
  ASSUME BytesInv, finished
  PROVE  DecodedSound
<1>1. BytesDone
  BY DEF BytesInv, BytesRead, finished
<1> QED BY <1>1 DEF BytesDone, DecodedSound, NoLone, Plainless

(* Whatever is written is text, and what it was written for was there. *)
InPlace == job.i <= Len(job.in) + 1
(* A round writes u for n units that are there. *)
Written(u, n) == u \in Seq(Unit) /\ n \in Nat /\ writes(u, n) /\ job.i + n <= Len(job.in) + 1

(* encodeURIComponent gives text. *)
LEMMA CodedUnits ==
  ASSUME NEW cp \in Nat, cp <= LastCode
  PROVE  encodeURIComponent(cp) \in Seq(Unit)
<1>1. utf8(cp) \in Seq(Byte)
  BY Utf8Bytes
<1> QED BY <1>1, EscapesOf DEF encodeURIComponent

(* An escape is a byte. *)
LEMMA EscapeIs ==
  ASSUME NEW i, isEscape(job.in, i)
  PROVE  byteAt(i) \in Byte
<1>1. PICK x, y : x = job.in[i + 1] /\ y = job.in[i + 2]
  OBVIOUS
<1>2. x \in Digits /\ y \in Digits
  BY <1>1 DEF isEscape
<1>3. \A z \in Digits : digitOf(z) \in 0..15
  BY SMT DEF Digits, digitOf
<1>4. PICK v, w \in 0..15 : v = digitOf(x) /\ w = digitOf(y)
  BY <1>2, <1>3
<1>5. v * 16 + w \in Byte
  BY DEF Byte
<1>6. byteAt(i) = v * 16 + w
  BY <1>1, <1>4 DEF byteAt
<1> QED BY <1>5, <1>6

(* Each branch of encode reads no further than the text goes. *)
LEMMA EncodeWrites ==
  ASSUME CodType, EncodeEscaped \/ EncodeAscii \/ EncodePair \/ EncodeLone \/ EncodeOther
  PROVE  \E u, n : Written(u, n)
<1>0. job.in \in Seq(Unit) /\ job.i \in Nat \ {0}
  BY JobFields
<1>1. job.i <= Len(job.in)
  BY DEF EncodeEscaped, EncodeAscii, EncodePair, EncodeLone, EncodeOther, reads
<1>2. code \in Unit /\ code \in Nat /\ code <= LastCode
  BY <1>1, CodeIs
<1>3. CASE EncodeEscaped
  <2>1. job.i + 2 <= Len(job.in) /\ writes(SubSeq(job.in, job.i, job.i + 2), 3)
    BY <1>3 DEF EncodeEscaped, keeps, isEscape
  <2>2. SubSeq(job.in, job.i, job.i + 2) \in Seq(Unit)
    BY <1>0, <2>1
  <2>3. job.i + 3 <= Len(job.in) + 1 /\ 3 \in Nat
    BY <1>0, <2>1
  <2> QED BY <2>1, <2>2, <2>3 DEF Written
<1>4. CASE EncodeAscii
  <2>1. PICK u : /\ u = (IF code \in Alphanumeric \cup job.chars THEN <<code>> ELSE escaped(code))
                 /\ writes(u, 1) /\ code < 128
    BY <1>4 DEF EncodeAscii
  <2>2. u \in Seq(Unit)
    <3>1. <<code>> \in Seq(Unit)
      BY <1>2, Singles
    <3>2. escaped(code) \in Seq(Unit)
      <4>1. PICK x \in Nat : x = code /\ x < 128
        BY <1>2, <2>1
      <4>2. x \in Byte
        BY <4>1 DEF Byte
      <4> QED BY <4>1, <4>2, EscapedByte
    <3> QED BY <2>1, <3>1, <3>2
  <2>3. job.i + 1 <= Len(job.in) + 1 /\ 1 \in Nat
    BY <1>0, <1>1
  <2> QED BY <2>1, <2>2, <2>3 DEF Written
<1>5. CASE EncodePair
  <2>1. PICK h, l : /\ h = code /\ l = job.in[job.i + 1] /\ isPair(job.in, job.i)
                    /\ writes(encodeURIComponent(pairValue(h, l)), 2)
    BY <1>5 DEF EncodePair
  <2>2. h \in High /\ l \in Low /\ job.i < Len(job.in)
    BY <1>1, <2>1, CodeIs DEF isPair
  <2>3. PICK v \in Nat : v = pairValue(h, l) /\ v <= LastCode
    BY <2>2, PairBack
  <2>4. encodeURIComponent(v) \in Seq(Unit) /\ writes(encodeURIComponent(v), 2)
    BY <2>1, <2>3, CodedUnits
  <2>5. job.i + 2 <= Len(job.in) + 1 /\ 2 \in Nat
    BY <1>0, <2>2
  <2> QED BY <2>4, <2>5 DEF Written
<1>6. CASE EncodeLone \/ EncodeOther
  <2>1. PICK v \in Nat : v <= LastCode /\ writes(encodeURIComponent(v), 1)
    <3>1. Unknown16 \in Nat /\ Unknown16 <= LastCode
      BY SMT DEF Unknown16, LastCode
    <3> QED BY <1>2, <1>6, <3>1 DEF EncodeLone, EncodeOther
  <2>2. encodeURIComponent(v) \in Seq(Unit)
    BY <2>1, CodedUnits
  <2>3. job.i + 1 <= Len(job.in) + 1 /\ 1 \in Nat
    BY <1>0, <1>1
  <2> QED BY <2>1, <2>2, <2>3 DEF Written
<1> QED BY <1>3, <1>4, <1>5, <1>6

(* Nor does any branch of decode. *)
LEMMA DecodeWrites ==
  ASSUME CodType, DecodeAscii \/ DecodeSequence \/ DecodeBroken \/ DecodePlain
  PROVE  \E u, n : Written(u, n)
<1>0. job.in \in Seq(Unit) /\ job.i \in Nat \ {0} /\ job.i + 3 * (1 - 1) = job.i
  BY JobFields
<1>1. CASE DecodePlain
  <2>1. job.i <= Len(job.in) /\ writes(<<code>>, 1)
    BY <1>1 DEF DecodePlain, reads
  <2>2. <<code>> \in Seq(Unit)
    BY <2>1, CodeIs, Singles
  <2>3. job.i + 1 <= Len(job.in) + 1 /\ 1 \in Nat
    BY <1>0, <2>1
  <2> QED BY <2>1, <2>2, <2>3 DEF Written
<1>2. CASE DecodeAscii \/ DecodeSequence \/ DecodeBroken
  <2>1. byteAt(job.i) # -1
    BY <1>2 DEF DecodeAscii, DecodeSequence, DecodeBroken, decoding
  <2>2. isEscape(job.in, job.i)
    BY <2>1 DEF byteAt
  <2>3. job.i + 3 <= Len(job.in) + 1 /\ 3 \in Nat
    <3>1. job.i + 2 <= Len(job.in)
      BY <2>2 DEF isEscape
    <3> QED BY <1>0, <3>1
  <2>4. b(1) \in Byte
    BY <1>0, <2>2, EscapeIs DEF b
  <2>5. CASE DecodeAscii
    <3>1. PICK x \in Byte : x = b(1)
      BY <2>4
    <3>2. PICK u : u = (IF x \in job.chars THEN escaped(x) ELSE <<x>>) /\ writes(u, 3)
      BY <2>5, <3>1 DEF DecodeAscii
    <3>3. escaped(x) \in Seq(Unit)
      BY EscapedByte
    <3>4. x \in Unit
      <4>1. x \in Int /\ 0 <= x /\ x <= 65535
        BY DEF Byte
      <4> QED BY ONLY <4>1, InUnit
    <3>5. u \in Seq(Unit)
      BY <3>2, <3>3, <3>4, Singles
    <3> QED BY <2>3, <3>2, <3>5 DEF Written
  <2>6. CASE DecodeBroken
    <3>1. <<Unknown16>> \in Seq(Unit) /\ writes(<<Unknown16>>, 3)
      BY <2>6, UnknownWhole, Singles DEF DecodeBroken
    <3> QED BY <2>3, <3>1 DEF Written
  <2>7. CASE DecodeSequence
    <3>1. PICK n \in 2..4 : n = sequence
      <4>1. sequence > 1
        BY <2>7 DEF DecodeSequence
      <4>2. PICK m \in {1, 2, 3, 4} : m = sequence
        BY SequenceIs
      <4>3. m \in 2..4
        BY <4>1, <4>2
      <4> QED BY <4>2, <4>3
    <3>2. /\ follows(n)
          /\ writes(IF refused(n, chr(n)) THEN [k \in 1..n |-> Unknown16] ELSE units(chr(n)), 3 * n)
      <4>1. sequence = 2 \/ sequence = 3 \/ sequence = 4
        BY <3>1
      <4> QED BY <2>7, <3>1, <4>1, SequenceIs DEF DecodeSequence
    <3>3. PICK u : /\ u = (IF refused(n, chr(n)) THEN [k \in 1..n |-> Unknown16] ELSE units(chr(n)))
                   /\ writes(u, 3 * n)
      BY <3>2
    <3>4. u \in Seq(Unit)
      <4>1. CASE refused(n, chr(n))
        <5>1. u = [k \in 1..n |-> Unknown16] /\ n \in Nat
          BY <3>3, <4>1
        <5> QED BY <5>1, UnknownsWhole
      <4>2. CASE ~ refused(n, chr(n))
        <5>1. \A k \in 1..4 : b(k) \in Int
          BY ByteAtIs DEF b
        <5>2. PICK c \in Nat : c = chr(n) /\ 128 <= c /\ c <= LastCode /\ c \notin High \cup Low
          BY <4>2, <5>1, ChrRange
        <5> QED BY <3>3, <4>2, <5>2, UnitsWhole
      <4> QED BY <4>1, <4>2
    <3>5. job.i + 3 * n <= Len(job.in) + 1
      <4>1. n - 1 \in 1..(n - 1)
        OBVIOUS
      <4>2. job.i + 3 * (n - 1) + 2 <= Len(job.in)
        BY <3>2, <4>1 DEF follows, isEscape
      <4> QED BY <1>0, <4>2
    <3>6. 3 * n \in Nat
      OBVIOUS
    <3> QED BY <3>3, <3>4, <3>5, <3>6 DEF Written
  <2> QED BY <1>2, <2>5, <2>6, <2>7
<1> QED BY <1>1, <1>2

(* The types are kept, and the place that is read. *)
LEMMA CodTypeKeeps ==
  ASSUME CodType, InPlace, CodecNext
  PROVE  CodType' /\ InPlace' /\ cod'.kind = cod.kind
<1>1. CASE NextJob
  <2>1. CodType' /\ cod'.kind = cod.kind
    BY <1>1, NextJobIs
  <2>2. job'.i = 1 \/ job' = job
    <3>1. \/ job' = jobOf("decode", job.out, componentChars, FALSE)
          \/ job' = jobOf("encode", job.out, job.chars, TRUE)
          \/ job' = job
      BY <1>1, NextJobIs
    <3>2. jobOf("decode", job.out, componentChars, FALSE).i = 1
          /\ jobOf("encode", job.out, job.chars, TRUE).i = 1
      BY DEF jobOf
    <3> QED BY ONLY <3>1, <3>2
  <2>3. InPlace'
    <3>1. CASE job' = job
      BY <3>1 DEF InPlace
    <3>2. CASE job'.i = 1
      <4>1. PICK m \in Nat : m = Len(job'.in)
        <5>1. (job \in JobType)'
          BY <2>1 DEF CodType, job
        <5>2. job'.in \in Seq(Unit)
          BY <5>1 DEF JobType
        <5> QED BY <5>2
      <4> QED BY <3>2, <4>1 DEF InPlace
    <3> QED BY <2>2, <3>1, <3>2
  <2> QED BY <2>1, <2>3
<1>2. CASE ~ NextJob
  <2>1. \E u, n : Written(u, n)
    BY <1>2, EncodeWrites, DecodeWrites DEF CodecNext
  <2>2. PICK u, n : Written(u, n)
    BY <2>1
  <2>3. CodType' /\ cod'.kind = cod.kind /\ job'.in = job.in /\ job'.i = job.i + n
    BY <2>2, Writes DEF Written
  <2> QED BY <2>2, <2>3 DEF Written, InPlace
<1> QED BY <1>1, <1>2

(* What holds of the codec, whatever it is given and however far it has come. *)
CodecInv ==
  /\ CodType /\ InPlace
  /\ \/ cod.kind = "link" /\ LinkInv
     \/ cod.kind = "address" /\ AddressInv
     \/ cod.kind = "bytes" /\ BytesInv

(* Every step of the codec keeps it, and so does what leaves the codec alone. *)
LEMMA CodecKeeps == CodecInv /\ CodecNext => CodecInv'
<1> SUFFICES ASSUME CodecInv, CodecNext PROVE CodecInv'
  OBVIOUS
<1>1. CodType' /\ InPlace' /\ cod'.kind = cod.kind
  BY CodTypeKeeps DEF CodecInv
<1>2. cod.kind = "link" /\ LinkInv => LinkInv'
  BY LinkInvKeeps DEF CodecInv
<1>3. cod.kind = "address" /\ AddressInv => AddressInv'
  BY AddressInvKeeps DEF CodecInv
<1>4. cod.kind = "bytes" /\ BytesInv => BytesInv'
  BY BytesInvKeeps DEF CodecInv
<1> QED BY <1>1, <1>2, <1>3, <1>4 DEF CodecInv

(* What leaves the codec alone. *)
LEMMA CodecStays == CodecInv /\ UNCHANGED codecVars => CodecInv'
<1> SUFFICES ASSUME CodecInv, UNCHANGED codecVars PROVE CodecInv'
  OBVIOUS
<1>1. cod' = cod
  BY DEF codecVars
<1>2. CodType' /\ InPlace'
  BY <1>1 DEF CodecInv, CodType, InPlace, job
<1>3. (LinkInv' <=> LinkInv) /\ (AddressInv' <=> AddressInv) /\ (BytesInv' <=> BytesInv)
  BY <1>1 DEF LinkInv, LinkWritten, LinkRead, LinkHalf, LinkDone, AddressInv, AddressWritten,
    AddressRead, AddressHalf, AddressDone, BytesInv, BytesRead, BytesHalf, BytesDone, Plainless, job
<1> QED BY <1>1, <1>2, <1>3 DEF CodecInv

(* And it is what the codec is for. *)
LEMMA CodecInvSound == CodecInv => CodecSound
<1> SUFFICES ASSUME CodecInv PROVE CodecSound
  OBVIOUS
<1>1. CodecTypeOK
  <2>1. job.task \in {"encode", "decode"} /\ job.out \in Seq(Unit) /\ job.i \in Nat \ {0}
        /\ job.in \in Seq(Unit) /\ job.i <= Len(job.in) + 1
    BY JobFields DEF CodecInv, InPlace
  <2>2. job.i \in 1..(Len(job.in) + 1)
    BY <2>1
  <2> QED BY <2>1, <2>2 DEF CodecTypeOK
<1>2. LinkCarries
  BY LinkInvSound DEF CodecInv, LinkCarries
<1>3. EncodedOnce
  BY AddressInvSound DEF CodecInv, EncodedOnce
<1>4. DecodedSound
  BY BytesInvSound DEF CodecInv, DecodedSound
<1> QED BY <1>1, <1>2, <1>3, <1>4 DEF CodecSound

(* Before the first unit nothing is carried. *)
LEMMA NothingCarried ==
  ASSUME NEW w \in Seq(Unit)
  PROVE  \E P : Pieces(w, 0, <<>>, P) /\ <<0, 0>> \in P
<1>1. PICK p : p = <<0, 0>>
  OBVIOUS
<1>2. p[1] = 0 /\ p[2] = 0 /\ p \in Nat \X Nat
  BY <1>1
<1>3. PICK P : P = {p}
  OBVIOUS
<1>4. Len(<<>>) = 0 /\ P \subseteq Nat \X Nat /\ p \in P /\ \A q \in P : q[1] = 0 /\ q[2] = 0
  BY <1>2, <1>3
<1>5. Pieces(w, 0, <<>>, P)
  BY ONLY <1>1, <1>4 DEF Pieces
<1> QED BY <1>1, <1>4, <1>5

(* It holds of every string and of all bytes to begin with. *)
LEMMA JobsInv ==
  ASSUME cod \in Jobs
  PROVE  CodecInv
<1>1. CASE \E w \in Words : cod = [kind |-> "link", todo |-> <<"encode", "decode">>, first |-> w,
                                   job |-> jobOf("encode", w, linkChars, FALSE)]
  <2>1. PICK w \in Words : cod = [kind |-> "link", todo |-> <<"encode", "decode">>, first |-> w,
                                  job |-> jobOf("encode", w, linkChars, FALSE)]
    BY <1>1
  <2>2. w \in Seq(Unit)
    BY CodecAssumption
  <2>3. /\ cod.kind = "link" /\ cod.todo = <<"encode", "decode">> /\ cod.first = w
        /\ job = jobOf("encode", w, linkChars, FALSE)
    BY <2>1 DEF job
  <2>4. /\ job \in JobType /\ job.task = "encode" /\ job.in = w /\ job.i = 1 /\ job.out = <<>>
        /\ job.chars = linkChars /\ job.keepEscaped = FALSE
    BY <2>2, <2>3, CharSets DEF jobOf, JobType
  <2>5. CodType
    <3>1. cod.todo \in Todos
      BY <2>3 DEF Todos
    <3> QED BY <2>1, <2>2, <2>3, <2>4, <3>1 DEF CodType, job
  <2>6. PICK n \in Nat : n = Len(w)
    BY <2>2
  <2>7. LinkWritten
    <3>1. job.i - 1 = 0 /\ Len(job.out) = 0 /\ job.i - 1 <= Len(job.in)
      BY <2>4, <2>6
    <3>2. PICK P : Pieces(w, 0, <<>>, P) /\ <<0, 0>> \in P
      BY <2>2, NothingCarried
    <3> QED BY <2>3, <2>4, <3>1, <3>2 DEF LinkWritten
  <2>8. InPlace
    BY <2>4, <2>6 DEF InPlace
  <2> QED BY <2>3, <2>5, <2>7, <2>8 DEF CodecInv, LinkInv
<1>2. CASE \E w \in Words : cod = [kind |-> "address", todo |-> <<"encode", "encode">>, first |-> w,
                                   job |-> jobOf("encode", w, encodeDefault, TRUE)]
  <2>1. PICK w \in Words : cod = [kind |-> "address", todo |-> <<"encode", "encode">>, first |-> w,
                                  job |-> jobOf("encode", w, encodeDefault, TRUE)]
    BY <1>2
  <2>2. w \in Seq(Unit)
    BY CodecAssumption
  <2>3. /\ cod.kind = "address" /\ cod.todo = <<"encode", "encode">> /\ cod.first = w
        /\ job = jobOf("encode", w, encodeDefault, TRUE)
    BY <2>1 DEF job
  <2>4. /\ job \in JobType /\ job.task = "encode" /\ job.in = w /\ job.i = 1 /\ job.out = <<>>
        /\ job.chars = encodeDefault /\ job.keepEscaped = TRUE
    BY <2>2, <2>3, CharSets DEF jobOf, JobType
  <2>5. CodType
    <3>1. cod.todo \in Todos
      BY <2>3 DEF Todos
    <3> QED BY <2>1, <2>2, <2>3, <2>4, <3>1 DEF CodType, job
  <2>6. PICK n \in Nat : n = Len(w)
    BY <2>2
  <2>7. AddressWritten
    <3>1. PICK C : C = {0}
      OBVIOUS
    <3>2. Len(<<>>) = 0 /\ C \subseteq Nat /\ 0 \in C /\ \A c \in C : c = 0
      BY <3>1
    <3>3. Chunks(<<>>, C)
      BY ONLY <3>2 DEF Chunks
    <3> QED BY <2>3, <2>4, <3>3 DEF AddressWritten
  <2>8. InPlace
    BY <2>4, <2>6 DEF InPlace
  <2> QED BY <2>3, <2>5, <2>7, <2>8 DEF CodecInv, AddressInv
<1>3. CASE \E r \in ByteRuns : cod = [kind |-> "bytes", todo |-> <<"decode">>, first |-> r,
                                      job |-> jobOf("decode", escapes(r), decodeDefault, FALSE)]
  <2>1. PICK r \in ByteRuns : cod = [kind |-> "bytes", todo |-> <<"decode">>, first |-> r,
                                     job |-> jobOf("decode", escapes(r), decodeDefault, FALSE)]
    BY <1>3
  <2>2. r \in Seq(Byte) /\ r \in Seq(Unit) /\ escapes(r) \in Seq(Unit)
    <3>1. r \in Seq(Byte)
      BY CodecAssumption
    <3>2. \A x \in Byte : x \in Unit
      <4>1. \A x \in Byte : x \in Int /\ 0 <= x /\ x <= 65535
        BY DEF Byte
      <4> QED BY ONLY <4>1, InUnit
    <3>3. Byte \subseteq Unit
      BY <3>2
    <3> QED BY <3>1, <3>3, EscapesOf
  <2>3. /\ cod.kind = "bytes" /\ cod.todo = <<"decode">> /\ cod.first = r
        /\ job = jobOf("decode", escapes(r), decodeDefault, FALSE)
    BY <2>1 DEF job
  <2>4. /\ job \in JobType /\ job.task = "decode" /\ job.in = escapes(r) /\ job.i = 1 /\ job.out = <<>>
        /\ job.chars = decodeDefault
    BY <2>2, <2>3, CharSets DEF jobOf, JobType
  <2>5. CodType
    <3>1. cod.todo \in Todos
      BY <2>3 DEF Todos
    <3> QED BY <2>1, <2>2, <2>3, <2>4, <3>1 DEF CodType, job
  <2>6. PICK n, m \in Nat : n = Len(r) /\ m = Len(escapes(r))
    BY <2>2
  <2>7. BytesHalf(0)
    <3>1. NoLone(<<>>)
      BY DEF NoLone
    <3>2. <<>> \in Seq(Unit) /\ Len(<<>>) = 0
      OBVIOUS
    <3>3. plain(<<>>, 0) = <<>> /\ plain(r, 0) = <<>>
      BY <2>2, <3>2, PlainIs
    <3>4. 0 \in 0..n /\ 1 = 3 * 0 + 1
      OBVIOUS
    <3> QED BY <2>2, <2>3, <2>4, <2>6, <3>1, <3>2, <3>3, <3>4 DEF BytesHalf
  <2>8. BytesRead
    BY <2>3, <2>4, <2>7 DEF BytesRead
  <2>9. InPlace
    BY <2>4, <2>6 DEF InPlace
  <2> QED BY <2>3, <2>5, <2>8, <2>9 DEF CodecInv, BytesInv
<1> QED BY <1>1, <1>2, <1>3 DEF Jobs

-----------------------------------------------------------------------------

(* A text as the browser lays it out, field by field. *)
LEMMA LaidOutIs ==
  ASSUME NEW l, LaidOut(l)
  PROVE  /\ l.rows \in Seq(Nat \ {0}) /\ Len(l.rows) \in Nat \ {0} /\ l.height \in Nat
         /\ \A k \in 1..Len(l.rows) : l.rows[k] \in Nat \ {0}
         /\ Len(l.blocks) \in Nat /\ DOMAIN l.blocks = 1..Len(l.blocks)
         /\ \A k \in 1..Len(l.blocks) :
              /\ l.blocks[k].line \in Nat /\ l.blocks[k].line < Len(l.rows)
              /\ l.blocks[k].top \in Nat /\ l.blocks[k].top <= l.height
         /\ \A i, j \in 1..Len(l.blocks) :
              i < j => /\ l.blocks[i].line < l.blocks[j].line
                       /\ l.blocks[i].top <= l.blocks[j].top
<1>1. PICK rs, h, bs : rs = l.rows /\ h = l.height /\ bs = l.blocks
  OBVIOUS
<1>2. rs \in Seq(Nat \ {0}) /\ rs # <<>> /\ h \in Nat
  BY <1>1 DEF LaidOut
<1>3. PICK n \in Nat : n = Len(rs)
  BY <1>2
<1>4. n # 0
  BY <1>2, <1>3
<1>5. PICK B : B = [line : 0..(n - 1), top : 0..h]
  OBVIOUS
<1>6. bs \in Seq(B)
  BY <1>1, <1>3, <1>5 DEF LaidOut
<1>7. PICK m \in Nat : m = Len(bs)
  BY <1>6
<1>8. DOMAIN bs = 1..m /\ \A k \in 1..m : bs[k] \in B
  BY <1>6, <1>7
<1>9. \A x \in B : x.line \in 0..(n - 1) /\ x.top \in 0..h
  BY <1>5
<1>10. \A k \in 1..m : /\ bs[k].line \in Nat /\ bs[k].line < n
                       /\ bs[k].top \in Nat /\ bs[k].top <= h
  <2> TAKE k \in 1..m
  <2>1. bs[k].line \in 0..(n - 1) /\ bs[k].top \in 0..h
    BY <1>8, <1>9
  <2> QED BY <1>2, <2>1
<1>11. \A i, j \in 1..m : i < j => bs[i].line < bs[j].line /\ bs[i].top <= bs[j].top
  BY <1>1, <1>8 DEF LaidOut
<1>12. \A k \in 1..n : rs[k] \in Nat \ {0}
  BY <1>2, <1>3
<1> QED BY ONLY <1>1, <1>2, <1>3, <1>4, <1>7, <1>8, <1>10, <1>11, <1>12

(* The rows before a line are those before the line above, and its own.             *)
LEMMA HeightsAre ==
  ASSUME NEW l, LaidOut(l)
  PROVE  /\ lineHeightMap(l) \in [0..Len(l.rows) -> Nat] /\ lineHeightMap(l)[0] = 0
         /\ \A k \in 1..Len(l.rows) : lineHeightMap(l)[k] = lineHeightMap(l)[k - 1] + l.rows[k]
<1>0. PICK rs : rs = l.rows
  OBVIOUS
<1>1. PICK n \in Nat : rs = l.rows /\ n = Len(rs)
  BY <1>0, LaidOutIs
<1>2. \A k \in 1..n : rs[k] \in Nat
  BY <1>1, LaidOutIs
<1> DEFINE acc == CHOOSE f : f = [k \in 0..n |-> IF k = 0 THEN 0 ELSE f[k - 1] + rs[k]]
<1>3. lineHeightMap(l) = acc
  BY <1>1, Zenon DEF lineHeightMap
<1> HIDE DEF acc
<1> DEFINE g == [k \in 1..n |-> [h \in Nat |-> h + rs[k]]]
<1>4. IsLoop(n, Nat, g) /\ \A k \in 1..n, h \in Nat : g[k][h] = h + rs[k]
  BY <1>2 DEF IsLoop
<1> HIDE DEF g
<1>5. PICK h : IsRun(n, Nat, 0, g, h)
  <2>1. PICK R, e, loop : R = Nat /\ e = 0 /\ loop = g
    OBVIOUS
  <2>2. n \in Nat /\ e \in R /\ IsLoop(n, R, loop)
    BY <1>4, <2>1
  <2>3. \E h : IsRun(n, R, e, loop, h)
    BY ONLY <2>2, Iterated
  <2> QED BY <2>1, <2>3
<1>6. h \in [0..n -> Nat] /\ h[0] = 0 /\ \A k \in 1..n : h[k] = h[k - 1] + rs[k]
  <2>1. h \in [0..n -> Nat] /\ h[0] = 0 /\ \A k \in 1..n : h[k] = g[k][h[k - 1]]
    BY <1>5 DEF IsRun
  <2>2. ASSUME NEW k \in 1..n PROVE h[k] = h[k - 1] + rs[k]
    <3>1. k - 1 \in 0..n
      OBVIOUS
    <3>2. h[k - 1] \in Nat
      BY <2>1, <3>1
    <3> QED BY <1>4, <2>1, <3>2
  <2> QED BY <2>1, <2>2
<1>7. h = [k \in 0..n |-> IF k = 0 THEN 0 ELSE h[k - 1] + rs[k]]
  <2>1. h = [k \in 0..n |-> h[k]]
    BY <1>6
  <2>2. \A k \in 0..n : h[k] = IF k = 0 THEN 0 ELSE h[k - 1] + rs[k]
    <3>1. \A k \in 0..n : k # 0 => k \in 1..n
      OBVIOUS
    <3> QED BY <1>6, <3>1
  <2> QED BY ONLY <2>1, <2>2
<1>8. acc = [k \in 0..n |-> IF k = 0 THEN 0 ELSE acc[k - 1] + rs[k]]
  BY <1>7, Zenon DEF acc
<1>9. DOMAIN acc = 0..n /\ \A k \in 0..n : acc[k] = IF k = 0 THEN 0 ELSE acc[k - 1] + rs[k]
  BY <1>8, Zenon
<1>10. \A k \in 1..n : k \in 0..n /\ k # 0
  OBVIOUS
<1>11. acc[0] = 0 /\ \A k \in 1..n : acc[k] = acc[k - 1] + rs[k]
  BY ONLY <1>9, <1>10, 0 \in 0..n
<1>12. \A k \in 0..n : acc[k] \in Nat
  <2> DEFINE T == {k \in 0..n : acc[k] \in Nat}
  <2>1. 0 \in T
    BY <1>11
  <2>2. ASSUME NEW k \in 0..(n - 1), k \in T PROVE k + 1 \in T
    <3>1. k + 1 \in 1..n /\ (k + 1) - 1 = k /\ k + 1 \in 0..n
      OBVIOUS
    <3>2. acc[k + 1] = acc[k] + rs[k + 1] /\ acc[k] \in Nat /\ rs[k + 1] \in Nat
      BY <1>2, <1>11, <2>2, <3>1
    <3> QED BY <3>1, <3>2
  <2> HIDE DEF T
  <2>3. 0 \in Int /\ n \in Int /\ 0 <= n
    OBVIOUS
  <2>4. \A k \in 0..n : k \in T
    BY ONLY <2>1, <2>2, <2>3, IntervalInduction
  <2> QED BY <2>4 DEF T
<1>13. acc \in [0..n -> Nat]
  <2>1. acc = [k \in 0..n |-> acc[k]]
    BY <1>8, <1>9, Zenon
  <2> QED BY <1>12, <2>1
<1> QED BY ONLY <1>1, <1>3, <1>11, <1>13

(* Later lines begin at later rows. *)
LEMMA RowsGrow ==
  ASSUME NEW l, LaidOut(l)
  PROVE  /\ \A j \in 0..Len(l.rows) : rowOf(l, j) = lineHeightMap(l)[j] /\ rowOf(l, j) \in Nat
         /\ rowOf(l, 0) = 0
         /\ \A i, j \in 0..Len(l.rows) : i < j => rowOf(l, i) < rowOf(l, j)
         /\ linesCount(l) \in Nat \ {0}
         /\ \A j \in 0..Len(l.rows) : rowOf(l, j) <= linesCount(l)
<1>1. PICK n \in Nat : n = Len(l.rows) /\ n # 0
  BY LaidOutIs
<1>2. PICK acc : acc = lineHeightMap(l)
  OBVIOUS
<1>3. /\ acc \in [0..n -> Nat] /\ acc[0] = 0
      /\ \A k \in 1..n : acc[k] = acc[k - 1] + l.rows[k] /\ l.rows[k] \in Nat \ {0}
  BY <1>1, <1>2, HeightsAre, LaidOutIs
<1>4. \A k \in 1..n : acc[k - 1] < acc[k]
  <2> TAKE k \in 1..n
  <2>1. k - 1 \in 0..n
    OBVIOUS
  <2>2. PICK x \in Nat, y \in Nat \ {0} : x = acc[k - 1] /\ y = l.rows[k]
    BY <1>3, <2>1
  <2>3. acc[k] = x + y
    BY <1>3, <2>2
  <2> QED BY ONLY <2>2, <2>3
<1>5. ASSUME NEW i \in 0..n, NEW j \in 0..n, i < j
      PROVE  acc[i] < acc[j]
  <2> DEFINE T == {k \in (i + 1)..n : acc[i] < acc[k]}
  <2>1. i + 1 \in T
    <3>1. i + 1 \in 1..n /\ (i + 1) - 1 = i
      BY <1>5
    <3> QED BY <1>4, <3>1
  <2>2. ASSUME NEW k \in (i + 1)..(n - 1), k \in T PROVE k + 1 \in T
    <3>1. k + 1 \in 1..n /\ (k + 1) - 1 = k /\ k \in 0..n /\ k + 1 \in 0..n
      OBVIOUS
    <3>2. acc[k] < acc[k + 1] /\ acc[i] < acc[k]
      BY <1>4, <2>2, <3>1
    <3>3. acc[i] \in Nat /\ acc[k] \in Nat /\ acc[k + 1] \in Nat
      BY <1>3, <3>1
    <3> QED BY <3>1, <3>2, <3>3
  <2> HIDE DEF T
  <2>3. i + 1 \in Int /\ n \in Int /\ i + 1 <= n
    BY <1>5
  <2>4. \A k \in (i + 1)..n : k \in T
    BY ONLY <2>1, <2>2, <2>3, IntervalInduction
  <2>5. j \in (i + 1)..n
    BY <1>5
  <2> QED BY <2>4, <2>5 DEF T
<1>6. \A j \in 0..n : rowOf(l, j) = acc[j]
  BY <1>1, <1>2 DEF rowOf
<1>7. linesCount(l) = acc[n]
  BY <1>1, <1>6 DEF linesCount
<1>8. acc[n] \in Nat \ {0}
  <2>1. acc[0] < acc[n]
    BY <1>1, <1>5
  <2> QED BY <1>3, <2>1
<1>9. ASSUME NEW j \in 0..n PROVE acc[j] <= acc[n]
  <2>1. CASE j = n
    BY <1>3, <2>1
  <2>2. CASE j # n
    <3>1. acc[j] < acc[n] /\ acc[j] \in Nat /\ acc[n] \in Nat
      BY <1>3, <1>5, <2>2
    <3> QED BY <3>1
  <2> QED BY <2>1, <2>2
<1> QED BY <1>1, <1>2, <1>3, <1>5, <1>6, <1>7, <1>8, <1>9

(* The rows of the blocks, n rows in all: they grow up to the last row, and from the     *)
(* first that is there no more, if the blocks are of another text, there is none.       *)
Growing(R, m, n) ==
  /\ R \in [1..m -> Int] /\ \A k \in 1..m : R[k] = Gap \/ (0 <= R[k] /\ R[k] <= n)
  /\ \A i, k \in 1..m : i < k /\ R[k] # Gap /\ R[k] < n => R[i] # Gap /\ R[i] < R[k]

(* The row of each block of a result, by the lines of a source. *)
BlockRows(src, res) == [k \in 1..Len(res.blocks) |-> blockRow(src, res, k)]

(* They grow, for any source and result. *)
LEMMA BlocksGrow ==
  ASSUME NEW src, LaidOut(src), NEW res, LaidOut(res)
  PROVE  /\ Growing(BlockRows(src, res), Len(res.blocks), linesCount(src))
         /\ \A k \in 1..Len(res.blocks) : BlockRows(src, res)[k] = blockRow(src, res, k)
<1>1. PICK m \in Nat, w \in Nat, n \in Nat : m = Len(res.blocks) /\ w = Len(src.rows) /\ n = linesCount(src)
  <2>1. PICK w : w = Len(src.rows)
    OBVIOUS
  <2>2. PICK m \in Nat : m = Len(res.blocks)
    BY LaidOutIs
  <2>3. PICK n \in Nat : n = linesCount(src)
    BY RowsGrow
  <2>4. w \in Nat
    BY <2>1, LaidOutIs
  <2> QED BY <2>1, <2>2, <2>3, <2>4
<1>2. PICK R : R = BlockRows(src, res)
  OBVIOUS
<1>3. \A k \in 1..m : R[k] = blockRow(src, res, k)
  BY <1>1, <1>2 DEF BlockRows
<1>4. PICK rows : rows = [j \in Nat |-> rowOf(src, j)]
  OBVIOUS
<1>5. PICK lines : lines = [k \in 1..m |-> res.blocks[k].line]
  OBVIOUS
<1>6. /\ \A k \in 1..m : lines[k] \in Nat
      /\ \A i, k \in 1..m : i < k => lines[i] < lines[k]
  BY <1>1, <1>5, LaidOutIs
<1>7. \A k \in 1..m : R[k] = rows[lines[k]]
  BY <1>3, <1>4, <1>5, <1>6 DEF blockRow
<1>8. /\ \A j \in 0..w : rows[j] \in Nat /\ rows[j] <= n
      /\ \A i, j \in 0..w : i < j => rows[i] < rows[j]
      /\ rows[w] = n
      /\ \A j \in Nat : j > w => rows[j] = Gap
  <2>1. \A j \in 0..w : rows[j] = rowOf(src, j)
    BY <1>4
  <2>2. \A j \in Nat : j > w => rows[j] = Gap
    BY <1>1, <1>4 DEF rowOf
  <2>3. rows[w] = n
    BY <1>1, <2>1 DEF linesCount
  <2> QED BY <1>1, <2>1, <2>2, <2>3, RowsGrow
<1>9. \A k \in 1..m : R[k] \in Int /\ (R[k] = Gap \/ (0 <= R[k] /\ R[k] <= n))
  <2> TAKE k \in 1..m
  <2>1. PICK j \in Nat : j = lines[k]
    BY <1>6
  <2>2. CASE j <= w
    BY <1>7, <1>8, <2>1, <2>2
  <2>3. CASE j > w
    BY <1>7, <1>8, <2>1, <2>3 DEF Gap
  <2> QED BY <2>2, <2>3
<1>10. ASSUME NEW i \in 1..m, NEW k \in 1..m, i < k, R[k] # Gap, R[k] < n
       PROVE  R[i] # Gap /\ R[i] < R[k]
  <2>1. PICK x \in Nat, y \in Nat : x = lines[i] /\ y = lines[k] /\ x < y
    BY <1>6, <1>10
  <2>2. y <= w
    BY <1>7, <1>8, <1>10, <2>1
  <2>3. x \in 0..w /\ y \in 0..w
    BY <2>1, <2>2
  <2>4. rows[x] < rows[y] /\ rows[x] \in Nat
    BY <1>8, <2>1, <2>3
  <2> QED BY <1>7, <2>1, <2>4 DEF Gap
<1>11. R = [k \in 1..m |-> R[k]]
  BY <1>1, <1>2 DEF BlockRows
<1>12. R \in [1..m -> Int]
  BY <1>9, <1>11
<1> QED BY <1>1, <1>2, <1>3, <1>9, <1>10, <1>12 DEF Growing

(* The list of places, when m blocks have been seen.                                *)
Listed(u, m, R, n) ==
  /\ u \in Seq(Int) /\ Len(u) >= 1 /\ u[1] = 0
  /\ \A k \in 2..Len(u) : \E i \in 1..m : u[k] = R[i] /\ R[i] # 0
  /\ \A j, k \in 1..Len(u) : j < k /\ u[k] # Gap /\ u[k] < n => u[j] # Gap /\ u[j] < u[k]
  /\ \A i \in 1..m : R[i] # 0 => \E k \in 2..Len(u) : u[k] = R[i]

(* A list with one more at its end. *)
LEMMA Appended ==
  ASSUME NEW S, NEW s \in Seq(S), NEW x \in S
  PROVE  /\ Append(s, x) \in Seq(S) /\ Len(Append(s, x)) = Len(s) + 1
         /\ \A k \in 1..Len(s) : Append(s, x)[k] = s[k]
         /\ Append(s, x)[Len(s) + 1] = x
OBVIOUS

(* The list of rows goes on as the loop does: a row that is not 0 is *)
(* appended.                                                         *)
LEMMA ListedNext ==
  ASSUME NEW M \in Nat, NEW m \in 0..(M - 1), NEW R, NEW n \in Nat, Growing(R, M, n),
         NEW u, Listed(u, m, R, n)
  PROVE  Listed(IF R[m + 1] = 0 THEN u ELSE Append(u, R[m + 1]), m + 1, R, n)
<1>1. /\ m + 1 \in 1..M /\ \A i \in 1..m : i \in 1..M /\ i < m + 1 /\ i \in 1..(m + 1)
      /\ \A i \in 1..(m + 1) : i \in 1..m \/ i = m + 1
      /\ m + 1 \in 1..(m + 1)
  OBVIOUS
<1>2. CASE R[m + 1] = 0
  BY <1>1, <1>2 DEF Listed
<1>3. CASE R[m + 1] # 0
  <2>1. PICK x \in Int : x = R[m + 1]
    BY <1>1 DEF Growing
  <2>2. PICK l \in Nat : l = Len(u)
    BY DEF Listed
  <2>3. PICK v : v = Append(u, x)
    OBVIOUS
  <2>4. /\ v \in Seq(Int) /\ Len(v) = l + 1 /\ \A k \in 1..l : v[k] = u[k]
        /\ v[l + 1] = x /\ l >= 1 /\ v[1] = 0
    BY <2>2, <2>3, Appended DEF Listed
  <2>5. \A k \in 2..(l + 1) : \E i \in 1..(m + 1) : v[k] = R[i] /\ R[i] # 0
    <3> TAKE k \in 2..(l + 1)
    <3>1. CASE k = l + 1
      BY <1>1, <1>3, <2>1, <2>4, <3>1
    <3>2. CASE k # l + 1
      <4>1. k \in 2..Len(u) /\ k \in 1..l
        BY <2>2, <3>2
      <4>2. PICK i \in 1..m : u[k] = R[i] /\ R[i] # 0
        BY <4>1 DEF Listed
      <4> QED BY <1>1, <2>4, <4>1, <4>2
    <3> QED BY <3>1, <3>2
  <2>6. ASSUME NEW j \in 1..(l + 1), NEW k \in 1..(l + 1), j < k, v[k] # Gap, v[k] < n
        PROVE  v[j] # Gap /\ v[j] < v[k]
    <3>1. j \in 1..l
      BY <2>6
    <3>2. CASE k = l + 1
      <4>1. x # Gap /\ x < n /\ x # 0 /\ 0 <= x
        BY <1>1, <1>3, <2>1, <2>4, <2>6, <3>2 DEF Growing
      <4>2. CASE j = 1
        BY <2>4, <3>2, <4>1, <4>2 DEF Gap
      <4>3. CASE j # 1
        <5>1. j \in 2..Len(u)
          BY <2>2, <3>1, <4>3
        <5>2. PICK i \in 1..m : u[j] = R[i]
          BY <5>1 DEF Listed
        <5>3. R[i] # Gap /\ R[i] < R[m + 1]
          BY <1>1, <2>1, <4>1 DEF Growing
        <5> QED BY <2>1, <2>4, <3>1, <3>2, <5>2, <5>3
      <4> QED BY <4>2, <4>3
    <3>3. CASE k # l + 1
      <4>1. k \in 1..l
        BY <3>3
      <4>2. u[k] # Gap /\ u[k] < n
        BY <2>4, <2>6, <4>1
      <4>3. u[j] # Gap /\ u[j] < u[k]
        BY <2>2, <2>6, <3>1, <4>1, <4>2 DEF Listed
      <4> QED BY <2>4, <3>1, <4>1, <4>3
    <3> QED BY <3>2, <3>3
  <2>7. ASSUME NEW i \in 1..(m + 1), R[i] # 0
        PROVE  \E k \in 2..(l + 1) : v[k] = R[i]
    <3>1. CASE i = m + 1
      <4>1. l + 1 \in 2..(l + 1)
        BY <2>4
      <4> QED BY <2>1, <2>4, <3>1, <4>1
    <3>2. CASE i # m + 1
      <4>1. i \in 1..m
        BY <3>2
      <4>2. PICK k \in 2..Len(u) : u[k] = R[i]
        BY <2>7, <4>1 DEF Listed
      <4>3. k \in 1..l /\ k \in 2..(l + 1)
        BY <2>2
      <4> QED BY <2>4, <4>2, <4>3
    <3> QED BY <3>1, <3>2
  <2>8. Listed(v, m + 1, R, n)
    BY <2>4, <2>5, <2>6, <2>7 DEF Listed
  <2> QED BY <1>3, <2>1, <2>3, <2>8
<1> QED BY <1>2, <1>3

(* The list when it is complete: the first row, those of the blocks, and the last.      *)
Places(L, R, m, n) ==
  /\ L \in Seq(Int) /\ Len(L) >= 2 /\ L[1] = 0 /\ L[Len(L)] = n
  /\ \A k \in 1..Len(L) : L[k] = Gap \/ (0 <= L[k] /\ L[k] <= n)
  /\ \A k \in 2..Len(L) : L[k] = n \/ \E i \in 1..m : L[k] = R[i] /\ R[i] # 0
  /\ \A j, k \in 1..Len(L) : j < k /\ L[k] # Gap /\ L[k] < n => L[j] # Gap /\ L[j] < L[k]
  /\ \A i \in 1..m : R[i] # 0 => \E k \in 2..Len(L) : L[k] = R[i]

(* Closed with the number of rows, it is complete. *)
LEMMA ListedLast ==
  ASSUME NEW m \in Nat, NEW R, NEW n \in Nat, Growing(R, m, n), NEW u, Listed(u, m, R, n),
         NEW v, v = Append(u, n)
  PROVE  Places(v, R, m, n)
<1>1. PICK l \in Nat : l = Len(u)
  BY DEF Listed
<1>2. /\ v \in Seq(Int) /\ Len(v) = l + 1 /\ \A k \in 1..l : v[k] = u[k]
      /\ v[l + 1] = n /\ l >= 1 /\ v[1] = 0
  BY <1>1, Appended DEF Listed
<1>3. \A k \in 2..(l + 1) : v[k] = n \/ \E i \in 1..m : v[k] = R[i] /\ R[i] # 0
  <2> TAKE k \in 2..(l + 1)
  <2>1. CASE k = l + 1
    BY <1>2, <2>1
  <2>2. CASE k # l + 1
    <3>1. k \in 2..Len(u) /\ k \in 1..l
      BY <1>1, <2>2
    <3> QED BY <1>2, <3>1 DEF Listed
  <2> QED BY <2>1, <2>2
<1>4. \A k \in 1..(l + 1) : v[k] = Gap \/ (0 <= v[k] /\ v[k] <= n)
  <2> TAKE k \in 1..(l + 1)
  <2>1. CASE k = 1
    BY <1>2, <2>1
  <2>2. CASE k # 1
    <3>1. k \in 2..(l + 1)
      BY <2>2
    <3>2. CASE v[k] = n
      BY <3>2
    <3>3. CASE \E i \in 1..m : v[k] = R[i]
      <4>1. PICK i \in 1..m : v[k] = R[i]
        BY <3>3
      <4>2. R[i] = Gap \/ (0 <= R[i] /\ R[i] <= n)
        BY DEF Growing
      <4> QED BY <4>1, <4>2
    <3> QED BY <1>3, <3>1, <3>2, <3>3
  <2> QED BY <2>1, <2>2
<1>5. ASSUME NEW j \in 1..(l + 1), NEW k \in 1..(l + 1), j < k, v[k] # Gap, v[k] < n
      PROVE  v[j] # Gap /\ v[j] < v[k]
  <2>1. k # l + 1
    BY <1>2, <1>5
  <2>2. j \in 1..l /\ k \in 1..l
    BY <1>5, <2>1
  <2> QED BY <1>1, <1>2, <1>5, <2>2 DEF Listed
<1>6. ASSUME NEW i \in 1..m, R[i] # 0
      PROVE  \E k \in 2..(l + 1) : v[k] = R[i]
  <2>1. PICK k \in 2..Len(u) : u[k] = R[i]
    BY <1>6 DEF Listed
  <2>2. k \in 1..l /\ k \in 2..(l + 1)
    BY <1>1
  <2> QED BY <1>2, <2>1, <2>2
<1>7. Len(v) >= 2 /\ v[Len(v)] = n
  BY <1>2
<1> QED BY <1>2, <1>3, <1>4, <1>5, <1>6, <1>7 DEF Places

(* The loop of nonEmptyList gives such a list. *)
LEMMA ListIs ==
  ASSUME NEW src, LaidOut(src), NEW res, LaidOut(res)
  PROVE  Places(nonEmptyList(src, res), BlockRows(src, res), Len(res.blocks), linesCount(src))
<1>1. PICK m \in Nat : m = Len(res.blocks)
  BY LaidOutIs
<1>2. PICK n \in Nat : n = linesCount(src)
  BY RowsGrow
<1>3. PICK R : R = BlockRows(src, res)
  OBVIOUS
<1>4. Growing(R, m, n) /\ \A k \in 1..m : R[k] = blockRow(src, res, k)
  BY <1>1, <1>2, <1>3, BlocksGrow
<1> DEFINE S == Seq(Int)
           turn(k, h) == IF blockRow(src, res, k) = 0 THEN h ELSE Append(h, blockRow(src, res, k))
           upTo == CHOOSE f : f = [k \in 0..Len(res.blocks) |->
                     IF k = 0 THEN <<0>>
                     ELSE IF blockRow(src, res, k) = 0 THEN f[k - 1]
                     ELSE Append(f[k - 1], blockRow(src, res, k))]
<1>5. nonEmptyList(src, res) = Append(upTo[m], n)
  BY <1>1, <1>2, Zenon DEF nonEmptyList
<1>6. upTo = CHOOSE f : f = [k \in 0..m |-> IF k = 0 THEN <<0>> ELSE turn(k, f[k - 1])]
  BY <1>1, Zenon
<1> HIDE DEF upTo
<1>7. <<0>> \in S
  OBVIOUS
<1>8. ASSUME NEW k \in 1..m, NEW h \in S
      PROVE  turn(k, h) \in S
  <2>1. R[k] \in Int /\ R[k] = blockRow(src, res, k)
    BY <1>4 DEF Growing
  <2> QED BY <2>1
<1>9. ASSUME NEW k \in 1..m, NEW h
      PROVE  turn(k, h) = IF R[k] = 0 THEN h ELSE Append(h, R[k])
  BY <1>4
<1> HIDE DEF S, turn
<1> DEFINE g == [k \in 1..m |-> [h \in S |-> turn(k, h)]]
<1>10. IsLoop(m, S, g) /\ \A k \in 1..m, h \in S : g[k][h] = turn(k, h)
  BY <1>8 DEF IsLoop
<1> HIDE DEF g
<1>11. PICK h : IsRun(m, S, <<0>>, g, h)
  <2>1. PICK Q, e, loop : Q = S /\ e = <<0>> /\ loop = g
    OBVIOUS
  <2>2. m \in Nat /\ e \in Q /\ IsLoop(m, Q, loop)
    BY <1>7, <1>10, <2>1
  <2>3. \E h : IsRun(m, Q, e, loop, h)
    BY ONLY <2>2, Iterated
  <2> QED BY <2>1, <2>3
<1>12. h \in [0..m -> S] /\ h[0] = <<0>> /\ \A k \in 1..m : h[k] = turn(k, h[k - 1])
  <2>1. h \in [0..m -> S] /\ h[0] = <<0>> /\ \A k \in 1..m : h[k] = g[k][h[k - 1]]
    BY <1>11 DEF IsRun
  <2>2. ASSUME NEW k \in 1..m PROVE h[k] = turn(k, h[k - 1])
    <3>1. k - 1 \in 0..m
      OBVIOUS
    <3>2. h[k - 1] \in S
      BY <2>1, <3>1
    <3> QED BY <1>10, <2>1, <3>2
  <2> QED BY <2>1, <2>2
<1>13. h = [k \in 0..m |-> IF k = 0 THEN <<0>> ELSE turn(k, h[k - 1])]
  <2>1. h = [k \in 0..m |-> h[k]]
    BY <1>12
  <2>2. \A k \in 0..m : h[k] = IF k = 0 THEN <<0>> ELSE turn(k, h[k - 1])
    <3>1. \A k \in 0..m : k # 0 => k \in 1..m
      OBVIOUS
    <3> QED BY <1>12, <3>1
  <2> QED BY ONLY <2>1, <2>2
<1>14. upTo = [k \in 0..m |-> IF k = 0 THEN <<0>> ELSE turn(k, upTo[k - 1])]
  BY <1>6, <1>13, Zenon
<1>15. upTo[0] = <<0>> /\ \A k \in 1..m : upTo[k] = turn(k, upTo[k - 1])
  <2>1. \A k \in 0..m : upTo[k] = IF k = 0 THEN <<0>> ELSE turn(k, upTo[k - 1])
    BY <1>14, Zenon
  <2>2. 0 \in 0..m /\ \A k \in 1..m : k \in 0..m /\ k # 0
    OBVIOUS
  <2> QED BY ONLY <2>1, <2>2
<1>16. \A k \in 0..m : Listed(upTo[k], k, R, n)
  <2> DEFINE T == {k \in 0..m : Listed(upTo[k], k, R, n)}
  <2>1. 0 \in T
    <3>1. PICK u : u = <<0>>
      OBVIOUS
    <3>2. u \in Seq(Int) /\ Len(u) = 1 /\ u[1] = 0
      BY <3>1
    <3>3. Listed(u, 0, R, n)
      BY ONLY <3>2 DEF Listed
    <3> QED BY <1>15, <3>1, <3>3
  <2>2. ASSUME NEW k \in 0..(m - 1), k \in T PROVE k + 1 \in T
    <3>1. k + 1 \in 1..m /\ (k + 1) - 1 = k /\ k + 1 \in 0..m
      OBVIOUS
    <3>2. PICK u : u = upTo[k]
      OBVIOUS
    <3>3. Listed(u, k, R, n)
      BY <2>2, <3>2
    <3>4. upTo[k + 1] = IF R[k + 1] = 0 THEN u ELSE Append(u, R[k + 1])
      BY <1>9, <1>15, <3>1, <3>2
    <3>5. Listed(IF R[k + 1] = 0 THEN u ELSE Append(u, R[k + 1]), k + 1, R, n)
      BY <1>4, <3>3, ListedNext
    <3>6. Listed(upTo[k + 1], k + 1, R, n)
      BY ONLY <3>4, <3>5
    <3> QED BY <3>1, <3>6
  <2> HIDE DEF T
  <2>3. 0 \in Int /\ m \in Int /\ 0 <= m
    OBVIOUS
  <2>4. \A k \in 0..m : k \in T
    BY ONLY <2>1, <2>2, <2>3, IntervalInduction
  <2> QED BY <2>4 DEF T
<1>17. PICK u : u = upTo[m]
  OBVIOUS
<1>18. Listed(u, m, R, n)
  BY <1>16, <1>17
<1>19. Places(Append(u, n), R, m, n)
  BY <1>4, <1>18, ListedLast
<1> QED BY ONLY <1>1, <1>2, <1>3, <1>5, <1>17, <1>19

(* What is known of a row: the place of the block there, if there is one.              *)
LEMMA KnownIs ==
  ASSUME NEW src, LaidOut(src), NEW res, LaidOut(res), NEW m, m = Len(res.blocks),
         NEW n, n = linesCount(src), NEW R, R = BlockRows(src, res)
  PROVE  /\ known(src, res, n) = res.height
         /\ \A k \in 1..m : R[k] # Gap /\ R[k] < n => known(src, res, R[k]) = res.blocks[k].top
         /\ (\A k \in 1..m : R[k] # 0) => known(src, res, 0) = 0
         /\ \A i \in 1..(n - 1) : (\A k \in 1..m : R[k] # i) => known(src, res, i) = -1
<1>1. m \in Nat /\ DOMAIN res.blocks = 1..m /\ n \in Nat \ {0}
  BY LaidOutIs, RowsGrow
<1>2. Growing(R, m, n) /\ \A k \in 1..m : R[k] = blockRow(src, res, k)
  BY BlocksGrow
<1>3. \A i : blocksAt(src, res, i) = {k \in 1..m : R[k] = i}
  BY <1>1, <1>2 DEF blocksAt
<1>4. known(src, res, n) = res.height
  BY DEF known
<1>5. ASSUME NEW k \in 1..m, R[k] # Gap, R[k] < n
      PROVE  known(src, res, R[k]) = res.blocks[k].top
  <2>1. PICK i \in Int : i = R[k]
    BY <1>2 DEF Growing
  <2>2. PICK B : B = blocksAt(src, res, i)
    OBVIOUS
  <2>3. k \in B /\ \A j \in B : j \in 1..m /\ R[j] = i
    BY <1>3, <2>1, <2>2
  <2>4. ASSUME NEW j \in B PROVE j = k
    <3>1. j \in 1..m /\ R[j] = i
      BY <2>3
    <3>2. ~ (j < k)
      BY <1>2, <1>5, <2>1, <3>1 DEF Growing
    <3>3. ~ (k < j)
      BY <1>2, <1>5, <2>1, <3>1 DEF Growing
    <3> QED BY <3>1, <3>2, <3>3
  <2>5. (CHOOSE x \in B : TRUE) = k
    BY <2>3, <2>4, Zenon
  <2>6. i # n /\ B # {}
    BY <1>1, <1>5, <2>1, <2>3
  <2>7. known(src, res, i) = res.blocks[CHOOSE x \in blocksAt(src, res, i) : TRUE].top
    BY <2>2, <2>6 DEF known
  <2> QED BY ONLY <2>1, <2>2, <2>5, <2>7
<1>6. ASSUME \A k \in 1..m : R[k] # 0 PROVE known(src, res, 0) = 0
  <2>1. blocksAt(src, res, 0) = {}
    BY <1>3, <1>6
  <2> QED BY <1>1, <2>1 DEF known
<1>7. ASSUME NEW i \in 1..(n - 1), \A k \in 1..m : R[k] # i PROVE known(src, res, i) = -1
  <2>1. blocksAt(src, res, i) = {}
    BY <1>3, <1>7
  <2>2. i # n /\ i # 0
    BY <1>1
  <2> QED BY <2>1, <2>2 DEF known
<1> QED BY ONLY <1>4, <1>5, <1>6, <1>7

(* The places that are known lie in order.                                        *)
KnownOf(src, res) == [i \in 0..linesCount(src) |-> known(src, res, i)]
(* Places that are known: at both ends, and none above one of a row before. *)
Sorted(K, n) ==
  /\ K \in [0..n -> Int]
  /\ K[0] # -1 /\ K[n] # -1
  /\ \A i \in 0..n : K[i] # -1 => 0 <= K[i]
  /\ \A i, j \in 0..n : i < j /\ K[i] # -1 /\ K[j] # -1 => K[i] <= K[j]

(* What buildScrollMap knows lies in order, at the rows of the blocks. *)
LEMMA KnownSorted ==
  ASSUME NEW src, LaidOut(src), NEW res, LaidOut(res), NEW m, m = Len(res.blocks),
         NEW n, n = linesCount(src), NEW R, R = BlockRows(src, res),
         NEW K, K = KnownOf(src, res)
  PROVE  /\ Sorted(K, n)
         /\ \A i \in 1..(n - 1) : K[i] # -1 <=> \E k \in 1..m : R[k] = i
         /\ \A k \in 1..m : R[k] # Gap /\ R[k] < n => K[R[k]] = res.blocks[k].top
<1>1. m \in Nat /\ n \in Nat \ {0} /\ Growing(R, m, n)
  BY LaidOutIs, RowsGrow, BlocksGrow
<1>2. PICK h \in Nat : h = res.height
  BY LaidOutIs
<1>3. PICK T : T = [k \in 1..m |-> res.blocks[k].top]
  OBVIOUS
<1>4. /\ \A k \in 1..m : T[k] = res.blocks[k].top /\ T[k] \in Nat /\ T[k] <= h
      /\ \A i, k \in 1..m : i < k => T[i] <= T[k]
  BY <1>2, <1>3, LaidOutIs
<1>5. \A i \in 0..n : K[i] = known(src, res, i)
  BY DEF KnownOf
<1>6. K = [i \in 0..n |-> K[i]]
  BY DEF KnownOf
<1>7. /\ K[n] = h
      /\ \A k \in 1..m : R[k] # Gap /\ R[k] < n => R[k] \in 0..(n - 1) /\ K[R[k]] = T[k]
      /\ (\A k \in 1..m : R[k] # 0) => K[0] = 0
      /\ \A i \in 1..(n - 1) : (\A k \in 1..m : R[k] # i) => K[i] = -1
  <2>1. \A k \in 1..m : R[k] # Gap /\ R[k] < n => R[k] \in 0..(n - 1) /\ R[k] \in 0..n
    BY <1>1 DEF Growing
  <2>2. n \in 0..n /\ 0 \in 0..n /\ \A i \in 1..(n - 1) : i \in 0..n
    BY <1>1
  <2> QED BY <1>2, <1>4, <1>5, <2>1, <2>2, KnownIs
<1>8. ASSUME NEW i \in 0..n
      PROVE  \/ i = n
             \/ i = 0 /\ K[i] = 0 /\ \A k \in 1..m : R[k] # 0
             \/ \E k \in 1..m : R[k] = i /\ R[k] # Gap /\ R[k] < n /\ K[i] = T[k]
             \/ i \in 1..(n - 1) /\ K[i] = -1 /\ \A k \in 1..m : R[k] # i
  <2>1. CASE i = n
    BY <2>1
  <2>2. CASE i # n /\ \E k \in 1..m : R[k] = i
    <3>1. PICK k \in 1..m : R[k] = i
      BY <2>2
    <3>2. R[k] # Gap /\ R[k] < n
      BY <1>1, <2>2, <3>1 DEF Gap
    <3> QED BY <1>7, <3>1, <3>2
  <2>3. CASE i # n /\ ~ \E k \in 1..m : R[k] = i
    <3>1. CASE i = 0
      BY <1>7, <2>3, <3>1
    <3>2. CASE i # 0
      <4>1. i \in 1..(n - 1)
        BY <1>1, <2>3, <3>2
      <4> QED BY <1>7, <2>3, <4>1
    <3> QED BY <3>1, <3>2
  <2> QED BY <2>1, <2>2, <2>3
<1>9. \A i \in 0..n : K[i] \in Int /\ (K[i] # -1 => 0 <= K[i])
  <2> TAKE i \in 0..n
  <2>1. CASE i = n
    BY <1>7, <2>1
  <2>2. CASE \E k \in 1..m : K[i] = T[k]
    BY <1>4, <2>2
  <2>3. CASE K[i] \in {0, -1}
    BY <2>3
  <2> QED BY <1>8, <2>1, <2>2, <2>3
<1>10. ASSUME NEW i \in 0..n, NEW j \in 0..n, i < j, K[i] # -1, K[j] # -1
       PROVE  K[i] <= K[j]
  <2>1. 0 <= K[j] /\ K[i] \in Int /\ K[j] \in Int /\ i # n /\ j # 0
    BY <1>1, <1>9, <1>10
  <2>2. CASE K[i] = 0
    BY <2>1, <2>2
  <2>3. CASE \E k \in 1..m : R[k] = i /\ R[k] # Gap /\ R[k] < n /\ K[i] = T[k]
    <3>1. PICK k \in 1..m : R[k] = i /\ R[k] # Gap /\ R[k] < n /\ K[i] = T[k]
      BY <2>3
    <3>2. CASE j = n
      BY <1>4, <1>7, <3>1, <3>2
    <3>3. CASE \E l \in 1..m : R[l] = j /\ R[l] # Gap /\ R[l] < n /\ K[j] = T[l]
      <4>1. PICK l \in 1..m : R[l] = j /\ R[l] # Gap /\ R[l] < n /\ K[j] = T[l]
        BY <3>3
      <4>2. ~ (l < k)
        BY <1>1, <1>10, <3>1, <4>1 DEF Growing
      <4>3. l # k
        BY <1>10, <3>1, <4>1
      <4>4. k < l
        BY <4>2, <4>3
      <4> QED BY <1>4, <3>1, <4>1, <4>4
    <3> QED BY <1>8, <1>10, <2>1, <3>2, <3>3
  <2> QED BY <1>8, <1>10, <2>1, <2>2, <2>3
<1>11. ASSUME NEW i \in 1..(n - 1)
       PROVE  K[i] # -1 <=> \E k \in 1..m : R[k] = i
  <2>1. i \in 0..n /\ i # n /\ i # 0
    BY <1>1
  <2>2. CASE \E k \in 1..m : R[k] = i /\ K[i] = T[k]
    BY <1>4, <2>2
  <2>3. CASE K[i] = -1 /\ \A k \in 1..m : R[k] # i
    BY <2>3
  <2> QED BY <1>8, <2>1, <2>2, <2>3
<1>12. K[0] # -1 /\ K[n] # -1
  <2>1. 0 \in 0..n /\ 0 # n
    BY <1>1
  <2>2. CASE \E k \in 1..m : K[0] = T[k]
    BY <1>4, <1>7, <2>2
  <2>3. CASE K[0] = 0
    BY <1>7, <2>3
  <2> QED BY <1>8, <2>1, <2>2, <2>3
<1>13. K \in [0..n -> Int]
  BY <1>6, <1>9
<1> QED BY <1>4, <1>7, <1>9, <1>10, <1>11, <1>12, <1>13 DEF Sorted

(* The p-th and the next of the listed places lie about row i, the nearest known.       *)
About(i, p, L, K, n) ==
  /\ p \in Nat /\ p + 2 <= Len(L)
  /\ L[p + 1] # Gap /\ 0 <= L[p + 1] /\ L[p + 1] < i /\ K[L[p + 1]] # -1
  /\ \A j \in 0..(i - 1) : K[j] # -1 => j <= L[p + 1]
  /\ L[p + 2] # Gap => /\ i <= L[p + 2] /\ L[p + 2] <= n /\ K[L[p + 2]] # -1
                       /\ \A j \in i..n : K[j] # -1 => L[p + 2] <= j

(* The list and what is known fit together. *)
Rests(L, R, m, K, n) ==
  /\ Places(L, R, m, n) /\ Sorted(K, n) /\ n \in Nat \ {0}
  /\ \A i \in 1..(n - 1) : K[i] # -1 <=> \E k \in 1..m : R[k] = i

(* What is listed is known. *)
LEMMA ListItem ==
  ASSUME NEW L, NEW R, NEW m, NEW K, NEW n, Rests(L, R, m, K, n), NEW k \in 1..Len(L)
  PROVE  /\ L[k] \in Int
         /\ L[k] # Gap => 0 <= L[k] /\ L[k] <= n /\ K[L[k]] # -1
         /\ k >= 2 /\ L[k] # Gap => 1 <= L[k]
<1>1. L \in Seq(Int) /\ L[1] = 0 /\ n \in Nat \ {0}
  BY DEF Rests, Places
<1>2. PICK x \in Int : x = L[k]
  BY <1>1
<1>3. x = Gap \/ (0 <= x /\ x <= n)
  BY <1>2 DEF Rests, Places
<1>4. K[0] # -1 /\ K[n] # -1
  BY DEF Rests, Sorted
<1>5. CASE k = 1
  BY <1>1, <1>2, <1>3, <1>4, <1>5
<1>6. CASE k # 1
  <2>1. k \in 2..Len(L)
    BY <1>1, <1>6
  <2>2. x = n \/ \E i \in 1..m : x = R[i] /\ R[i] # 0
    BY <1>2, <2>1 DEF Rests, Places
  <2>3. CASE x = n
    BY <1>1, <1>2, <1>4, <2>3
  <2>4. CASE x # n /\ \E i \in 1..m : x = R[i] /\ R[i] # 0
    <3>1. x # Gap => x \in 1..(n - 1)
      BY <1>1, <1>3, <2>4
    <3>2. x # Gap => K[x] # -1
      BY <2>4, <3>1 DEF Rests
    <3> QED BY <1>2, <1>3, <3>1, <3>2
  <2> QED BY <2>2, <2>3, <2>4
<1> QED BY <1>5, <1>6

(* What is known is listed. *)
LEMMA KnownListed ==
  ASSUME NEW L, NEW R, NEW m, NEW K, NEW n, Rests(L, R, m, K, n), NEW j \in 1..n, K[j] # -1
  PROVE  \E k \in 2..Len(L) : L[k] = j
<1>1. L \in Seq(Int) /\ Len(L) >= 2 /\ L[Len(L)] = n /\ n \in Nat \ {0}
  BY DEF Rests, Places
<1>2. CASE j = n
  <2>1. Len(L) \in 2..Len(L)
    BY <1>1
  <2> QED BY <1>1, <1>2, <2>1
<1>3. CASE j # n
  <2>1. j \in 1..(n - 1)
    BY <1>1, <1>3
  <2>2. PICK i \in 1..m : R[i] = j
    BY <2>1 DEF Rests
  <2>3. R[i] # 0
    BY <2>1, <2>2
  <2> QED BY <2>2, <2>3 DEF Rests, Places
<1> QED BY <1>2, <1>3

(* The list grows. *)
LEMMA ListOrder ==
  ASSUME NEW L, NEW R, NEW m, NEW K, NEW n, Rests(L, R, m, K, n),
         NEW j \in 1..Len(L), NEW k \in 1..Len(L), j < k, L[k] # Gap, L[k] < n
  PROVE  L[j] # Gap /\ L[j] < L[k]
BY DEF Rests, Places

(* At row 1 the first two of the list are about it. *)
LEMMA AboutFirst ==
  ASSUME NEW L, NEW R, NEW m, NEW K, NEW n, Rests(L, R, m, K, n)
  PROVE  About(1, 0, L, K, n)
<1>1. L \in Seq(Int) /\ Len(L) >= 2 /\ L[1] = 0 /\ n \in Nat \ {0}
  BY DEF Rests, Places
<1>2. 1 \in 1..Len(L) /\ 2 \in 1..Len(L) /\ Len(L) \in Nat
  BY <1>1
<1>3. L[1] # Gap /\ K[L[1]] # -1
  BY <1>1, <1>2, ListItem DEF Gap
<1>4. /\ L[2] \in Int
      /\ L[2] # Gap => 1 <= L[2] /\ L[2] <= n /\ K[L[2]] # -1
  BY <1>2, ListItem
<1>5. ASSUME L[2] # Gap, NEW j \in 1..n, K[j] # -1
      PROVE  L[2] <= j
  <2>1. PICK k \in 2..Len(L) : L[k] = j
    BY <1>5, KnownListed
  <2>2. CASE k = 2
    BY <1>4, <2>1, <2>2
  <2>3. CASE j = n
    BY <1>4, <1>5, <2>3
  <2>4. CASE k # 2 /\ j # n
    <3>1. 2 < k /\ k \in 1..Len(L) /\ L[k] # Gap /\ L[k] < n
      BY <1>1, <2>1, <2>4 DEF Gap
    <3>2. L[2] < L[k]
      BY <1>2, <3>1, ListOrder
    <3> QED BY <1>4, <2>1, <3>2
  <2> QED BY <2>2, <2>3, <2>4
<1>6. \A j \in 0..(1 - 1) : j <= L[1]
  BY <1>1
<1> QED BY <1>1, <1>2, <1>3, <1>4, <1>5, <1>6 DEF About

(* From a row to the next: the counter goes on if the row was known. *)
LEMMA AboutNext ==
  ASSUME NEW L, NEW R, NEW m, NEW K, NEW n, Rests(L, R, m, K, n),
         NEW i \in 1..(n - 1), NEW p, About(i, p, L, K, n)
  PROVE  About(i + 1, IF K[i] # -1 THEN p + 1 ELSE p, L, K, n)
<1>1. L \in Seq(Int) /\ L[Len(L)] = n /\ n \in Nat \ {0}
  BY DEF Rests, Places
<1>2. PICK l \in Nat : l = Len(L)
  BY <1>1
<1>3. p \in Nat /\ p + 2 <= l /\ p + 1 \in 1..l /\ p + 2 \in 1..l
  BY <1>2 DEF About
<1>4. PICK x \in Int, y \in Int : x = L[p + 1] /\ y = L[p + 2]
  BY <1>1, <1>2, <1>3
<1>5. /\ x # Gap /\ 0 <= x /\ x < i /\ K[x] # -1
      /\ \A j \in 0..(i - 1) : K[j] # -1 => j <= x
      /\ y # Gap => i <= y /\ y <= n /\ K[y] # -1 /\ \A j \in i..n : K[j] # -1 => y <= j
  BY <1>4 DEF About
<1>6. CASE K[i] # -1
  <2>1. PICK k \in 2..l : L[k] = i
    <3>1. i \in 1..n
      BY <1>1
    <3> QED BY <1>2, <1>6, <3>1, KnownListed
  <2>2. L[k] # Gap /\ L[k] < n /\ k \in 1..l
    BY <1>1, <2>1 DEF Gap
  <2>3. ~ (k < p + 1)
    <3>1. ASSUME k < p + 1 PROVE FALSE
      <4>1. x < n
        BY <1>1, <1>5
      <4>2. L[k] < L[p + 1]
        BY <1>2, <1>3, <1>4, <1>5, <2>2, <3>1, <4>1, ListOrder
      <4> QED BY <1>4, <1>5, <2>1, <4>2
    <3> QED BY <3>1
  <2>4. k # p + 1
    BY <1>4, <1>5, <2>1
  <2>5. ~ (p + 2 < k)
    <3>1. ASSUME p + 2 < k PROVE FALSE
      <4>1. y # Gap /\ y < i
        BY <1>2, <1>3, <1>4, <2>1, <2>2, <3>1, ListOrder
      <4> QED BY <1>5, <4>1
    <3> QED BY <3>1
  <2>6. k = p + 2
    BY <1>3, <2>3, <2>4, <2>5
  <2>7. k # l
    BY <1>1, <1>2, <2>1
  <2>8. p + 3 \in 1..l /\ (p + 1) + 1 = k /\ (p + 1) + 2 = p + 3 /\ p + 3 \in 2..l /\ k < p + 3
    BY <1>3, <2>6, <2>7
  <2>9. PICK z \in Int : z = L[p + 3]
    BY <1>1, <1>2, <2>8
  <2>10. z # Gap => i < z /\ z <= n /\ K[z] # -1
    <3>1. z # Gap => 0 <= z /\ z <= n /\ K[z] # -1
      BY <1>2, <2>8, <2>9, ListItem
    <3>2. CASE z # Gap /\ z < n
      <4>1. L[k] < L[p + 3]
        BY <1>2, <2>2, <2>8, <2>9, <3>2, ListOrder
      <4> QED BY <2>1, <2>9, <3>1, <4>1
    <3> QED BY <1>1, <3>1, <3>2
  <2>11. ASSUME z # Gap, NEW j \in (i + 1)..n, K[j] # -1
         PROVE  z <= j
    <3>1. j \in 1..n
      BY <1>1
    <3>2. PICK q \in 2..l : L[q] = j
      BY <1>2, <2>11, <3>1, KnownListed
    <3>3. CASE j = n
      BY <2>10, <2>11, <3>3
    <3>4. CASE j # n
      <4>1. L[q] # Gap /\ L[q] < n /\ q \in 1..l
        BY <1>1, <3>1, <3>2, <3>4 DEF Gap
      <4>2. ~ (q < k)
        <5>1. ASSUME q < k PROVE FALSE
          <6>1. L[q] < L[k]
            BY <1>2, <2>2, <4>1, <5>1, ListOrder
          <6> QED BY <2>1, <2>11, <3>2, <6>1
        <5> QED BY <5>1
      <4>3. q # k
        BY <2>1, <3>2
      <4>4. CASE q = p + 3
        BY <2>9, <3>2, <4>4
      <4>5. CASE q # p + 3
        <5>1. p + 3 < q
          BY <2>6, <4>2, <4>3, <4>5, <1>3
        <5>2. L[p + 3] < L[q]
          BY <1>2, <2>8, <4>1, <5>1, ListOrder
        <5> QED BY <2>9, <3>2, <5>2
      <4> QED BY <4>4, <4>5
    <3> QED BY <3>3, <3>4
  <2>12. \A j \in 0..((i + 1) - 1) : j <= i
    OBVIOUS
  <2>13. /\ p + 1 \in Nat /\ (p + 1) + 2 <= Len(L) /\ L[(p + 1) + 1] = i /\ L[(p + 1) + 2] = z
         /\ i # Gap /\ 0 <= i /\ i < i + 1
    BY <1>2, <1>3, <2>1, <2>8, <2>9 DEF Gap
  <2>14. z # Gap => i + 1 <= z
    BY <2>10
  <2>15. About(i + 1, p + 1, L, K, n)
    BY <1>6, <2>10, <2>11, <2>12, <2>13, <2>14 DEF About
  <2> QED BY <1>6, <2>15
<1>7. CASE K[i] = -1
  <2>1. y # Gap => i + 1 <= y
    <3>1. y # Gap => y # i
      BY <1>5, <1>7
    <3> QED BY <1>5, <3>1
  <2>2. \A j \in 0..((i + 1) - 1) : K[j] # -1 => j <= x
    <3> TAKE j \in 0..((i + 1) - 1)
    <3>1. j = i \/ j \in 0..(i - 1)
      OBVIOUS
    <3> QED BY <1>5, <1>7, <3>1
  <2>3. y # Gap => \A j \in (i + 1)..n : K[j] # -1 => y <= j
    <3>1. \A j \in (i + 1)..n : j \in i..n
      OBVIOUS
    <3> QED BY <1>5, <3>1
  <2>4. x < i + 1
    BY <1>5
  <2>5. About(i + 1, p, L, K, n)
    BY <1>2, <1>3, <1>4, <1>5, <2>1, <2>2, <2>3, <2>4 DEF About
  <2> QED BY <1>7, <2>5
<1> QED BY <1>6, <1>7

(* The rows before row i of which something is known, but for the first. *)
KnownBefore(K, i) == {j \in 1..(i - 1) : K[j] # -1}

(* So the loop's counter is at the right place in every row. *)
LEMMA PosIs ==
  ASSUME NEW L, NEW R, NEW m, NEW K, NEW n, Rests(L, R, m, K, n)
  PROVE  \A i \in 1..n : About(i, Cardinality(KnownBefore(K, i)), L, K, n)
<1>1. n \in Nat \ {0}
  BY DEF Rests
<1> DEFINE T == {i \in 1..n : About(i, Cardinality(KnownBefore(K, i)), L, K, n)}
<1>2. 1 \in T
  <2>1. KnownBefore(K, 1) = {}
    BY DEF KnownBefore
  <2>2. Cardinality(KnownBefore(K, 1)) = 0
    BY <2>1, FS_EmptySet
  <2> QED BY <1>1, <2>2, AboutFirst
<1>3. ASSUME NEW i \in 1..(n - 1), i \in T PROVE i + 1 \in T
  <2>1. PICK B : B = KnownBefore(K, i)
    OBVIOUS
  <2>2. PICK p : p = Cardinality(B)
    OBVIOUS
  <2>3. About(i, p, L, K, n)
    BY <1>3, <2>1, <2>2
  <2>4. IsFiniteSet(B)
    <3>1. B \subseteq 1..(i - 1)
      BY <2>1 DEF KnownBefore
    <3>2. IsFiniteSet(1..(i - 1))
      BY FS_Interval
    <3> QED BY <3>1, <3>2, FS_Subset
  <2>5. KnownBefore(K, i + 1) = IF K[i] # -1 THEN B \cup {i} ELSE B
    <3>1. \A j : j \in 1..((i + 1) - 1) <=> j \in 1..(i - 1) \/ j = i
      OBVIOUS
    <3> QED BY <2>1, <3>1 DEF KnownBefore
  <2>6. i \notin B
    <3>1. i \notin 1..(i - 1)
      OBVIOUS
    <3> QED BY <2>1, <3>1 DEF KnownBefore
  <2>7. Cardinality(KnownBefore(K, i + 1)) = IF K[i] # -1 THEN p + 1 ELSE p
    <3>1. CASE K[i] # -1
      <4>1. Cardinality(B \cup {i}) = p + 1
        BY <2>2, <2>4, <2>6, FS_AddElement
      <4> QED BY <2>5, <3>1, <4>1
    <3>2. CASE K[i] = -1
      BY <2>2, <2>5, <3>2
    <3> QED BY <3>1, <3>2
  <2>8. About(i + 1, IF K[i] # -1 THEN p + 1 ELSE p, L, K, n)
    BY <2>3, AboutNext
  <2>9. i + 1 \in 1..n
    BY <1>1
  <2> QED BY <2>7, <2>8, <2>9
<1> HIDE DEF T
<1>4. 1 \in Int /\ n \in Int /\ 1 <= n
  BY <1>1
<1>5. \A i \in 1..n : i \in T
  BY ONLY <1>2, <1>3, <1>4, IntervalInduction
<1> QED BY <1>5 DEF T

(* Whole quotients. *)
LEMMA DivIs ==
  ASSUME NEW x \in Int, NEW y \in Nat \ {0}
  PROVE  x \div y \in Int /\ y * (x \div y) <= x /\ x < y * (x \div y) + y
<1>1. x = y * (x \div y) + (x % y) /\ x % y \in 0..(y - 1) /\ x \div y \in Int
  OBVIOUS
<1>2. PICK q \in Int, p \in Int : q = x \div y /\ p = y * (x \div y)
  BY <1>1
<1> QED BY <1>1, <1>2

(* A factor that grows by one or more. *)
LEMMA TimesGrows ==
  ASSUME NEW y \in Nat \ {0}, NEW p \in Int, NEW q \in Int, p + 1 <= q
  PROVE  y * p + y <= y * q
<1>1. PICK d \in Nat : q = p + 1 + d
  <2>1. q - p - 1 \in Nat /\ q = p + 1 + (q - p - 1)
    OBVIOUS
  <2> QED BY <2>1
<1>2. y * q = y * p + y + y * d
  BY <1>1
<1>3. y * d \in Nat /\ y * p \in Int
  BY <1>1
<1> QED BY <1>2, <1>3

(* A quotient grows with what is divided. *)
LEMMA DivGrows ==
  ASSUME NEW x \in Int, NEW z \in Int, x <= z, NEW y \in Nat \ {0}
  PROVE  x \div y <= z \div y
<1>1. PICK p \in Int, q \in Int : p = x \div y /\ q = z \div y
  BY DivIs
<1>2. y * p <= x /\ x < y * p + y /\ y * q <= z /\ z < y * q + y /\ y * p \in Int /\ y * q \in Int
  BY <1>1, DivIs
<1>3. ASSUME q < p PROVE FALSE
  <2>1. y * q + y <= y * p
    BY <1>3, TimesGrows
  <2> QED BY <1>2, <2>1
<1> QED BY <1>1, <1>3

(* So does a rounded one. *)
LEMMA RoundGrows ==
  ASSUME NEW x \in Int, NEW z \in Int, x <= z, NEW y \in Nat \ {0}
  PROVE  round(x, y) \in Int /\ round(x, y) <= round(z, y)
<1>1. PICK u \in Int, v \in Int, w \in Nat \ {0} : u = 2 * x + y /\ v = 2 * z + y /\ w = 2 * y
  OBVIOUS
<1>2. u <= v
  BY <1>1
<1>3. u \div w \in Int /\ u \div w <= v \div w
  BY <1>2, DivIs, DivGrows
<1> QED BY <1>1, <1>3 DEF round

(* A whole one is rounded to itself. *)
LEMMA RoundExact ==
  ASSUME NEW a \in Int, NEW y \in Nat \ {0}, NEW x \in Int, x = a * y
  PROVE  round(x, y) = a
<1>1. PICK w \in Nat \ {0}, u \in Int : w = 2 * y /\ u = 2 * x + y
  OBVIOUS
<1>2. PICK q \in Int : q = u \div w
  BY DivIs
<1>3. w * q <= u /\ u < w * q + w /\ w * q \in Int
  BY <1>2, DivIs
<1>4. w * a = 2 * x /\ w * a \in Int
  BY <1>1
<1>5. w * a <= u /\ u < w * a + w
  BY <1>1, <1>4
<1>6. ~ (q < a)
  <2>1. ASSUME q < a PROVE FALSE
    <3>1. w * q + w <= w * a
      BY <2>1, TimesGrows
    <3> QED BY <1>3, <1>5, <3>1
  <2> QED BY <2>1
<1>7. ~ (a < q)
  <2>1. ASSUME a < q PROVE FALSE
    <3>1. w * a + w <= w * q
      BY <2>1, TimesGrows
    <3> QED BY <1>3, <1>5, <3>1
  <2> QED BY <2>1
<1>8. q = a
  BY <1>6, <1>7
<1> QED BY <1>1, <1>2, <1>8 DEF round

(* A place between two others, as it is found by the rule of three.                  *)
Between(A, B, a, e, i) == round(B * (i - a) + A * (e - i), e - a)

(* Such a place is between the two, and grows with the row. *)
LEMMA RuleOfThree ==
  ASSUME NEW A \in Nat, NEW B \in Nat, A <= B, NEW a \in Int, NEW e \in Int, a < e
  PROVE  /\ \A i \in a..e : /\ Between(A, B, a, e, i) \in Nat
                            /\ A <= Between(A, B, a, e, i) /\ Between(A, B, a, e, i) <= B
         /\ \A i, j \in a..e : i <= j => Between(A, B, a, e, i) <= Between(A, B, a, e, j)
<1> DEFINE x(i) == B * (i - a) + A * (e - i)
<1>1. PICK y \in Nat \ {0} : y = e - a
  OBVIOUS
<1>2. \A i \in Int : x(i) \in Int
  OBVIOUS
<1>3. ASSUME NEW i \in a..e, NEW j \in a..e, i <= j PROVE x(i) <= x(j)
  <2>1. PICK d \in Nat, c \in Nat : d = j - i /\ c = B - A
    <3>1. j - i \in Nat /\ B - A \in Nat
      BY <1>3
    <3> QED BY <3>1
  <2>2. x(j) = x(i) + c * d
    <3>1. j = i + d /\ B = A + c
      BY <2>1
    <3> QED BY <3>1
  <2>3. c * d \in Nat
    BY <2>1
  <2> QED BY <1>2, <2>2, <2>3
<1>4. x(a) = A * y /\ x(e) = B * y
  BY <1>1
<1>5. \A i : Between(A, B, a, e, i) = round(x(i), y)
  BY <1>1 DEF Between
<1>6. a \in a..e /\ e \in a..e /\ \A i \in a..e : i \in Int /\ a <= i /\ i <= e
  OBVIOUS
<1> HIDE DEF x
<1>7. round(x(a), y) = A /\ round(x(e), y) = B
  BY <1>2, <1>4, <1>6, RoundExact
<1>8. ASSUME NEW i \in a..e, NEW j \in a..e, i <= j
      PROVE  round(x(i), y) \in Int /\ round(x(i), y) <= round(x(j), y)
  <2>1. x(i) \in Int /\ x(j) \in Int /\ x(i) <= x(j)
    BY <1>2, <1>3, <1>6, <1>8
  <2> QED BY <2>1, RoundGrows
<1>9. ASSUME NEW i \in a..e
      PROVE  round(x(i), y) \in Nat /\ A <= round(x(i), y) /\ round(x(i), y) <= B
  <2>1. /\ round(x(a), y) <= round(x(i), y) /\ round(x(i), y) <= round(x(e), y)
        /\ round(x(i), y) \in Int
    BY <1>6, <1>8
  <2> QED BY <1>7, <2>1
<1> QED BY <1>5, <1>8, <1>9

(* The nearest known places about a row of which nothing is known.                    *)
Nearest(K, n, a, e, i) ==
  /\ a \in 0..(i - 1) /\ e \in (i + 1)..n /\ K[a] # -1 /\ K[e] # -1
  /\ \A j \in 0..(i - 1) : K[j] # -1 => j <= a
  /\ \A j \in i..n : K[j] # -1 => e <= j

(* Every block has a row, above the last. *)
Gapless(R, m, n) == \A k \in 1..m : R[k] # Gap /\ R[k] < n

(* What the map says of a row: what is known, or else what is between the *)
(* nearest known; unless a block has no row.                              *)
LEMMA MapIs ==
  ASSUME NEW src, LaidOut(src), NEW res, LaidOut(res), NEW m, m = Len(res.blocks),
         NEW n, n = linesCount(src), NEW R, R = BlockRows(src, res),
         NEW K, K = KnownOf(src, res), NEW M, M = buildScrollMap(src, res)
  PROVE  /\ DOMAIN M = 0..n /\ n \in Nat \ {0} /\ Sorted(K, n)
         /\ \A i \in 0..n : K[i] # -1 => M[i] = K[i]
         /\ \A i \in 0..n : K[i] = -1 =>
              \/ M[i] = Gap /\ ~ Gapless(R, m, n)
              \/ \E a, e : Nearest(K, n, a, e, i) /\ M[i] = Between(K[a], K[e], a, e, i)
<1>1. n \in Nat \ {0} /\ m \in Nat
  BY RowsGrow, LaidOutIs
<1>2. PICK L : L = nonEmptyList(src, res)
  OBVIOUS
<1>3. Rests(L, R, m, K, n)
  <2>1. Places(L, R, m, n)
    BY <1>2, ListIs
  <2>2. Sorted(K, n) /\ \A i \in 1..(n - 1) : K[i] # -1 <=> \E k \in 1..m : R[k] = i
    BY KnownSorted
  <2> QED BY <1>1, <2>1, <2>2 DEF Rests
<1>4. \A i \in 0..n : K[i] = known(src, res, i)
  BY DEF KnownOf
<1>5. M = [i \in 0..n |-> IF known(src, res, i) = -1 THEN between(src, res, i) ELSE known(src, res, i)]
  BY DEF buildScrollMap
<1>6. \A i \in 0..n : K[i] # -1 => M[i] = K[i]
  BY <1>4, <1>5
<1>7. ASSUME NEW i \in 0..n, K[i] = -1
      PROVE  \/ M[i] = Gap /\ ~ Gapless(R, m, n)
             \/ \E a, e : Nearest(K, n, a, e, i) /\ M[i] = Between(K[a], K[e], a, e, i)
  <2>1. i \in 1..(n - 1) /\ i \in 1..n
    <3>1. K[0] # -1 /\ K[n] # -1
      BY <1>3 DEF Rests, Sorted
    <3> QED BY <1>1, <1>7, <3>1
  <2>2. PICK p : p = Cardinality(KnownBefore(K, i))
    OBVIOUS
  <2>3. About(i, p, L, K, n)
    BY <1>3, <2>1, <2>2, PosIs
  <2>4. {j \in 1..(i - 1) : known(src, res, j) # -1} = KnownBefore(K, i)
    <3>1. \A j \in 1..(i - 1) : j \in 0..n
      BY <1>1, <2>1
    <3> QED BY <1>4, <3>1 DEF KnownBefore
  <2>5. PICK l \in Nat : l = Len(L)
    BY <1>3 DEF Rests, Places
  <2>6. p + 1 \in 1..l /\ p + 2 \in 1..l /\ L \in Seq(Int) /\ p + 2 \in 2..l
    BY <1>3, <2>3, <2>5 DEF About, Rests, Places
  <2>7. PICK a \in Int, e \in Int : a = L[p + 1] /\ e = L[p + 2]
    BY <2>5, <2>6
  <2>8. M[i] = between(src, res, i)
    BY <1>4, <1>5, <1>7
  <2>9. between(src, res, i) = IF a = Gap \/ e = Gap \/ a = e THEN Gap
                               ELSE round(known(src, res, e) * (i - a) + known(src, res, a) * (e - i), e - a)
    BY <1>2, <2>2, <2>4, <2>7 DEF between
  <2>10. /\ a # Gap /\ 0 <= a /\ a < i /\ K[a] # -1
         /\ \A j \in 0..(i - 1) : K[j] # -1 => j <= a
         /\ e # Gap => i <= e /\ e <= n /\ K[e] # -1 /\ \A j \in i..n : K[j] # -1 => e <= j
    BY <2>3, <2>7 DEF About
  <2>11. CASE e = Gap
    <3>1. e # n
      BY <1>1, <2>11 DEF Gap
    <3>2. PICK k \in 1..m : e = R[k]
      BY <1>3, <2>5, <2>6, <2>7, <3>1 DEF Rests, Places
    <3>3. ~ Gapless(R, m, n)
      BY <2>11, <3>2 DEF Gapless
    <3> QED BY <2>8, <2>9, <2>11, <3>3
  <2>12. CASE e # Gap
    <3>1. e # i
      BY <1>7, <2>10, <2>12
    <3>2. a \in 0..(i - 1) /\ e \in (i + 1)..n /\ a # e /\ a \in 0..n /\ e \in 0..n
      BY <1>1, <2>1, <2>10, <2>12, <3>1
    <3>3. Nearest(K, n, a, e, i)
      BY <2>10, <2>12, <3>2 DEF Nearest
    <3>4. M[i] = Between(K[a], K[e], a, e, i)
      BY <1>4, <2>8, <2>9, <2>10, <2>12, <3>2 DEF Between
    <3> QED BY <3>3, <3>4
  <2> QED BY <2>11, <2>12
<1>8. Sorted(K, n) /\ DOMAIN M = 0..n
  BY <1>3, <1>5 DEF Rests
<1> QED BY <1>1, <1>6, <1>7, <1>8

(* A place between known ones lies between their places.                             *)
LEMMA NearestOrder ==
  ASSUME NEW n \in Nat \ {0}, NEW K, Sorted(K, n), NEW i \in 0..n, NEW a, NEW e, Nearest(K, n, a, e, i)
  PROVE  /\ a \in Int /\ e \in Int /\ a < i /\ i < e /\ i \in a..e
         /\ K[a] \in Nat /\ K[e] \in Nat /\ K[a] <= K[e]
         /\ Between(K[a], K[e], a, e, i) \in Nat
         /\ K[a] <= Between(K[a], K[e], a, e, i) /\ Between(K[a], K[e], a, e, i) <= K[e]
<1>1. a \in 0..n /\ e \in 0..n /\ a < i /\ i < e /\ K[a] # -1 /\ K[e] # -1
  BY DEF Nearest
<1>2. PICK A \in Nat, B \in Nat : A = K[a] /\ B = K[e]
  BY <1>1 DEF Sorted
<1>3. A <= B
  BY <1>1, <1>2 DEF Sorted
<1>4. i \in a..e /\ a \in Int /\ e \in Int /\ a < e
  BY <1>1
<1>5. \A k \in a..e : /\ Between(A, B, a, e, k) \in Nat
                      /\ A <= Between(A, B, a, e, k) /\ Between(A, B, a, e, k) <= B
  BY <1>3, <1>4, RuleOfThree
<1> QED BY <1>1, <1>2, <1>3, <1>4, <1>5

(* A map of any source and any result: places or gaps, for every row. *)
LEMMA MapTyped ==
  ASSUME NEW src, LaidOut(src), NEW res, LaidOut(res), NEW M, M = buildScrollMap(src, res)
  PROVE  /\ M \in [0..linesCount(src) -> Nat \cup {Gap}] /\ linesCount(src) \in Nat
<1>1. PICK m, n, R, K : /\ m = Len(res.blocks) /\ n = linesCount(src) /\ R = BlockRows(src, res)
                        /\ K = KnownOf(src, res)
  OBVIOUS
<1>2. /\ DOMAIN M = 0..n /\ n \in Nat \ {0} /\ Sorted(K, n)
      /\ \A i \in 0..n : K[i] # -1 => M[i] = K[i]
      /\ \A i \in 0..n : K[i] = -1 =>
              \/ M[i] = Gap
              \/ \E a, e : Nearest(K, n, a, e, i) /\ M[i] = Between(K[a], K[e], a, e, i)
  BY <1>1, MapIs
<1>3. ASSUME NEW i \in 0..n PROVE M[i] \in Nat \cup {Gap}
  <2>1. CASE K[i] # -1
    BY <1>2, <2>1 DEF Sorted
  <2>2. CASE K[i] = -1
    BY <1>2, <2>2, NearestOrder
  <2> QED BY <2>1, <2>2
<1>4. M = [i \in 0..n |-> M[i]]
  BY <1>1 DEF buildScrollMap
<1> QED BY <1>1, <1>2, <1>3, <1>4

(* A map of one text: every row has a place, in order, and blocks have their own.        *)
LEMMA MapOfOne ==
  ASSUME NEW l, LaidOut(l), NEW M, M = buildScrollMap(l, l), NEW n, n = linesCount(l)
  PROVE  /\ n \in Nat \ {0} /\ DOMAIN M = 0..n
         /\ \A i \in 0..n : M[i] \in Nat
         /\ \A i \in 1..n : M[i - 1] <= M[i]
         /\ \A k \in 1..Len(l.blocks) : M[blockRow(l, l, k)] = l.blocks[k].top
<1>1. PICK m, R, K : m = Len(l.blocks) /\ R = BlockRows(l, l) /\ K = KnownOf(l, l)
  OBVIOUS
<1>2. \A k \in 1..m : R[k] = blockRow(l, l, k)
  BY <1>1, BlocksGrow
<1>3. Gapless(R, m, n)
  <2> SUFFICES ASSUME NEW k \in 1..m PROVE R[k] # Gap /\ R[k] < n
    BY DEF Gapless
  <2>1. PICK j \in Nat, w \in Nat : j = l.blocks[k].line /\ w = Len(l.rows) /\ j < w
    BY <1>1, LaidOutIs
  <2>2. j \in 0..w /\ w \in 0..w
    BY <2>1
  <2>3. rowOf(l, j) < rowOf(l, w) /\ rowOf(l, j) \in Nat
    BY <2>1, <2>2, RowsGrow
  <2>4. R[k] = rowOf(l, j) /\ n = rowOf(l, w)
    BY <1>2, <2>1 DEF blockRow, linesCount
  <2> QED BY <2>3, <2>4 DEF Gap
<1>4. /\ DOMAIN M = 0..n /\ n \in Nat \ {0} /\ Sorted(K, n)
      /\ \A i \in 0..n : K[i] # -1 => M[i] = K[i]
      /\ \A i \in 0..n : K[i] = -1 =>
           \E a, e : Nearest(K, n, a, e, i) /\ M[i] = Between(K[a], K[e], a, e, i)
  BY <1>1, <1>3, MapIs
<1>5. \A i \in 0..n : K[i] # -1 => M[i] \in Nat
  BY <1>4 DEF Sorted
<1>6. \A i \in 0..n : K[i] = -1 => M[i] \in Nat
  BY <1>4, NearestOrder
<1>7. ASSUME NEW i \in 1..n PROVE M[i - 1] <= M[i]
  <2>1. i \in 0..n /\ i - 1 \in 0..n /\ i - 1 < i
    BY <1>4
  <2>2. CASE K[i - 1] # -1 /\ K[i] # -1
    BY <1>4, <2>1, <2>2 DEF Sorted
  <2>3. CASE K[i - 1] # -1 /\ K[i] = -1
    <3>1. PICK a, e : Nearest(K, n, a, e, i) /\ M[i] = Between(K[a], K[e], a, e, i)
      BY <1>4, <2>1, <2>3
    <3>2. K[a] <= M[i] /\ a \in Int /\ a < i
      BY <1>4, <2>1, <3>1, NearestOrder
    <3>3. i - 1 <= a
      BY <2>1, <2>3, <3>1 DEF Nearest
    <3>4. a = i - 1
      BY <3>2, <3>3
    <3> QED BY <1>4, <2>1, <2>3, <3>2, <3>4
  <2>4. CASE K[i - 1] = -1 /\ K[i] # -1
    <3>1. PICK a, e : Nearest(K, n, a, e, i - 1) /\ M[i - 1] = Between(K[a], K[e], a, e, i - 1)
      BY <1>4, <2>1, <2>4
    <3>2. M[i - 1] <= K[e] /\ e \in Int /\ i - 1 < e
      BY <1>4, <2>1, <3>1, NearestOrder
    <3>3. e <= i
      <4>1. i \in (i - 1)..n
        BY <2>1
      <4> QED BY <2>4, <3>1, <4>1 DEF Nearest
    <3>4. e = i
      BY <3>2, <3>3
    <3> QED BY <1>4, <2>1, <2>4, <3>2, <3>4
  <2>5. CASE K[i - 1] = -1 /\ K[i] = -1
    <3>1. PICK a, e : Nearest(K, n, a, e, i - 1) /\ M[i - 1] = Between(K[a], K[e], a, e, i - 1)
      BY <1>4, <2>1, <2>5
    <3>2. PICK c, d : Nearest(K, n, c, d, i) /\ M[i] = Between(K[c], K[d], c, d, i)
      BY <1>4, <2>1, <2>5
    <3>3. /\ a \in 0..((i - 1) - 1) /\ e \in ((i - 1) + 1)..n /\ c \in 0..(i - 1) /\ d \in (i + 1)..n
          /\ K[a] # -1 /\ K[e] # -1 /\ K[c] # -1 /\ K[d] # -1
      BY <3>1, <3>2 DEF Nearest
    <3>4. c # i - 1 /\ e # i
      BY <2>5, <3>3
    <3>5. /\ a \in 0..(i - 1) /\ c \in 0..((i - 1) - 1) /\ e \in i..n /\ d \in (i - 1)..n
      BY <2>1, <3>3, <3>4
    <3>6. a <= c /\ c <= a /\ d <= e /\ e <= d
      BY <3>1, <3>2, <3>3, <3>5 DEF Nearest
    <3>7. a = c /\ e = d
      BY <3>3, <3>6
    <3>8. /\ a \in Int /\ e \in Int /\ K[a] \in Nat /\ K[e] \in Nat /\ K[a] <= K[e]
          /\ i - 1 \in a..e /\ a < i - 1 /\ i - 1 < e
      BY <1>4, <2>1, <3>1, NearestOrder
    <3>9. i \in c..d
      BY <1>4, <2>1, <3>2, NearestOrder
    <3>10. Between(K[a], K[e], a, e, i - 1) <= Between(K[a], K[e], a, e, i)
      <4>1. PICK A \in Nat, B \in Nat : A = K[a] /\ B = K[e]
        BY <3>8
      <4>2. a \in Int /\ e \in Int /\ a < e /\ A <= B
        BY <2>1, <3>8, <4>1
      <4>3. \A k, j \in a..e : k <= j => Between(A, B, a, e, k) <= Between(A, B, a, e, j)
        BY <4>2, RuleOfThree
      <4>4. i \in a..e /\ i - 1 \in a..e /\ i - 1 <= i
        BY <2>1, <3>7, <3>8, <3>9
      <4> QED BY <4>1, <4>3, <4>4
    <3> QED BY <3>1, <3>2, <3>7, <3>10
  <2> QED BY <2>2, <2>3, <2>4, <2>5
<1>8. ASSUME NEW k \in 1..m PROVE M[blockRow(l, l, k)] = l.blocks[k].top
  <2>1. R[k] # Gap /\ R[k] < n /\ R[k] \in Int
    BY <1>1, <1>3, BlocksGrow DEF Gapless, Growing
  <2>2. R[k] \in 0..n
    <3>1. R[k] = Gap \/ 0 <= R[k]
      BY <1>1, BlocksGrow DEF Growing
    <3> QED BY <1>4, <2>1, <3>1
  <2>3. K[R[k]] = l.blocks[k].top
    BY <1>1, <2>1, KnownSorted
  <2>4. l.blocks[k].top # -1
    BY <1>1, LaidOutIs
  <2>5. M[R[k]] = l.blocks[k].top
    BY <1>4, <2>2, <2>3, <2>4
  <2> QED BY <1>2, <2>5
<1> QED BY <1>1, <1>4, <1>5, <1>6, <1>7, <1>8

(* Places in the result, or none. *)
Heights == Nat \cup {Gap}
(* The maps of any number of rows. *)
Maps == UNION {[0..n -> Heights] : n \in Nat}
(* The type of the panes' state. *)
PaneStates ==
  [draft : Drafts, shown : Drafts, width : Widths, map : {NoMap} \cup Maps, update : BOOLEAN,
   top : [Panes -> Nat], target : [Panes -> Nat \cup {Still}],
   heard : {{}, {"source"}, {"result"}}, due : SUBSET Panes, scrolls : Nat,
   calm : {"none"} \cup Panes, at : Nat, together : BOOLEAN]

(* The map in use, built if there is none. *)
mapOf(s) ==
  IF s.map = NoMap THEN buildScrollMap(s.draft[s.width], s.shown[s.width]) ELSE s.map

(* Every draft at every width. *)
LEMMA LaidOutDrafts ==
  ASSUME NEW d \in Drafts, NEW w \in Widths
  PROVE  LaidOut(d[w]) /\ d[w].height \in Nat /\ linesCount(d[w]) \in Nat
<1>1. LaidOut(d[w])
  BY ScrollAssumption
<1>2. PICK l : l = d[w]
  OBVIOUS
<1>3. LaidOut(l)
  BY <1>1, <1>2
<1>4. l.height \in Nat /\ linesCount(l) \in Nat
  BY <1>3, RowsGrow DEF LaidOut
<1> QED BY <1>1, <1>2, <1>4

(* How far a pane can be scrolled is a number. *)
LEMMA MostIs ==
  ASSUME NEW s \in PaneStates, NEW p \in Panes
  PROVE  most(s, p) \in Nat
<1>1. s.draft \in Drafts /\ s.shown \in Drafts /\ s.width \in Widths
  BY DEF PaneStates
<1>2. PICK h \in Nat, n \in Nat : h = s.shown[s.width].height /\ n = linesCount(s.draft[s.width])
  BY <1>1, LaidOutDrafts
<1>3. PICK k \in Nat : k = LineHeight * n
  BY ScrollAssumption
<1>4. PICK c \in Nat : c = IF p = "result" THEN h ELSE k
  OBVIOUS
<1>5. most(s, p) = IF c > PaneHeight THEN c - PaneHeight ELSE 0
  BY <1>2, <1>3, <1>4 DEF most
<1>6. PaneHeight \in Nat
  BY ScrollAssumption
<1> QED BY ONLY <1>5, <1>6, c \in Nat

(* There is always a map. *)
LEMMA MapOfTyped ==
  ASSUME NEW s \in PaneStates
  PROVE  mapOf(s) \in Maps
<1>1. s.draft \in Drafts /\ s.shown \in Drafts /\ s.width \in Widths /\ s.map \in {NoMap} \cup Maps
  BY DEF PaneStates
<1>2. PICK a, r : a = s.draft[s.width] /\ r = s.shown[s.width]
  OBVIOUS
<1>3. LaidOut(a) /\ LaidOut(r)
  BY <1>1, <1>2, LaidOutDrafts
<1>4. PICK M, n : M = buildScrollMap(a, r) /\ n = linesCount(a)
  OBVIOUS
<1>5. M \in [0..n -> Heights] /\ n \in Nat
  BY <1>3, <1>4, MapTyped DEF Heights
<1>6. M \in Maps
  BY <1>5 DEF Maps
<1> QED BY <1>1, <1>2, <1>4, <1>6 DEF mapOf

(* A map has a place or a gap for each row from 0 to the last. *)
LEMMA MapsAre ==
  ASSUME NEW M \in Maps
  PROVE  \E n \in Nat : DOMAIN M = 0..n /\ \A i \in 0..n : M[i] \in Heights
BY DEF Maps

(* The last row above a place: there is one.                                        *)
LEMMA RowAtIs ==
  ASSUME NEW M \in Maps, NEW x
  PROVE  rowAt(M, x) \in Nat
<1>1. PICK n \in Nat : DOMAIN M = 0..n
  BY MapsAre
<1>2. PICK B : B = {i \in DOMAIN M \ {0} : M[i] = Gap \/ M[i] >= x}
  OBVIOUS
<1>3. B \subseteq 1..n
  BY <1>1, <1>2
<1>4. CASE B = {}
  <2>1. rowAt(M, x) = Max(0..n)
    BY <1>1, <1>2, <1>4 DEF rowAt
  <2>2. n \in 0..n /\ \A i \in 0..n : n >= i
    OBVIOUS
  <2>3. Max(0..n) \in 0..n
    BY <2>2 DEF Max
  <2> QED BY <2>1, <2>3
<1>5. CASE B # {}
  <2>1. PICK i \in B : \A j \in B : i <= j
    BY <1>3, <1>5, FirstPlace
  <2>2. Min(B) \in B
    BY <2>1 DEF Min
  <2>3. PICK k \in 1..n : k = Min(B)
    BY <1>3, <2>2
  <2>4. rowAt(M, x) = k - 1
    BY <1>2, <1>5, <2>3 DEF rowAt
  <2> QED BY <2>4
<1> QED BY <1>4, <1>5

(* What a map says of a row, if it has the row. *)
LEMMA PlaceIs ==
  ASSUME NEW M \in Maps, NEW r
  PROVE  placeOf(M, r) \in Heights
<1>1. PICK n \in Nat : DOMAIN M = 0..n /\ \A i \in 0..n : M[i] \in Heights
  BY MapsAre
<1> QED BY <1>1 DEF placeOf, Heights

(* There are two panes, each the other of the other. *)
LEMMA PaneEither == ASSUME NEW p \in Panes
                    PROVE  p \in {"source", "result"} /\ other(p) \in Panes /\ other(p) # p
                           /\ other(other(p)) = p
                           /\ \A q \in Panes : q = p \/ q = other(p)
BY DEF Panes, other

(* A pane is scrolled: it moves, the other is due if it was listened to; no more changes. *)
ScrolledTo(s, p, x, t) ==
  /\ t \in PaneStates
  /\ t.draft = s.draft /\ t.shown = s.shown /\ t.width = s.width /\ t.map = s.map
  /\ t.update = s.update /\ t.target = s.target /\ t.heard = s.heard /\ t.scrolls = s.scrolls
  /\ t.calm = s.calm /\ t.at = s.at /\ t.together = s.together
  /\ t.top[p] = least(x, most(s, p)) /\ t.top[other(p)] = s.top[other(p)]
  /\ t.due = IF t.top[p] # s.top[p] /\ p \in s.heard THEN s.due \cup {other(p)} ELSE s.due

(* The lesser of two. *)
LEMMA LeastIs ==
  ASSUME NEW x \in Nat, NEW y \in Nat
  PROVE  least(x, y) \in Nat /\ least(x, y) <= x /\ least(x, y) <= y
         /\ (x <= y => least(x, y) = x) /\ least(x, y) \in {x, y}
BY DEF least

(* That is what scrolling does. *)
LEMMA ScrolledIs ==
  ASSUME NEW s \in PaneStates, NEW p \in Panes, NEW x \in Nat
  PROVE  ScrolledTo(s, p, x, scrolled(s, p, x))
<1>1. PICK v \in Nat : v = least(x, most(s, p))
  BY MostIs, LeastIs
<1>2. PICK t : t = scrolled(s, p, x)
  OBVIOUS
<1>3. other(p) \in Panes /\ other(p) # p
  BY PaneEither
<1>4. s.top \in [Panes -> Nat] /\ s.due \in SUBSET Panes
  BY DEF PaneStates
<1>5. CASE v = s.top[p]
  <2>1. t = s
    BY <1>1, <1>2, <1>5 DEF scrolled
  <2> QED BY <1>1, <1>2, <1>5, <2>1 DEF ScrolledTo
<1>6. CASE v # s.top[p]
  <2>1. PICK T : T = [s.top EXCEPT ![p] = v]
    OBVIOUS
  <2>2. T \in [Panes -> Nat] /\ T[p] = v /\ T[other(p)] = s.top[other(p)]
    BY <1>3, <1>4, <2>1
  <2>3. PICK D : D = IF p \in s.heard THEN s.due \cup {other(p)} ELSE s.due
    OBVIOUS
  <2>4. D \in SUBSET Panes
    BY <1>3, <1>4, <2>3
  <2>5. t = [s EXCEPT !.top = T, !.due = D]
    BY <1>1, <1>2, <1>6, <2>1, <2>3 DEF scrolled
  <2>6. /\ t \in PaneStates /\ t.top = T /\ t.due = D
        /\ t.draft = s.draft /\ t.shown = s.shown /\ t.width = s.width /\ t.map = s.map
        /\ t.update = s.update /\ t.target = s.target /\ t.heard = s.heard
        /\ t.scrolls = s.scrolls /\ t.calm = s.calm /\ t.at = s.at /\ t.together = s.together
    BY <2>2, <2>4, <2>5 DEF PaneStates
  <2> QED BY <1>1, <1>2, <1>6, <2>2, <2>3, <2>6 DEF ScrolledTo
<1> QED BY <1>5, <1>6

(* Where a pane belongs, by what the other shows; and that it is there, or comes.       *)
Want(s, q) ==
  IF q = "result" THEN placeOf(mapOf(s), s.top["source"] \div LineHeight)
  ELSE LineHeight * rowAt(mapOf(s), s.top["result"])
(* It is due, or under way there, or there as far as its content allows. *)
Comes(s, q) ==
  \/ q \in s.due \/ s.target[q] = Want(s, q)
  \/ s.target[q] = Still /\ s.top[q] = least(Want(s, q), most(s, q))

(* One pane is listened to; the other comes, or has been seen to: then this *)
(* one does.                                                                *)
Follows(s, h) ==
  /\ s.heard = {h}
  /\ \/ Comes(s, other(h))
     \/ Comes(s, h) /\ s.target[other(h)] = Still /\ other(h) \notin s.due

(* A pane that the reader has scrolled rests where it was scrolled to. *)
Rested(s, p) ==
  s.calm = p => /\ s.heard = {p} /\ s.target[p] = Still /\ p \notin s.due /\ s.top[p] = s.at

(* Without an edit to come the result is of the text, and so is the map. *)
Drawn(s) ==
  ~ s.update => /\ s.shown = s.draft
                /\ s.map # NoMap => s.map = buildScrollMap(s.draft[s.width], s.shown[s.width])

(* No pane is scrolled beyond its content. *)
Within(s) == \A p \in Panes : s.top[p] <= most(s, p)

(* What holds of the panes at all times. *)
GoodPanes(s) ==
  /\ s \in PaneStates /\ Within(s) /\ Drawn(s)
  /\ \A p \in Panes : Rested(s, p)
  /\ s.together /\ ~ s.update => \E h \in Panes : Follows(s, h)

(* Once the result is of the text, there is a place for what the source is at.           *)
LEMMA WantIs ==
  ASSUME NEW s, s \in PaneStates, Within(s), Drawn(s), ~ s.update, NEW q \in Panes
  PROVE  Want(s, q) \in Nat
<1>1. PICK M : M = mapOf(s)
  OBVIOUS
<1>2. M \in Maps
  BY <1>1, MapOfTyped
<1>3. CASE q # "result"
  <2>1. PICK r \in Nat : r = rowAt(M, s.top["result"])
    BY <1>2, RowAtIs
  <2>2. Want(s, q) = LineHeight * r
    BY <1>1, <1>3, <2>1 DEF Want
  <2> QED BY <2>2, ScrollAssumption
<1>4. CASE q = "result"
  <2>1. s.draft \in Drafts /\ s.width \in Widths /\ s.top \in [Panes -> Nat] /\ "source" \in Panes
    BY DEF PaneStates, Panes
  <2>2. PICK l : l = s.draft[s.width]
    OBVIOUS
  <2>3. LaidOut(l)
    BY <2>1, <2>2, LaidOutDrafts
  <2>4. M = buildScrollMap(l, l)
    BY <1>1, <2>2 DEF Drawn, mapOf
  <2>5. PICK n : n = linesCount(l)
    OBVIOUS
  <2>6. DOMAIN M = 0..n /\ n \in Nat /\ \A i \in 0..n : M[i] \in Nat
    BY <2>3, <2>4, <2>5, MapOfOne
  <2>7. PICK x \in Nat : x = s.top["source"]
    BY <2>1
  <2>8. PICK y \in Nat \ {0} : y = LineHeight
    BY ScrollAssumption
  <2>9. x <= y * n
    <3>1. x <= most(s, "source")
      BY <2>1, <2>7 DEF Within
    <3>2. PICK k \in Nat : k = y * n
      BY <2>6
    <3>3. most(s, "source") = IF k > PaneHeight THEN k - PaneHeight ELSE 0
      BY <2>2, <2>5, <2>8, <3>2 DEF most
    <3>4. PaneHeight \in Nat
      BY ScrollAssumption
    <3> QED BY ONLY <3>1, <3>2, <3>3, <3>4, x \in Nat, k \in Nat
  <2>10. PICK r \in Int : r = x \div y
    BY DivIs
  <2>11. y * r <= x /\ x < y * r + y
    BY <2>10, DivIs
  <2>12. r \in 0..n
    <3>1. ASSUME r < 0 PROVE FALSE
      <4>1. y * r + y <= y * 0
        BY <3>1, TimesGrows
      <4> QED BY <2>11, <4>1
    <3>2. ASSUME n < r PROVE FALSE
      <4>1. y * n + y <= y * r
        BY <2>6, <3>2, TimesGrows
      <4>2. y * n \in Int /\ y * r \in Int
        BY <2>6
      <4> QED BY <2>9, <2>11, <4>1, <4>2
    <3> QED BY <2>6, <3>1, <3>2
  <2>13. Want(s, q) = M[r]
    BY <1>1, <1>4, <2>6, <2>7, <2>8, <2>10, <2>12 DEF Want, placeOf
  <2> QED BY <2>6, <2>12, <2>13
<1> QED BY <1>3, <1>4

(* What a step leaves of the panes' texts and map. *)
SameText(s, t) ==
  /\ t.draft = s.draft /\ t.shown = s.shown /\ t.width = s.width /\ t.update = s.update
  /\ t.map \in {s.map, mapOf(s)}

(* Where neither text nor map changes, a pane belongs where it did, if the *)
(* other has not moved.                                                    *)
LEMMA SameTextKeeps ==
  ASSUME NEW s, NEW t, s \in PaneStates, t \in PaneStates, SameText(s, t)
  PROVE  /\ mapOf(t) = mapOf(s) /\ \A p \in Panes : most(t, p) = most(s, p)
         /\ Drawn(s) => Drawn(t)
         /\ \A q \in Panes : t.top[other(q)] = s.top[other(q)] => Want(t, q) = Want(s, q)
<1>1. t.draft = s.draft /\ t.shown = s.shown /\ t.width = s.width /\ t.update = s.update
  BY DEF SameText
<1>2. mapOf(t) = mapOf(s)
  BY <1>1 DEF SameText, mapOf
<1>3. \A p \in Panes : most(t, p) = most(s, p)
  BY <1>1 DEF most
<1>4. Drawn(s) => Drawn(t)
  BY <1>1 DEF Drawn, SameText, mapOf
<1>5. ASSUME NEW q \in Panes, t.top[other(q)] = s.top[other(q)] PROVE Want(t, q) = Want(s, q)
  <2>1. CASE q = "result"
    BY <1>2, <1>5, <2>1 DEF Want, other
  <2>2. CASE q # "result"
    BY <1>2, <1>5, <2>2 DEF Want, other, Panes
  <2> QED BY <2>1, <2>2
<1> QED BY <1>2, <1>3, <1>4, <1>5

(* Nothing changes that says where a pane is to be: it comes as it did. *)
LEMMA ComesStill ==
  ASSUME NEW s, NEW t, s \in PaneStates, t \in PaneStates, SameText(s, t), NEW q \in Panes,
         t.top = s.top, t.target[q] = s.target[q], q \in s.due => q \in t.due, Comes(s, q)
  PROVE  Comes(t, q)
<1>1. Want(t, q) = Want(s, q) /\ most(t, q) = most(s, q)
  BY SameTextKeeps
<1> QED BY <1>1 DEF Comes

(* All but the top, the target and what is due. *)
(* What a step leaves of the rest. *)
SameRest(s, t) ==
  /\ t.heard = s.heard /\ t.scrolls = s.scrolls /\ t.calm = s.calm /\ t.at = s.at
  /\ t.together = s.together

(* A pane is to be brought to a place, or no more. *)
TargetedAt(u, p, v, t) ==
  /\ t \in PaneStates /\ SameText(u, t) /\ SameRest(u, t) /\ t.map = u.map
  /\ t.top = u.top /\ t.due = u.due
  /\ t.target[p] = v /\ t.target[other(p)] = u.target[other(p)]

(* That is what it changes. *)
LEMMA Targeted ==
  ASSUME NEW u \in PaneStates, NEW p \in Panes, NEW v \in Nat \cup {Still}
  PROVE  TargetedAt(u, p, v, [u EXCEPT !.target[p] = v])
<1> DEFINE t == [u EXCEPT !.target[p] = v]
<1>1. u.target \in [Panes -> Nat \cup {Still}] /\ other(p) \in Panes /\ other(p) # p
  BY PaneEither DEF PaneStates
<1>2. PICK T : T = [u.target EXCEPT ![p] = v]
  OBVIOUS
<1>3. T \in [Panes -> Nat \cup {Still}] /\ T[p] = v /\ T[other(p)] = u.target[other(p)]
  BY <1>1, <1>2
<1>4. t = [u EXCEPT !.target = T]
  BY <1>2
<1>5. /\ t \in PaneStates /\ t.target = T /\ t.top = u.top /\ t.due = u.due /\ t.map = u.map
      /\ t.draft = u.draft /\ t.shown = u.shown /\ t.width = u.width /\ t.update = u.update
      /\ t.heard = u.heard /\ t.scrolls = u.scrolls /\ t.calm = u.calm /\ t.at = u.at
      /\ t.together = u.together
  BY <1>3, <1>4 DEF PaneStates
<1> QED BY <1>3, <1>5 DEF SameText, SameRest, TargetedAt

(* The animation of a pane moves it one step. *)
LEMMA StepMoves ==
  ASSUME NEW s, GoodPanes(s), NEW p \in Panes, s.target[p] # Still,
         NEW to, to = least(s.target[p], most(s, p)), NEW x \in {to, (to + s.top[p]) \div 2},
         NEW t, t = [scrolled(s, p, x) EXCEPT !.target[p] = IF x = to THEN Still ELSE @]
  PROVE  GoodPanes(t)
<1>1. /\ s \in PaneStates /\ Within(s) /\ Drawn(s) /\ \A q \in Panes : Rested(s, q)
      /\ s.together /\ ~ s.update => \E h \in Panes : Follows(s, h)
  BY DEF GoodPanes
<1>2. PICK o \in Panes : o = other(p) /\ o # p /\ other(o) = p /\ \A q \in Panes : q = p \/ q = o
  BY PaneEither
<1>3. PICK m \in Nat : m = most(s, p)
  BY <1>1, MostIs
<1>4. PICK g \in Nat : g = s.target[p]
  BY <1>1 DEF PaneStates
<1>5. PICK k \in Nat : k = s.top[p] /\ k <= m
  BY <1>1, <1>3 DEF PaneStates, Within
<1>6. to \in Nat /\ to <= m /\ to = least(g, m)
  BY <1>3, <1>4, LeastIs
<1>7. x \in Nat /\ x <= m /\ least(x, m) = x
  <2>1. CASE x = to
    BY <1>3, <1>6, <2>1, LeastIs
  <2>2. CASE x = (to + k) \div 2
    <3>1. x \in Nat /\ x <= m
      BY <1>5, <1>6, <2>2
    <3> QED BY <3>1, LeastIs
  <2> QED BY <1>5, <2>1, <2>2
<1>8. PICK u : u = scrolled(s, p, x)
  OBVIOUS
<1>9. /\ u \in PaneStates /\ SameText(s, u) /\ SameRest(s, u) /\ u.map = s.map
      /\ u.target = s.target /\ u.top[p] = x /\ u.top[o] = s.top[o]
      /\ u.due = IF x # k /\ p \in s.heard THEN s.due \cup {o} ELSE s.due
  <2>1. ScrolledTo(s, p, x, u)
    BY <1>1, <1>7, <1>8, ScrolledIs
  <2> QED BY <1>2, <1>3, <1>5, <1>7, <2>1 DEF ScrolledTo, SameText, SameRest
<1>10. PICK v \in Nat \cup {Still} : v = IF x = to THEN Still ELSE g
  OBVIOUS
<1>11. t = [u EXCEPT !.target[p] = v]
  <2>1. u.target[p] = g
    BY <1>4, <1>9
  <2> QED BY <1>8, <1>10, <2>1
<1>12. /\ t \in PaneStates /\ SameText(s, t) /\ SameRest(s, t)
       /\ t.top[p] = x /\ t.top[o] = s.top[o] /\ t.target[p] = v /\ t.target[o] = s.target[o]
       /\ t.due = IF x # k /\ p \in s.heard THEN s.due \cup {o} ELSE s.due
  <2>1. TargetedAt(u, p, v, t)
    <3>1. u \in PaneStates
      BY <1>9
    <3>2. v \in Nat \cup {Still} /\ p \in Panes
      OBVIOUS
    <3>3. TargetedAt(u, p, v, [u EXCEPT !.target[p] = v])
      BY ONLY <3>1, <3>2, Targeted, Zenon
    <3> QED BY ONLY <1>11, <3>3, Zenon
  <2> QED BY <1>2, <1>9, <2>1 DEF SameText, SameRest, TargetedAt
<1>13. /\ mapOf(t) = mapOf(s) /\ \A q \in Panes : most(t, q) = most(s, q)
       /\ Drawn(t)
       /\ \A q \in Panes : t.top[other(q)] = s.top[other(q)] => Want(t, q) = Want(s, q)
  BY <1>1, <1>12, SameTextKeeps
<1>14. Within(t)
  BY <1>1, <1>2, <1>3, <1>7, <1>12, <1>13 DEF Within
<1>15. ASSUME NEW q \in Panes PROVE Rested(t, q)
  <2> SUFFICES ASSUME t.calm = q
               PROVE  t.heard = {q} /\ t.target[q] = Still /\ q \notin t.due /\ t.top[q] = t.at
    BY DEF Rested
  <2>1. s.heard = {q} /\ s.target[q] = Still /\ q \notin s.due /\ s.top[q] = s.at
    BY <1>1, <1>12 DEF Rested, SameRest
  <2>2. q = o /\ p \notin s.heard
    BY <1>2, <2>1
  <2> QED BY <1>12, <2>1, <2>2 DEF SameRest
<1>16. ASSUME t.together, ~ t.update PROVE \E h \in Panes : Follows(t, h)
  <2>1. PICK h \in Panes : Follows(s, h)
    BY <1>1, <1>12, <1>16 DEF SameText, SameRest
  <2>2. s.heard = {h} /\ t.heard = {h}
    BY <1>12, <2>1 DEF Follows, SameRest
  <2>3. PICK w : w = Want(s, p)
    OBVIOUS
  <2>4. t.top[o] = s.top[o] /\ Want(t, p) = w /\ most(t, p) = m
    BY <1>2, <1>3, <1>12, <1>13, <2>3
  <2>5. w \in Nat
    BY <1>1, <1>12, <1>16, <2>3, WantIs DEF SameText
  <2>6. Comes(s, p) => Comes(t, p)
    <3>1. ASSUME p \in s.due PROVE p \in t.due
      BY <1>12, <3>1
    <3>2. ASSUME g = w PROVE t.target[p] = w \/ (t.target[p] = Still /\ t.top[p] = least(w, m))
      BY <1>6, <1>10, <1>12, <3>2
    <3>3. s.target[p] = g
      BY <1>4
    <3> QED BY <2>3, <2>4, <3>1, <3>2, <3>3 DEF Comes
  <2>7. CASE h = p
    <3>1. CASE x # k
      <4>1. o \in t.due
        BY <1>12, <2>2, <2>7, <3>1
      <4>2. Comes(t, other(h))
        BY <1>2, <2>7, <4>1 DEF Comes
      <4> QED BY <2>2, <4>2 DEF Follows
    <3>2. CASE x = k
      <4>1. t.top[p] = s.top[p] /\ t.due = s.due
        BY <1>5, <1>12, <3>2
      <4>2. Want(t, o) = Want(s, o) /\ most(t, o) = most(s, o)
        BY <1>2, <1>13, <4>1
      <4>3. Comes(s, o) => Comes(t, o)
        BY <1>12, <4>1, <4>2 DEF Comes
      <4>4. \/ Comes(s, o)
            \/ Comes(s, p) /\ s.target[o] = Still /\ o \notin s.due
        BY <1>2, <2>1, <2>7 DEF Follows
      <4>5. \/ Comes(t, o)
            \/ Comes(t, p) /\ t.target[o] = Still /\ o \notin t.due
        BY <1>12, <2>6, <4>1, <4>3, <4>4
      <4> QED BY <1>2, <2>2, <2>7, <4>5 DEF Follows
    <3> QED BY <3>1, <3>2
  <2>8. CASE h = o
    <3>1. Comes(s, p)
      <4>1. \/ Comes(s, p)
            \/ Comes(s, o) /\ s.target[p] = Still /\ p \notin s.due
        BY <1>2, <2>1, <2>8 DEF Follows
      <4> QED BY <4>1
    <3>2. Comes(t, other(h))
      BY <1>2, <2>6, <2>8, <3>1
    <3> QED BY <2>2, <3>2 DEF Follows
  <2> QED BY <1>2, <2>7, <2>8
<1> QED BY <1>12, <1>13, <1>14, <1>15, <1>16 DEF GoodPanes

(* What was due is done: the pane is to be brought to where it belongs. *)
LEMMA SyncKeeps ==
  ASSUME NEW s, GoodPanes(s), NEW p \in Panes, p \in s.due,
         NEW v \in Nat, ~ s.update => v = Want(s, p),
         NEW t, t = [s EXCEPT !.due = @ \ {p}, !.map = mapOf(s), !.target[p] = v]
  PROVE  GoodPanes(t)
<1>1. /\ s \in PaneStates /\ Within(s) /\ Drawn(s) /\ \A q \in Panes : Rested(s, q)
      /\ s.together /\ ~ s.update => \E h \in Panes : Follows(s, h)
  BY DEF GoodPanes
<1>2. PICK o \in Panes : o = other(p) /\ o # p /\ other(o) = p /\ \A q \in Panes : q = p \/ q = o
  BY PaneEither
<1>3. PICK M \in Maps : M = mapOf(s)
  BY <1>1, MapOfTyped
<1>4. PICK D \in SUBSET Panes : D = s.due \ {p}
  BY <1>1 DEF PaneStates
<1>5. PICK T \in [Panes -> Nat \cup {Still}] : T[p] = v /\ T[o] = s.target[o] /\ T = [s.target EXCEPT ![p] = v]
  <2>1. s.target \in [Panes -> Nat \cup {Still}]
    BY <1>1 DEF PaneStates
  <2>2. [s.target EXCEPT ![p] = v] \in [Panes -> Nat \cup {Still}]
    BY <2>1
  <2> QED BY <1>2, <2>1, <2>2
<1>6. t = [s EXCEPT !.due = D, !.map = M, !.target = T]
  BY <1>3, <1>4, <1>5
<1>7. /\ t \in PaneStates /\ t.due = D /\ t.map = M /\ t.target = T /\ t.top = s.top
      /\ t.draft = s.draft /\ t.shown = s.shown /\ t.width = s.width /\ t.update = s.update
      /\ t.heard = s.heard /\ t.scrolls = s.scrolls /\ t.calm = s.calm /\ t.at = s.at
      /\ t.together = s.together
  BY <1>1, <1>6 DEF PaneStates
<1>8. SameText(s, t)
  BY <1>3, <1>7 DEF SameText
<1>9. /\ mapOf(t) = mapOf(s) /\ \A q \in Panes : most(t, q) = most(s, q)
      /\ Drawn(t) /\ \A q \in Panes : Want(t, q) = Want(s, q)
  <2>1. /\ mapOf(t) = mapOf(s) /\ \A q \in Panes : most(t, q) = most(s, q)
        /\ Drawn(t)
        /\ \A q \in Panes : t.top[other(q)] = s.top[other(q)] => Want(t, q) = Want(s, q)
    <3>1. s \in PaneStates /\ t \in PaneStates /\ SameText(s, t) /\ Drawn(s)
      BY <1>1, <1>7, <1>8
    <3> QED BY ONLY <3>1, SameTextKeeps
  <2> QED BY <1>7, <2>1
<1>10. Within(t)
  BY <1>1, <1>7, <1>9 DEF Within
<1>11. ASSUME NEW q \in Panes PROVE Rested(t, q)
  <2> SUFFICES ASSUME t.calm = q
               PROVE  t.heard = {q} /\ t.target[q] = Still /\ q \notin t.due /\ t.top[q] = t.at
    BY DEF Rested
  <2>1. s.heard = {q} /\ s.target[q] = Still /\ q \notin s.due /\ s.top[q] = s.at
    BY <1>1, <1>7 DEF Rested
  <2>2. q = o
    BY <1>2, <2>1
  <2> QED BY <1>4, <1>5, <1>7, <2>1, <2>2
<1>12. ASSUME t.together, ~ t.update PROVE \E h \in Panes : Follows(t, h)
  <2>1. PICK h \in Panes : Follows(s, h)
    BY <1>1, <1>7, <1>12
  <2>2. t.heard = {h}
    BY <1>7, <2>1 DEF Follows
  <2>3. Comes(t, p)
    BY <1>5, <1>7, <1>9, <1>12 DEF Comes
  <2>4. Comes(s, o) => Comes(t, o)
    <3>1. o \in s.due => o \in t.due
      BY <1>2, <1>4, <1>7
    <3> QED BY <1>5, <1>7, <1>9, <3>1 DEF Comes
  <2>5. CASE h = o
    BY <1>2, <2>2, <2>3, <2>5 DEF Follows
  <2>6. CASE h = p
    <3>1. \/ Comes(s, o)
          \/ s.target[o] = Still /\ o \notin s.due
      BY <1>2, <2>1, <2>6 DEF Follows
    <3>2. \/ Comes(t, o)
          \/ Comes(t, p) /\ t.target[o] = Still /\ o \notin t.due
      BY <1>4, <1>5, <1>7, <2>3, <2>4, <3>1
    <3> QED BY <1>2, <2>2, <2>6, <3>2 DEF Follows
  <2> QED BY <1>2, <2>5, <2>6
<1> QED BY <1>7, <1>9, <1>10, <1>11, <1>12 DEF GoodPanes

(* The mouse comes over a pane.  What followed goes on to be as it is, seen from the other. *)
LEMMA MouseKeeps ==
  ASSUME NEW s, GoodPanes(s), NEW p \in Panes,
         NEW t, t = [s EXCEPT !.heard = {p}, !.calm = IF p = @ THEN @ ELSE "none",
                       !.together = @ /\ (s.heard = {p} \/ \A q \in Panes : s.target[q] = Still)]
  PROVE  GoodPanes(t)
<1>1. /\ s \in PaneStates /\ Within(s) /\ Drawn(s) /\ \A q \in Panes : Rested(s, q)
      /\ s.together /\ ~ s.update => \E h \in Panes : Follows(s, h)
  BY DEF GoodPanes
<1>2. PICK o \in Panes : o = other(p) /\ o # p /\ other(o) = p /\ \A q \in Panes : q = p \/ q = o
  BY PaneEither
<1>3. PICK c \in {"none"} \cup Panes : c = IF p = s.calm THEN s.calm ELSE "none"
  BY <1>1 DEF PaneStates
<1>4. PICK bo \in BOOLEAN : bo = (s.together /\ (s.heard = {p} \/ \A q \in Panes : s.target[q] = Still))
  OBVIOUS
<1>5. PICK H \in {{}, {"source"}, {"result"}} : H = {p}
  BY DEF Panes
<1>6. t = [s EXCEPT !.heard = H, !.calm = c, !.together = bo]
  BY <1>3, <1>4, <1>5
<1>7. /\ t \in PaneStates /\ t.due = s.due /\ t.map = s.map /\ t.target = s.target /\ t.top = s.top
      /\ t.draft = s.draft /\ t.shown = s.shown /\ t.width = s.width /\ t.update = s.update
      /\ t.heard = H /\ t.scrolls = s.scrolls /\ t.calm = c /\ t.at = s.at /\ t.together = bo
  BY <1>1, <1>6 DEF PaneStates
<1>8. SameText(s, t)
  BY <1>7 DEF SameText
<1>9. /\ \A q \in Panes : most(t, q) = most(s, q)
      /\ Drawn(t) /\ \A q \in Panes : Want(t, q) = Want(s, q)
  <2>1. /\ mapOf(t) = mapOf(s) /\ \A q \in Panes : most(t, q) = most(s, q)
        /\ Drawn(t)
        /\ \A q \in Panes : t.top[other(q)] = s.top[other(q)] => Want(t, q) = Want(s, q)
    <3>1. s \in PaneStates /\ t \in PaneStates /\ SameText(s, t) /\ Drawn(s)
      BY <1>1, <1>7, <1>8
    <3> QED BY ONLY <3>1, SameTextKeeps
  <2> QED BY <1>7, <2>1
<1>10. Within(t)
  BY <1>1, <1>7, <1>9 DEF Within
<1>11. ASSUME NEW q \in Panes PROVE Rested(t, q)
  <2> SUFFICES ASSUME t.calm = q
               PROVE  t.heard = {q} /\ t.target[q] = Still /\ q \notin t.due /\ t.top[q] = t.at
    BY DEF Rested
  <2>1. q # "none"
    BY DEF Panes
  <2>2. q = p /\ s.calm = q
    BY <1>3, <1>7, <2>1
  <2>3. s.heard = {q} /\ s.target[q] = Still /\ q \notin s.due /\ s.top[q] = s.at
    BY <1>1, <2>2 DEF Rested
  <2> QED BY <1>5, <1>7, <2>2, <2>3
<1>12. \A q \in Panes : Comes(s, q) => Comes(t, q)
  BY <1>7, <1>9 DEF Comes
<1>13. ASSUME t.together, ~ t.update PROVE \E h \in Panes : Follows(t, h)
  <2>1. PICK h \in Panes : Follows(s, h)
    BY <1>1, <1>4, <1>7, <1>13
  <2>2. t.heard = {p} /\ (s.heard = {p} \/ \A q \in Panes : s.target[q] = Still)
    BY <1>4, <1>5, <1>7, <1>13
  <2>3. s.heard = {h}
    BY <2>1 DEF Follows
  <2>4. CASE h = p
    BY <1>2, <1>7, <1>12, <2>1, <2>2, <2>4 DEF Follows
  <2>5. CASE h = o
    <3>1. \A q \in Panes : s.target[q] = Still
      BY <1>2, <2>2, <2>3, <2>5
    <3>2. Comes(s, p) \/ Comes(s, o)
      BY <1>2, <2>1, <2>5 DEF Follows
    <3>3. \/ Comes(t, o)
          \/ Comes(t, p) /\ t.target[o] = Still /\ o \notin t.due
      <4>1. CASE o \in t.due
        BY <4>1 DEF Comes
      <4>2. CASE o \notin t.due
        BY <1>7, <1>12, <3>1, <3>2, <4>2
      <4> QED BY <4>1, <4>2
    <3> QED BY <1>2, <2>2, <3>3 DEF Follows
  <2> QED BY <1>2, <2>4, <2>5
<1> QED BY <1>7, <1>9, <1>10, <1>11, <1>13 DEF GoodPanes

(* The reader scrolls a pane. *)
LEMMA ScrollKeeps ==
  ASSUME NEW s, GoodPanes(s), NEW p \in Panes, NEW x \in Nat, x # s.top[p], x <= most(s, p),
         NEW t, t = [scrolled(s, p, x) EXCEPT
                  !.scrolls = @ + 1, !.at = x,
                  !.calm = IF p \in s.heard /\ (s.target[p] = Still /\ p \notin s.due) THEN p ELSE "none",
                  !.together = p \in s.heard /\ s.target[p] = Still]
  PROVE  GoodPanes(t)
<1>1. s \in PaneStates /\ Within(s) /\ Drawn(s)
  BY DEF GoodPanes
<1>2. PICK o \in Panes : o = other(p) /\ o # p /\ other(o) = p /\ \A q \in Panes : q = p \/ q = o
  BY PaneEither
<1>3. PICK m \in Nat : m = most(s, p)
  BY <1>1, MostIs
<1>4. least(x, m) = x
  BY <1>3, LeastIs
<1>5. PICK u : u = scrolled(s, p, x)
  OBVIOUS
<1>6. /\ u \in PaneStates /\ SameText(s, u) /\ u.map = s.map
      /\ u.target = s.target /\ u.top[p] = x /\ u.top[o] = s.top[o] /\ u.heard = s.heard
      /\ u.due = IF p \in s.heard THEN s.due \cup {o} ELSE s.due
  <2>1. ScrolledTo(s, p, x, u)
    BY <1>1, <1>5, ScrolledIs
  <2> QED BY <1>2, <1>3, <1>4, <2>1 DEF ScrolledTo, SameText
<1>7. PICK n \in Nat : n = u.scrolls + 1
  BY <1>6 DEF PaneStates
<1>8. PICK c \in {"none"} \cup Panes :
        c = IF p \in s.heard /\ (s.target[p] = Still /\ p \notin s.due) THEN p ELSE "none"
  OBVIOUS
<1>9. PICK bo \in BOOLEAN : bo = (p \in s.heard /\ s.target[p] = Still)
  OBVIOUS
<1>10. t = [u EXCEPT !.scrolls = n, !.at = x, !.calm = c, !.together = bo]
  BY <1>5, <1>7, <1>8, <1>9
<1>11. /\ t \in PaneStates /\ t.due = u.due /\ t.map = u.map /\ t.target = u.target /\ t.top = u.top
       /\ t.draft = u.draft /\ t.shown = u.shown /\ t.width = u.width /\ t.update = u.update
       /\ t.heard = u.heard /\ t.calm = c /\ t.at = x /\ t.together = bo
  BY <1>6, <1>10 DEF PaneStates
<1>12. SameText(s, t)
  BY <1>6, <1>11 DEF SameText
<1>13. (\A q \in Panes : most(t, q) = most(s, q)) /\ Drawn(t)
  BY <1>1, <1>11, <1>12, SameTextKeeps
<1>14. Within(t)
  BY <1>1, <1>2, <1>3, <1>6, <1>11, <1>13 DEF Within
<1>15. s.heard \in {{}, {"source"}, {"result"}}
  BY <1>1 DEF PaneStates
<1>16. p \in s.heard => s.heard = {p}
  BY <1>15 DEF Panes
<1>17. ASSUME NEW q \in Panes PROVE Rested(t, q)
  <2> SUFFICES ASSUME t.calm = q
               PROVE  t.heard = {q} /\ t.target[q] = Still /\ q \notin t.due /\ t.top[q] = t.at
    BY DEF Rested
  <2>1. q # "none"
    BY DEF Panes
  <2>2. q = p /\ p \in s.heard /\ s.target[p] = Still /\ p \notin s.due
    BY <1>8, <1>11, <2>1
  <2> QED BY <1>2, <1>6, <1>11, <1>16, <2>2
<1>18. ASSUME t.together PROVE \E h \in Panes : Follows(t, h)
  <2>1. p \in s.heard /\ t.heard = {p}
    BY <1>6, <1>9, <1>11, <1>16, <1>18
  <2>2. o \in t.due
    BY <1>6, <1>11, <2>1
  <2>3. Comes(t, other(p))
    BY <1>2, <2>2 DEF Comes
  <2> QED BY <2>1, <2>3 DEF Follows
<1> QED BY <1>11, <1>13, <1>14, <1>17, <1>18 DEF GoodPanes

(* Other contents: the panes are within them again, and nothing is asked of them yet.    *)
LEMMA ClippedKeeps ==
  ASSUME NEW u \in PaneStates, Drawn(u), u.calm = "none", u.together = FALSE
  PROVE  GoodPanes(clipped(u))
<1>1. "source" \in Panes /\ "result" \in Panes /\ other("source") = "result"
      /\ other("result") = "source" /\ \A q \in Panes : q = "source" \/ q = "result"
  BY DEF Panes, other
<1>2. PICK x \in Nat : x = u.top["source"]
  BY <1>1 DEF PaneStates
<1>3. PICK y \in Nat : y = u.top["result"]
  BY <1>1 DEF PaneStates
<1>4. PICK v : v = scrolled(u, "source", x)
  OBVIOUS
<1>5. ScrolledTo(u, "source", x, v)
  BY <1>1, <1>4, ScrolledIs
<1>6. v \in PaneStates
  BY <1>5 DEF ScrolledTo
<1>7. PICK t : t = scrolled(v, "result", y)
  OBVIOUS
<1>8. ScrolledTo(v, "result", y, t)
  BY <1>1, <1>6, <1>7, ScrolledIs
<1>9. t = clipped(u)
  BY <1>2, <1>3, <1>4, <1>7 DEF clipped
<1>10. /\ v.draft = u.draft /\ v.shown = u.shown /\ v.width = u.width /\ v.map = u.map
       /\ v.update = u.update /\ v.calm = u.calm /\ v.together = u.together
       /\ v.top["source"] = least(x, most(u, "source"))
  BY <1>1, <1>5 DEF ScrolledTo
<1>11. /\ t \in PaneStates /\ t.draft = u.draft /\ t.shown = u.shown /\ t.width = u.width
       /\ t.map = u.map /\ t.update = u.update /\ t.calm = "none" /\ t.together = FALSE
       /\ t.top["source"] = v.top["source"] /\ t.top["result"] = least(y, most(v, "result"))
  BY <1>1, <1>8, <1>10 DEF ScrolledTo
<1>12. SameText(u, v) /\ SameText(u, t)
  BY <1>10, <1>11 DEF SameText
<1>13. /\ \A q \in Panes : most(v, q) = most(u, q) /\ most(t, q) = most(u, q)
       /\ Drawn(t)
  BY <1>6, <1>11, <1>12, SameTextKeeps
<1>14. Within(t)
  <2> SUFFICES ASSUME NEW q \in Panes PROVE t.top[q] <= most(t, q)
    BY DEF Within
  <2>1. PICK m \in Nat : m = most(u, q)
    BY MostIs
  <2>2. PICK z \in Nat : t.top[q] = least(z, m)
    BY <1>1, <1>10, <1>11, <1>13, <2>1
  <2>3. least(z, m) <= m
    BY LeastIs
  <2>4. most(t, q) = m
    BY <1>13, <2>1
  <2> QED BY <2>2, <2>3, <2>4
<1>15. \A q \in Panes : Rested(t, q)
  BY <1>11 DEF Rested, Panes
<1> QED BY <1>9, <1>11, <1>13, <1>14, <1>15 DEF GoodPanes

(* The panes as they come. *)
LEMMA PanesStart ==
  ASSUME NEW d \in Drafts, NEW w \in Widths
  PROVE  GoodPanes(ScrollOf(d, w))
<1>1. PICK s : s = ScrollOf(d, w)
  OBVIOUS
<1>2. PICK T \in [Panes -> Nat] : T = [p \in Panes |-> 0]
  OBVIOUS
<1>3. PICK G \in [Panes -> Nat \cup {Still}] : G = [p \in Panes |-> Still]
  OBVIOUS
<1>4. /\ s \in PaneStates /\ s.top = T /\ s.calm = "none" /\ s.together = FALSE
      /\ s.update = FALSE /\ s.shown = d /\ s.draft = d /\ s.map = NoMap
  BY <1>1, <1>2, <1>3 DEF ScrollOf, PaneStates
<1>5. Within(s)
  <2> SUFFICES ASSUME NEW q \in Panes PROVE s.top[q] <= most(s, q)
    BY DEF Within
  <2>1. most(s, q) \in Nat /\ s.top[q] = 0
    BY <1>2, <1>4, MostIs
  <2> QED BY <2>1
<1>6. Drawn(s) /\ \A q \in Panes : Rested(s, q)
  BY <1>4 DEF Drawn, Rested, Panes
<1> QED BY <1>1, <1>4, <1>5, <1>6 DEF GoodPanes

(* An edit. *)
LEMMA EditKeeps ==
  ASSUME NEW s, GoodPanes(s), NEW d \in Drafts
  PROVE  GoodPanes(clipped([s EXCEPT !.draft = d, !.update = TRUE, !.calm = "none",
                                     !.together = FALSE]))
<1>1. PICK u : u = [s EXCEPT !.draft = d, !.update = TRUE, !.calm = "none", !.together = FALSE]
  OBVIOUS
<1>2. u \in PaneStates /\ u.update = TRUE /\ u.calm = "none" /\ u.together = FALSE
  BY <1>1 DEF GoodPanes, PaneStates
<1>3. Drawn(u)
  BY <1>2 DEF Drawn
<1> QED BY <1>1, <1>2, <1>3, ClippedKeeps

(* The result is rendered. *)
LEMMA UpdateKeeps ==
  ASSUME NEW s, GoodPanes(s)
  PROVE  GoodPanes(clipped(Rendered(s)))
<1>1. PICK d \in Drafts : d = s.draft
  BY DEF GoodPanes, PaneStates
<1>2. PICK u : u = [s EXCEPT !.shown = d, !.update = FALSE, !.map = NoMap, !.calm = "none",
                             !.together = FALSE]
  OBVIOUS
<1>3. u = Rendered(s)
  BY <1>1, <1>2 DEF Rendered
<1>4. /\ u \in PaneStates /\ u.calm = "none" /\ u.together = FALSE /\ u.map = NoMap
      /\ u.shown = d /\ u.draft = d
  BY <1>1, <1>2 DEF GoodPanes, PaneStates
<1>5. Drawn(u)
  BY <1>4 DEF Drawn
<1> QED BY <1>3, <1>4, <1>5, ClippedKeeps

(* The window is resized. *)
LEMMA ResizeKeeps ==
  ASSUME NEW s, GoodPanes(s), NEW w \in Widths
  PROVE  GoodPanes(clipped([s EXCEPT !.width = w, !.map = NoMap, !.calm = "none",
                                     !.together = FALSE]))
<1>1. PICK u : u = [s EXCEPT !.width = w, !.map = NoMap, !.calm = "none", !.together = FALSE]
  OBVIOUS
<1>2. /\ u \in PaneStates /\ u.calm = "none" /\ u.together = FALSE /\ u.map = NoMap
      /\ u.shown = s.shown /\ u.draft = s.draft /\ u.update = s.update
  BY <1>1 DEF GoodPanes, PaneStates
<1>3. Drawn(u)
  BY <1>2 DEF GoodPanes, Drawn
<1> QED BY <1>1, <1>2, <1>3, ClippedKeeps

-----------------------------------------------------------------------------
(* The map that the handlers use. *)
LEMMA MapNowIs == mapNow = mapOf(sc)
BY DEF mapNow, mapOf, source, result

(* Every step of the panes keeps it. *)
LEMMA PanesKeep == GoodPanes(sc) /\ ScrollNext => GoodPanes(sc')
<1> SUFFICES ASSUME GoodPanes(sc), ScrollNext PROVE GoodPanes(sc')
  OBVIOUS
<1>p. PICK s, t : s = sc /\ t = sc'
  OBVIOUS
<1>a. GoodPanes(s) /\ s \in PaneStates
  BY <1>p DEF GoodPanes
<1>b. PICK M \in Maps : M = mapOf(s) /\ M = mapNow
  BY <1>p, <1>a, MapOfTyped, MapNowIs
<1>c. s.top \in [Panes -> Nat] /\ s.target \in [Panes -> Nat \cup {Still}]
      /\ "source" \in Panes /\ "result" \in Panes
  BY <1>a DEF PaneStates, Panes
<1>1. CASE Step
  <2>1. PICK p \in Panes :
          /\ s.target[p] # Still
          /\ \E x \in {least(s.target[p], most(s, p)),
                       (least(s.target[p], most(s, p)) + s.top[p]) \div 2} :
               t = [scrolled(s, p, x) EXCEPT
                      !.target[p] = IF x = least(s.target[p], most(s, p)) THEN Still ELSE @]
    BY <1>p, <1>1, Zenon DEF Step
  <2>2. PICK to : to = least(s.target[p], most(s, p))
    OBVIOUS
  <2>3. PICK x \in {to, (to + s.top[p]) \div 2} :
          t = [scrolled(s, p, x) EXCEPT !.target[p] = IF x = to THEN Still ELSE @]
    BY <2>1, <2>2, Zenon
  <2>4. GoodPanes(t)
    BY ONLY <1>a, <2>1, <2>2, <2>3, p \in Panes, StepMoves, Zenon
  <2> QED BY <1>p, <2>4
<1>2. CASE syncResultScroll
  <2>1. PICK w \in Heights : w = placeOf(M, s.top["source"] \div LineHeight)
    BY PlaceIs
  <2>2. PICK v \in Nat : v = animated("result", w) /\ (w # Gap => v = w)
    BY <2>1 DEF animated, Heights
  <2>3. ~ s.update => v = Want(s, "result")
    <3>1. Want(s, "result") = w
      BY <1>b, <2>1 DEF Want
    <3>2. ~ s.update => Want(s, "result") \in Nat
      BY <1>a, <1>c, WantIs DEF GoodPanes
    <3> QED BY <2>2, <3>1, <3>2 DEF Gap
  <2>4. "result" \in s.due /\ t = [s EXCEPT !.due = @ \ {"result"}, !.map = mapOf(s), !.target["result"] = v]
    BY <1>p, <1>2, <1>b, <2>1, <2>2 DEF syncResultScroll
  <2>5. GoodPanes(t)
    BY <1>a, <1>c, <2>3, <2>4, SyncKeeps, Zenon
  <2> QED BY <1>p, <2>5
<1>3. CASE syncSrcScroll
  <2>1. PICK r \in Nat : r = rowAt(M, s.top["result"])
    BY RowAtIs
  <2>2. PICK w \in Nat : w = LineHeight * r
    BY ScrollAssumption
  <2>3. animated("source", w) = w
    BY DEF animated, Gap
  <2>4. Want(s, "source") = w
    BY <1>b, <2>1, <2>2 DEF Want
  <2>5. "source" \in s.due /\ t = [s EXCEPT !.due = @ \ {"source"}, !.map = mapOf(s), !.target["source"] = w]
    BY <1>p, <1>3, <1>b, <2>1, <2>2, <2>3 DEF syncSrcScroll
  <2>6. GoodPanes(t)
    BY <1>a, <1>c, <2>4, <2>5, SyncKeeps, Zenon
  <2> QED BY <1>p, <2>6
<1>4. ASSUME NEW p \in Panes, MouseOver(p) PROVE GoodPanes(sc')
  <2>1. t = [s EXCEPT !.heard = {p}, !.calm = IF p = @ THEN @ ELSE "none",
                 !.together = @ /\ (s.heard = {p} \/ \A q \in Panes : s.target[q] = Still)]
    BY <1>p, <1>4, Zenon DEF MouseOver, listening
  <2>2. GoodPanes(t)
    BY ONLY <1>a, <2>1, p \in Panes, MouseKeeps, Zenon
  <2> QED BY <1>p, <2>2
<1>5. ASSUME NEW p \in Panes, NEW x \in 0..most(sc, p), Scroll(p, x) PROVE GoodPanes(sc')
  <2>1. x \in Nat /\ x # s.top[p] /\ x <= most(s, p)
    <3>1. PICK m \in Nat : m = most(s, p)
      BY <1>a, MostIs
    <3> QED BY <1>p, <1>5, <3>1 DEF Scroll
  <2>2. t = [scrolled(s, p, x) EXCEPT
                  !.scrolls = @ + 1, !.at = x,
                  !.calm = IF p \in s.heard /\ (s.target[p] = Still /\ p \notin s.due) THEN p ELSE "none",
                  !.together = p \in s.heard /\ s.target[p] = Still]
    BY <1>p, <1>5, Zenon DEF Scroll
  <2>3. GoodPanes(t)
    BY ONLY <1>a, <2>1, <2>2, p \in Panes, ScrollKeeps, Zenon
  <2> QED BY <1>p, <2>3
<1>6. CASE EditDraft
  <2>1. PICK d \in Drafts :
          t = clipped([s EXCEPT !.draft = d, !.update = TRUE, !.calm = "none", !.together = FALSE])
    BY <1>p, <1>6, Zenon DEF EditDraft
  <2> QED BY <1>p, <1>a, <2>1, EditKeeps, Zenon
<1>7. CASE UpdatePane
  <2>1. t = clipped(Rendered(s))
    BY <1>p, <1>7, Zenon DEF UpdatePane
  <2> QED BY <1>p, <1>a, <2>1, UpdateKeeps, Zenon
<1>8. CASE Resize
  <2>1. PICK w \in Widths :
          t = clipped([s EXCEPT !.width = w, !.map = NoMap, !.calm = "none", !.together = FALSE])
    BY <1>p, <1>8, Zenon DEF Resize
  <2> QED BY <1>p, <1>a, <2>1, ResizeKeeps, Zenon
<1> QED BY <1>1, <1>2, <1>3, <1>4, <1>5, <1>6, <1>7, <1>8 DEF ScrollNext

(* And it is what the panes promise. *)
LEMMA GoodPanesSound == GoodPanes(sc) => PanesSound
<1> SUFFICES ASSUME GoodPanes(sc) PROVE PanesSound
  OBVIOUS
<1>1. /\ sc \in PaneStates /\ Within(sc) /\ Drawn(sc) /\ \A q \in Panes : Rested(sc, q)
      /\ sc.together /\ ~ sc.update => \E h \in Panes : Follows(sc, h)
  BY DEF GoodPanes
<1>2. ScrollTypeOK
  <2>1. sc.heard \subseteq Panes /\ sc.due \subseteq Panes
    BY <1>1 DEF PaneStates, Panes
  <2>2. ASSUME NEW p \in Panes PROVE sc.top[p] \in 0..most(sc, p) /\ sc.target[p] >= Still
    <3>1. PICK m \in Nat, k \in Nat : m = most(sc, p) /\ k = sc.top[p]
      BY <1>1, MostIs DEF PaneStates
    <3>2. k <= m
      BY <1>1, <3>1 DEF Within
    <3>3. sc.target[p] \in Nat \cup {Still}
      BY <1>1 DEF PaneStates
    <3>4. k \in 0..m
      BY <3>2
    <3>5. sc.target[p] >= Still
      BY <3>3 DEF Still
    <3> QED BY <3>1, <3>4, <3>5
  <2> QED BY <2>1, <2>2 DEF ScrollTypeOK
<1>3. MapFits
  <2> SUFFICES ASSUME sc.map # NoMap, ~ sc.update PROVE MapFits
    BY DEF MapFits
  <2>1. sc.draft \in Drafts /\ sc.width \in Widths
    BY <1>1 DEF PaneStates
  <2>2. PICK l : l = sc.draft[sc.width]
    OBVIOUS
  <2>3. LaidOut(l)
    BY <2>1, <2>2, LaidOutDrafts
  <2>4. source = l /\ result = l /\ sc.map = buildScrollMap(l, l)
    BY <1>1, <2>2 DEF source, result, Drawn
  <2>5. PICK n, M : n = linesCount(l) /\ M = sc.map
    OBVIOUS
  <2>6. /\ n \in Nat \ {0} /\ DOMAIN M = 0..n
        /\ \A i \in 0..n : M[i] \in Nat
        /\ \A i \in 1..n : M[i - 1] <= M[i]
        /\ \A k \in 1..Len(l.blocks) : M[blockRow(l, l, k)] = l.blocks[k].top
    BY <2>3, <2>4, <2>5, MapOfOne
  <2>7. DOMAIN l.blocks = 1..Len(l.blocks)
    BY <2>3 DEF LaidOut
  <2>8. \A i \in 1..n : M[i] # Gap
    <3>1. \A i \in 1..n : i \in 0..n
      BY <2>6
    <3>2. \A k \in Nat : k # Gap
      BY DEF Gap
    <3> QED BY <2>6, <3>1, <3>2
  <2> QED BY <2>4, <2>5, <2>6, <2>7, <2>8 DEF MapFits
<1>4. StaysPut
  BY <1>1 DEF StaysPut, Rested, PaneStates
<1>5. PanesTogether
  <2> SUFFICES ASSUME settled, sc.together, ~ sc.update PROVE PanesTogether
    BY DEF PanesTogether
  <2>1. PICK h \in Panes : Follows(sc, h)
    BY <1>1
  <2>2. PICK q \in Panes : Comes(sc, q)
    BY <2>1, PaneEither DEF Follows
  <2>3. sc.due = {} /\ sc.target[q] = Still /\ Want(sc, q) \in Nat
    BY <1>1, WantIs DEF settled
  <2>4. sc.top[q] = least(Want(sc, q), most(sc, q))
    <3>1. \A k \in Nat : k # Still
      BY DEF Still
    <3> QED BY <2>2, <2>3, <3>1 DEF Comes
  <2>5. CASE q = "result"
    BY <2>4, <2>5, MapNowIs DEF PanesTogether, Want
  <2>6. CASE q = "source"
    BY <2>4, <2>6, MapNowIs DEF PanesTogether, Want
  <2> QED BY <2>5, <2>6 DEF Panes
<1> QED BY <1>2, <1>3, <1>4, <1>5 DEF PanesSound
-----------------------------------------------------------------------------
(* The page, the panes and the codec; none reads of the others what they *)
(* write.                                                                *)
DemoInv == GoodPage(page) /\ GoodPanes(sc) /\ CodecInv

(* There is something to encode. *)
LEMMA FirstJob == \E j \in Jobs : TRUE
<1>1. PICK w : w \in Words
  BY CodecAssumption
<1>2. [kind |-> "link", todo |-> <<"encode", "decode">>, first |-> w,
       job |-> jobOf("encode", w, linkChars, FALSE)] \in Jobs
  BY <1>1 DEF Jobs
<1> QED BY <1>2

(* There is a text and a width to begin with. *)
LEMMA FirstDraft ==
  (CHOOSE d \in Drafts : TRUE) \in Drafts /\ (CHOOSE w \in Widths : TRUE) \in Widths
<1>1. (\E d \in Drafts : TRUE) /\ \E w \in Widths : TRUE
  BY ScrollAssumption
<1> QED BY <1>1, Zenon

(* The demo begins so. *)
LEMMA DemoInit == Init => DemoInv
<1> SUFFICES ASSUME Init PROVE DemoInv
  OBVIOUS
<1>1. GoodPage(page)
  BY PageStarts DEF Init
<1>2. cod \in Jobs
  <2>1. CASE part = "codec"
    BY <2>1, Zenon DEF Init, CodecInit
  <2>2. CASE part # "codec"
    <3>1. cod = CHOOSE j \in Jobs : TRUE
      BY <2>2, Zenon DEF Init
    <3> QED BY ONLY <3>1, FirstJob, Zenon
  <2> QED BY <2>1, <2>2
<1>3. GoodPanes(sc)
  <2>1. CASE part = "scroll"
    <3>1. PICK d \in Drafts, w \in Widths : sc = ScrollOf(d, w)
      BY <2>1, Zenon DEF Init, ScrollInit
    <3> QED BY <3>1, PanesStart
  <2>2. CASE part # "scroll"
    <3>1. PICK d \in Drafts, w \in Widths :
            d = (CHOOSE e \in Drafts : TRUE) /\ w = (CHOOSE v \in Widths : TRUE)
      BY ONLY FirstDraft, Zenon
    <3>2. sc = ScrollOf(d, w)
      BY <2>2, <3>1, Zenon DEF Init
    <3> QED BY <3>2, PanesStart
  <2> QED BY <2>1, <2>2
<1> QED BY <1>1, <1>2, <1>3, JobsInv DEF DemoInv

(* Every step keeps it: one of the page, of the panes or of the codec. *)
LEMMA DemoKeeps == DemoInv /\ [Next]_vars => DemoInv'
<1> SUFFICES ASSUME DemoInv, [Next]_vars PROVE DemoInv'
  OBVIOUS
<1>1. GoodPage(page) /\ GoodPanes(sc) /\ CodecInv
  BY DEF DemoInv
<1>2. CASE PageStep
  <2>1. PageNext /\ sc' = sc /\ UNCHANGED codecVars
    BY <1>2 DEF PageStep, scrollVars
  <2>2. GoodPage(page')
    BY <1>1, <2>1, PageKeeps
  <2>3. CodecInv'
    BY <1>1, <2>1, CodecStays
  <2>4. GoodPanes(sc')
    BY <1>1, <2>1
  <2> QED BY <2>2, <2>3, <2>4 DEF DemoInv
<1>3. CASE ScrollStep
  <2>1. page' = page /\ ScrollNext /\ UNCHANGED codecVars
    BY <1>3 DEF ScrollStep, pageVars
  <2>2. GoodPage(page')
    BY <1>1, <2>1
  <2>3. CodecInv'
    BY <1>1, <2>1, CodecStays
  <2>4. GoodPanes(sc')
    BY <1>1, <2>1, PanesKeep
  <2> QED BY <2>2, <2>3, <2>4 DEF DemoInv
<1>4. CASE CodecStep
  <2>1. page' = page /\ sc' = sc /\ CodecNext
    BY <1>4 DEF CodecStep, pageVars, scrollVars
  <2>2. GoodPage(page')
    BY <1>1, <2>1
  <2>3. CodecInv'
    BY <1>1, <2>1, CodecKeeps
  <2>4. GoodPanes(sc')
    BY <1>1, <2>1
  <2> QED BY <2>2, <2>3, <2>4 DEF DemoInv
<1>5. CASE UNCHANGED vars
  <2>1. page' = page /\ sc' = sc /\ UNCHANGED codecVars
    BY <1>5 DEF vars, pageVars, scrollVars
  <2>2. GoodPage(page')
    BY <1>1, <2>1
  <2>3. CodecInv'
    BY <1>1, <2>1, CodecStays
  <2>4. GoodPanes(sc')
    BY <1>1, <2>1
  <2> QED BY <2>2, <2>3, <2>4 DEF DemoInv
<1> QED BY <1>2, <1>3, <1>4, <1>5 DEF Next

(* It holds at all times. *)
LEMMA DemoAlways == Spec => []DemoInv
BY DemoInit, DemoKeeps, PTL DEF Spec

(* What encode and decode promise to links, addresses and plain text: a link *)
(* carries every string of 16-bit units (but for lone halves of pairs)       *)
(* through encode and decode; encode leaves alone what it has encoded, with  *)
(* escapes kept; and decode makes of any bytes, however broken, text without *)
(* a lone half, with their letters and no others. For every set of strings   *)
(* and of byte sequences, of any length.                                     *)
THEOREM CodecAlwaysSound == Spec => []CodecSound
<1>1. DemoInv => CodecSound
  BY CodecInvSound DEF DemoInv
<1> QED BY <1>1, DemoAlways, PTL

(* The panes of the demo go together by a map that fits the text, are where  *)
(* the map says when they come to rest, and leave the pane alone that the    *)
(* reader scrolls. For every set of drafts whose lines and blocks are laid   *)
(* out in order, every width of the window and every height of a pane and of *)
(* a row, however often the reader scrolls.                                  *)
THEOREM PanesAlwaysSound == Spec => []PanesSound
<1>1. DemoInv => PanesSound
  BY GoodPanesSound DEF DemoInv
<1> QED BY <1>1, DemoAlways, PTL

(* With no update to come, the active view of the demo shows the text under  *)
(* the options as they are: whatever was written, chosen, cleared or loaded, *)
(* for every set of texts, options and links, and every length of the        *)
(* debounce. The safety part of ShownAtLast.                                 *)
THEOREM ShownIsAlwaysCurrent == Spec => [](PageTypeOK /\ ShownIsCurrent)
<1>1. DemoInv => PageTypeOK /\ ShownIsCurrent
  BY GoodSound DEF DemoInv
<1> QED BY <1>1, DemoAlways, PTL

(* The permalink is always of what its view shows, and a page that is loaded *)
(* by its own permalink looks as it did.                                     *)
THEOREM PermalinksSound == Spec => LinkSound
<1>1. DemoInv => LinkIsOfShown
  BY GoodSound DEF DemoInv
<1>2. DemoInv /\ [Next]_vars =>
        [OpenPermalink /\ page.href # NoLink /\ page.due = NotDue
           /\ ~page.unheard /\ ~page.failed =>
           /\ page'.text = page.text /\ page'.opts = page.opts /\ page'.view = page.view
           /\ page'.pane[page.view] = page.pane[page.view]]_page
  BY PermalinkRestores DEF DemoInv
<1>3. Spec => []LinkIsOfShown
  BY <1>1, DemoAlways, PTL
<1>4. Spec => LinkRestores
  BY <1>2, DemoAlways, PTL DEF Spec, LinkRestores
<1> QED BY <1>3, <1>4 DEF LinkSound
=============================================================================
