# TLA+ models of otus-java-2017-10-kirillov

The repository is a series of Java programs that build on each other: exercises (hw01-hw05, hw08),
a cash machine (hw06-07), an object-relational mapper with a cached DAO (hw09-10), a cache engine
(hw11), a parallel sort (hw14) and a web application (`web-server`) that puts the cache, the DAO and
a message system together. The pages of the web application come with two large scripts:
`bootstrap.js`, the page widgets, and `index.js`, a bundle of a markdown demo, its markdown plugins, a syntax
highlighter and a URL codec. This directory models the parts that keep state and meet
concurrency, failure or long protocols, checks them with TLC on small instances and proves some of the
results with TLAPS for every instance.

## Inventory

| Part | State | Operations | What it talks to | What is hard | Modelled by |
|---|---|---|---|---|---|
| Remote operations (`web-server`: `model/transport`, `model/channels`, `utils/WorkerUtils`, `GetCacheStatsSocketController`) | two blocking queues, a fixed pool of endless loops, `messageCorrelations`, futures, connected pages | a page's message, send, the two loops, service, answer, callbacks | web socket, invoker, cache engine | two threads between a request and its answer; endless tasks in a bounded pool; futures without a timeout; pages that leave | `RemoteOps`, `RemoteCall` |
| Start-up (`WebServerConfiguration`, `WebServer`) | which beans exist | the beans, in Spring's order | all of the above | loops and socket run before the service has subscribed | `RemoteOps` (boot) |
| Sessions (`StubAuthServiceImpl`, login and logout commands, `CommandInvoker`) | active session ids | login, logout, check | servlets, web socket | the check and what follows it are apart | `RemoteOps`; servlets, views and passwords are not |
| Cache engine (hw11) | map of soft references, a timer, counters | put, get, delete, reset, dispose, getStats, two timed evictions, LRU eviction | callers, timer thread, garbage collector | no lock anywhere: every compound operation meets every other between two accesses; removing what is gone throws | `CacheEngine` |
| Cached DAO (`CachedProxyDao`) | the cache, the database, the object in the caller's hands | read, readAll, saveOrUpdate, delete | cache engine, Hibernate DAO | database and cache are changed one after the other and either may fail; the cache hands out the object itself | `CachedDao` over `CacheEngine` |
| Hibernate DAO | a transaction per call | as the DAO | database | a transaction that fails | as part of `CachedDao` |
| MyORM (hw09-10 `myorm`) | the rows as the one connection sees them, and as committed | saveOrUpdate, delete, load of users, addresses, phones | JDBC connection | one call is a tree of nested commands under one transaction; commit in `finally`; no foreign keys | `MyOrm`, `MyOrmTables`, `ObjectStore` |
| Schema and SQL generation, reflection | descriptors, made once | - | MyORM | - | only the tables that result |
| Service registries, factories, configuration | maps filled once | - | - | - | not modelled |
| ATM and department (hw06-07) | notes per cell, initial states, list of machines | deposit, withdraw, balance, restore, restoreAll | - | a withdrawal calculates first and takes afterwards, and may be refused half way; one machine of several fails | `Atm` |
| Parallel quick sort (hw14) | the list, a semaphore, a task queue | partition, submit, insertion sort, wait for the end | thread pool | shared list without a lock; end detected by acquiring every permit | `QuickSort` |
| Page widgets (`bootstrap.js`) | classes of elements, one object per element, timers, callbacks that wait for transitions | clicks, keys, scripts, mouse and focus, scrolling, timers, ends of transitions | the page, handlers that prevent events | an end of a transition names no transition: whoever waits on the element is called, with what the object is by then; the reader acts in between | `BootstrapPage` and the eleven modules of its widgets |
| Syntax highlighter (`index.js` 1-1000) | the buffer, the stack of modes, the spans, stacks of languages within | highlightBlock, highlight, highlightAuto, initHighlighting, merging with the block's markup | the page's blocks, the grammars | lexemes kept, handed on or put back; spans cut at elements; a block highlighted again | `Highlighter`, `HighlightBlock`, `MCHighlightBlock` |
| Markdown plugins (`index.js`) | the parser's frames, tokens and environment (notes, abbreviations), indents and last line of the blocks | the rules of nine plugins | markdown-it, which is not in the repository | odd markers moved among tokens; notes numbered while they are read; indents lent to inner blocks and given back | `MarkdownPlugins` over `InlineRules`, `TextRules`, `MarkdownDocument`, `BlockPlugins` |
| Markdown demo (`index.js` 9675-10017) | text, options, three views, permalink, two panes and the map between their lines | edit, option, view, link, debounced update, scroll, resize | the renderer, the codec, the browser's timers | only the active view is rendered, the update is put off; each pane's scrolling moves the other | `DemoPage`, `ScrollSync` |
| URL codec (`index.js`) | none | encode, decode | permalinks and addresses | UTF-8, surrogates, escapes cut off | `UrlCodec` |
| MyArrayList (hw03) | array and size | the operations of `List` | - | shifting and growing | planned |
| Test framework (hw05) | results of test cases | run a test case | - | failures in @Before, @Test, @After combined | planned |
| JSON serializer (hw08) | none | toJson | - | choice of adapter, recursion | planned |
| hw01, hw02, hw04 | - | library call, object sizes, GC statistics | JVM | the results are the JVM's | not modelled |
| other resources (`socket.io.js`, styles, templates, properties) | - | - | - | minified or without behaviour | not modelled |

What makes the parts correct, in short: an answer for every request, once, and to the one who asked
(remote operations); a bounded cache whose evictions go on whatever they run into, and take the right
elements (cache); a cached object that is its row, or is gone soon (DAO); all of a user or nothing of
it (MyORM); money that is somewhere (ATM); a sorted list when the call returns, and a call that
returns (sort); widgets that come to rest in a state the page can be in (widgets); text that is neither
lost nor doubled, under spans, tags and blocks that nest (highlighter, plugins); panes and permalinks that
belong to the text (demo); what goes in comes out (codec). `PROJECT.json` lists the hazards one by one with
the lines where they bite.

The pages load the minified `bootstrap.min.js`; the models follow the readable copy beside it, whose
version is the same. No page of the repository refers to `index.js`: it is modelled as the program it is.

## Modules

### RemoteOps, RemoteCall, MCRemoteOps

An operation `o` stands for one message of a page, the `Header` made for it and its future.

| State | Code |
|---|---|
| `boot`, `loops` | beans made so far; endless tasks submitted to `workersPool`: the first `PoolSize` of them run, the rest stay in the executor's queue for good (`Serves`) |
| `active`, `issued` | `StubAuthServiceImpl.activeSessions`, UUIDs handed out |
| `pc` | the socket event handler of each message, then its callbacks |
| `messageCorrelations`, `future` | `AsyncMessageClient` |
| `f2c`, `c2f`, `worker` | the two `LinkedBlockingQueue`s; what each pool thread is doing |
| `answer`, `connected`, `gone` | events sent to pages; pages still connected, and those that have left by themselves |

Every step that another thread can observe is an action: registering the future and offering the
message are two, taking a response out of the correlation table and completing the future are two.
A page may close its socket at any time (`Leave`): the controller has a listener for connects only, so handler, request and
callbacks of the page go on and their event arrives nowhere. What takes an answer from a page that has not left is the
`client.disconnect()` behind an error or a refusal of another of its messages (`SendError`, `SendRefusal`).
`RemoteCall` is the abstract promise: an operation is called, executed once, answered with the outcome
of that execution. `ImplementsRemoteCall` maps `status` and `outcome` to the state above and includes
the liveness of `RemoteCall`. Values carried by responses are abstracted to "value or exception".

Fairness: the main thread goes on making beans (`WF(Boot)`), a pool thread that has something to do,
an entered handler and a due callback go on. Each is a thread that the JVM schedules; nothing is
assumed of pages, logins and logouts.

### CacheEngine

`inner` is the `ConcurrentHashMap` with what each soft reference holds (value, age, idle time, cleared);
`call[t]` is the engine call thread `t` is in, with the keys it has still to remove. A snapshot
(`keySet`, `entrySet`) is taken in one step and worked off one key a step, as the code's streams do it;
removing a key that another thread has removed throws. `GcClear` clears a reference whose element no
running eviction holds. Time is ticks; ages are counted to one past the longer duration. The timer's
tasks come at any time (their period is not part of the model), and go on until the timer is cancelled.
Left out: the hit and miss counters, and a second timer after `reset`.

### CachedDao

Extends `CacheEngine` by `db` (committed rows), `dao` (the DAO operation in progress), `held` (the
object the caller has; `shared` if it is the very object in the cache) and the history `dirty`. Every
call of the engine is made of the engine's own actions, so each DAO operation meets the timer and the
collector wherever the code lets it. A Hibernate call is one transaction: it commits or throws.
Fairness: the DAO thread and the threads inside engine calls go on, the timer's tasks come time and
again (strong fairness, since a task that is running disables the next), time passes.

### MyOrmTables, ObjectStore, MyOrm

`MyOrmTables` holds the data: the objects of `model`, the tables their annotations make, and what
reading them takes. `UserReads` says when a stored user can be read at all: the address its row
names exists (`SelectCommand` takes the first element of a select without looking, line 104) and none of
its phones lacks a number (`Collectors.toMap`, line 137, refuses null). `MyOrm` runs `SaveOrUpdateCommand` and
`DeleteCommand` statement by statement: `db` is what the connection sees, `committed` what survives a
rollback, `at`, `call`, `todo` are the position in the command. Any statement may throw; the rollback of
`catch` and the commit of `finally` are two steps. A null list of phones is an empty one, and a user's age
goes with its name. `ObjectStore` is the promise: a user is saved or deleted as a whole, or not at all;
`ImplementsStore` is the refinement with `store <- committed`.
There are no concurrent callers: the connection is shared without any protection, and the program
makes its calls one at a time.

### Atm, MCAtm

`banknoteCount` per cell, the department's list `atms`, how far a round of restoring has come (`restoring`), the last `answer`, and two histories: `ledger`
(brought minus paid) and `short` (machines that a withdrawal refused half way has taken notes from). The program is
sequential, so each command is one action that says what the command has done when it returns or
throws - including a withdrawal whose second pass the rack cuts short. The department's restore is the exception: its loop
(`NamedATMDepartment`, line 45) is a step for each machine of the list, which is restored (`RestoreMember`) or, if it is
of `Broken`, may throw (`MemberFails`), and an end that names those that threw in an `UndoNamedATMException` (`RoundEnds`).
Deposits that would fill a cell past `MaxNotes` are not made: that bound is the model's.

### QuickSort

`lst` is the list, `permits` and `waiting` the semaphore with the JDK's queue, `tasks` the executor's
queue, `thread` the position, range and pivot of each thread. The semaphore is not fair: a thread that
finds enough permits takes them past those that wait, whereas those in the queue are served in their
order, the first one's whole demand before anyone behind it (`AbstractQueuedSynchronizer`, from
which `Park` and `Unpark` are modelled). A partition is any result `randomPartition` has for any pivot;
it and the insertion sort of a range are one step each, since no other thread is in the range -
which is what `RangesDisjoint` checks.
Fairness: each thread that can go on does.

### BootstrapPage, Transitions, and the widgets

`Transitions` holds what the widgets of `bootstrap.js` share: whether the page has CSS transitions
(`transition`) and which events the application's handlers prevent (`veto`). A callback that waits for
`bsTransitionEnd` is an entry in its widget's `ends` or `waits`; the end of the transition, from the browser or from
the timer of `emulateTransitionEnd`, calls all that wait on the element, in the order of registration. When it comes is
open, that it comes is the fairness. JavaScript runs a handler to its end, so a click, a key, a call, a timer and an end
are one action each.

| Module | State | Left out |
|---|---|---|
| `Alert` | per alert: class `in`, in the page or not, the plugin's object, waiting removals, `closed` events heard | |
| `Button` | a group of radio buttons or check boxes; a button with its texts, `disabled` and the timers of `setState` | |
| `Dropdown` | open menus, backdrop, disabled toggles, the focus | menus without items |
| `Tab` | the active tab, the classes of each pane, waiting switches | tabs in drop-down menus |
| `Carousel` | active and coming item, indicator, intervals the browser has, calls of `to` put off | touch |
| `Collapse` | per panel: classes, its object and whether a panel's parent is known to it, waiting completions; the links' class | `height` and reflow |
| `Modal` | per dialog: `isShown`, classes, backdrops in the page, what waits; the body's class, padding and focus trap | remote content |
| `Tooltip` | `hoverState`, the timer of enter or leave, the tip in the page, waiting callbacks; popovers are tooltips that click; `placed`: where the tip and its arrow were put last, in whole numbers | content, sanitising |
| `ScrollSpy` | the page's layout, the offsets of the last refresh, the active entry | |
| `Affix` | scroll position, page height, `affixed`, the `unpin` distance, the timer after a click | |

Reading options from `data-` attributes, `noConflict` and the plugin wrappers' handling of strings are left
out throughout. Histories (`hurried`, `hasty`, `stacked`, `haste`, `scripted`, `mishaps`, `hovered`, `over`,
`direct`) mark what the reader or the scripts have done; where a property excepts one, its comment says what
the code does then. The widgets share no state but the page's, so `BootstrapPage` composes them as parts of which
one behaviour exercises one (`widget`): the state space is the sum of theirs and not the product.

### Highlighter, HighlightBlock, MCHighlightBlock

A text is a sequence of the pieces that a grammar's patterns keep apart; a regular expression (`re`) is a sequence of
sets of pieces and the place where it may match. `Highlighter` has the functions of `index.js` that work on the stack
of modes (`compileMode` as a work list over the modes that a language reaches, `subMode`, `endOfMode`, `startNewMode`,
`processBuffer`, `processLexeme`, the loop of `highlight`, `highlightAuto`) as operators on a run: text,
position, stack, buffer, items so far, the stacks of languages left off inside it, relevance. `HighlightBlock` has
the events and calls that begin (`LoadEvent`, `CallHighlightBlock`) and what `highlightBlock` then does: a `Lexeme` a
step, `NextLanguage` of those tried, a `MergeEvent` of `mergeStreams` a step where the block has elements of its own, and
`Replace`. The script does all that without a pause: the steps are for the invariants to see each
intermediate state, and no event comes between them. The grammars are constants (`Modes`, `Languages`,
`aliases`, with `GrammarAssumption`); `MCHighlightBlock` gives json, ini, diff, xml, django and php of the file's fifty,
which between them put sub-languages, continuations, skipped, excluded and returned lexemes, modes that end with their
parent, and illegal lexemes to use. Left out: `fixMarkup` and `useBR` (off by default), `beginKeywords`, case folding, the
escaping of characters, and the other tables, which are data.

### MarkdownPlugins, MarkdownDocument, BlockPlugins, InlineRules, TextRules, MCMarkdown

`InlineRules` has the inline rules of inserted and marked text, sub- and superscript, inline notes and references as
operators from a parser's state (a frame: source, position, tokens, delimiters) to the next; `TextRules` has what is done to finished texts,
abbreviations and emoji. `MarkdownDocument` follows one text through the parser's phases (`md.phase`): the
definitions in its lines, the paragraphs character by character with a frame for each note within a note, the
notes put at the end, the replacements. `BlockPlugins` follows a page of lines through the rules for containers and
definition lists, with a frame for each rule that reads inner blocks: what a rule borrows of the parser's state
(indents, last line, tightness) is in the state and has to be given back. A line of a page has an indent, the
widths of the marks of definitions on it and what follows them (`PageLines`). markdown-it itself, its paragraphs,
code blocks, delimiters and the order of its rules, is not in the repository: what is needed of it is
marked external. Texts and pages of blocks are separate readings (`part`), since a rule of the one reads nothing of the other:
of `Spec` the behaviours with `part = "blocks"` are those of `BlockPlugins`' own `BlocksSpec`, and the others leave `bl` an empty page.
Renderers of single tokens are left out.

### MarkdownDemo, DemoPage, ScrollSync, UrlCodec, MCMarkdownDemo

`DemoPage` is the page's script: the text, the options and the copy `mdInit` has made of them, what each view shows and
from which text and options it was made, the permalink, and the debounced update with its two waits (`due`).
`ScrollSync` is the two panes: their positions, the pane under the mouse, animations, the debounced handlers and the
map from lines to places (`buildScrollMap`) in two widths of the window. Of the browser's layout it takes only that blocks follow one
another as their lines do, each at a line of the text and within the height of them all (`LaidOut`). Rendering never throws here (`DemoPage` has that),
so that a map that outlives a rendering that failed is not met. `UrlCodec` has `encode` and `decode` on
16-bit code units. Left out: the language prefix, tooltips, the classes of the body. Each reads of the
others only what it has as a constant, so a behaviour follows one of them.

## Runs

| Run | Instance | What it shows |
|---|---|---|
| `remote` | 3 messages of 2 pages, which may leave at any time, 1 session, the shipped pool of 4 threads and 2 workers per channel; 400,287 states | `NoneLostOrDoubled` (`OneCopyInFlight`; `UndeliveredOnlyToGone`: an answer is dropped only because its page has left or another of its messages failed); `CorrelationsMatchPending`; `NoRequestBeforeService`: the window during start-up is closed by the session check and only by it; `ImplementsRemoteCall`, with liveness |
| `cache_one` | 3 keys, room for 2, one caller, one poller, timer, collector; 2.8 million states, keys symmetric | `EngineInOrder`: the size bound holds with one thread that puts, and reset empties; `LeastRecentlyUsedGo` |
| `dao` | 2 rows, 2 values, room for 1, so that every put may evict; 778,803 states | `CacheInOrder`: a cached object is its row, except after a put that threw or a change in place (`CacheMatchesRow`); `StaleGoes`: such an object goes in the end, which needs the timer to survive its exceptions |
| `orm` | 2 users, 1 address they may share, 2 phones, 2 values; 1.1 million states, symmetric | `TablesInOrder`: no phone outlives its user; `SavesSound`: what was saved is what is read, and saving a user never makes another unreadable; `ImplementsStore`: MyORM implements the object store, whatever statement throws |
| `atm_safety` | 2 machines, one of which cannot be restored; 3 types, two cells of one type; 43,310 states | `BooksInOrder`: money in minus money out is what is there; `PaidInFull`: a withdrawal hands out its sum and takes no more; `FullerCellsFirst`; `RestoredIndependently`: a machine that throws in the middle of a round keeps none behind it from being restored |
| `atm_lost` (violation) | the same | a withdrawal refused half way keeps the notes taken so far |
| `sort` | 3 threads, every list of 0, 2 and 5 elements over two values and the equal lists of 6, which make threads wait; threshold 1; 1,267,793 states | `RangesInOrder`: no two threads in one range, parts in order; `SortedWhenReturned`; `ReturnsOrBlocked`: the sort returns, or stops for good with every thread that has work parked behind the caller - no other way of stopping |
| `sort_stuck` (violation) | 4 threads, 6 equal elements; 1.1 million states | the caller's wait for all permits and a pool thread's wait for one block each other for ever |
| `widgets` | 2 alerts and modals; 3 labels, menus, tabs, slides and panels; 4 layouts of a page, 3 heights, two close together; tips in the body and in three boxes; panels any of which are open in the page; 99,265 states | a property for each widget, see below |
| `highlight` | texts of up to three pieces in every language and longer ones with languages in one another, plain, with markup of their own, with odd classes; each highlighted by events and scripts; 264,282 states | `TextKept`: the items' text is the block's at every lexeme, and the loop ends; `SpansNested`: the open spans are those of the stack, also across sub-languages and after merging; `BestDetected` |
| `markdown` | texts of up to 7 characters of those a plugin cares for, notes in several lines, abbreviations; pages of up to 4 lines of 13 kinds, of 5 lines of fewer; 558,464 states | `MarkersPaired`, `NotesAgree`, `WordsWhole`, `BlocksRead`, see below |
| `demo` | 3 texts of which one cannot be rendered, 2 options, 4 links; 2 drafts in 2 widths, panes of two rows and a half; strings of up to 4 code units, runs of up to 4 bytes; 587,026 states | `ShownAtLast`, `LinkSound`, `PanesSound`, `CodecSound`, see below |

A property of a widget or a plugin is the conjunction of named parts, each stated with its comment beside the code it
is about:

- `AlertSound`: an alert is closed once (`ClosedOnce`), and goes (`FadedAlertGoes`).
- `ButtonSound`: pressed is checked; disabled exactly if `loading` was asked for last; the button's own text comes back.
- `DropdownSound`: one menu open; the backdrop never without one, also after a click on a disabled toggle or a show that was prevented, which
  goes on to the document and clears the menus (813); Escape leaves the focus on the toggle.
- `TabSound`: at rest some pane is seen, and the active tab's where nobody hurried; it does come.
- `CarouselSound`: one item active, the indicator with it; one interval at most; no motion under the mouse; nobody who
  called `to` forgotten; slides end.
- `CollapseSound`: no panel waits for what does not come; in an accordion one panel is open and links tell so; moves end.
- `ModalSound`: all there or all gone; the page given back with the last; a shown modal appears.
- `TooltipSound`: a tip nobody asks for goes, one that is asked for comes and is not taken away.
- `PlacementSound`: in the viewport, the arrow at the element, and on the side that has room if the element's parent is the body or measures
  as much as the window in that direction.
- `ScrollFollowed`: the active entry and the pinned element are what the place calls for, whatever came before.
- `MarkersPaired`: no character lost or shown twice, tags nested, each marker with the partner it should have.
- `NotesAgree`: references lead to their notes and the ways back to references; only nested definitions make it fail.
- `WordsWhole`: every abbreviation and the longest emoji, at whole words.
- `BlocksRead`: every line once, blocks nested, fences matched, the parser's state put back, tight and loose told apart.
- `ShownAtLast`: the active view shows the text with the options, at the latest when no update is due; updates come.
- `LinkSound`: the permalink is of what is shown and opening it brings that back.
- `PanesSound`: the map fits the text; panes at rest are together; the pane under the mouse stays where it was put.
- `CodecSound`: a link carries any text but for halves of characters, encoding twice is encoding once, and broken bytes make no
  half characters and swallow no letters.

**Bounds.** Two of each kind of thing that interferes (pages, users, machines, rows, values) and three
where the third makes a difference: three messages let two of one page overtake each other while
another page asks; three keys with room for two let an eviction spare something; three pool threads
leave one to finish what two wait for; three tabs let one be clicked while another two change places. The threshold of the
sort is 1 rather than the code's value, so that
lists of five are partitioned twice, and equal lists of six, whose partitions are all as uneven as can be, block three or four threads. `ReturnsOrBlocked` has also been checked
with four threads on lists of six and with three on lists of seven; permits, tasks and threshold enter the code only through the formula
`listSize + 2 - threshold`. Ages, notes and queues have the bounds named above.
In `MyOrm` two values and a missing number suffice to tell an old row from a new one and a phone that
reads from one that does not. In the widgets `AlertBound`, `SwitchBound`, `TimerBound`, `WaitingBound`, `CurtainBound`, `HideBound` and
`TipBound` say how many callbacks of one kind may wait at once: one more than it takes for two to meet, but for
`HideBound`, which is one in the run, so that no two hides of one dialog wait at a time there; with two (147,885 states) the run passes as well,
and the proof is of any bound. `Boxes` are the measures of a tip's parent that is not the body.
Every set of panels may be open when the page is loaded. The
markdown texts are as long as the shortest that make two odd markers meet a pair of the other kind, five lines
are a list within a container within a list. The codec's strings hold the ends of every length of UTF-8, both halves of
surrogate pairs and cut-off escapes. `ScrollBound` and `CallBound` count what readers and scripts may do.

**Fairness of the scripts.** What the browser promises and no more: timers ring (`ButtonTimer`, `AffixTimer`,
`TipTimer`, `Slid`, `Tick`, `Update`), transitions end (`AlertEnd`, `TabEnd`, `SlideEnd`, `CollapseEnd`, `HideEnd`, `CurtainEnd`,
`TipEnd`, which `emulateTransitionEnd` sees to where the browser sends no event), and a script that
has begun goes on (`Proceeds`). Nothing is assumed of the reader, who may never pause.

**Deadlock** is checked except where something really ends: `quickSort` returns, and where it stops short
`ReturnsOrBlocked` says how, and `sort_stuck` that it does; in `widgets`, `highlight`, `markdown` and `demo` an alert that is closed, a block that has
been highlighted by all who do, a document that has been read and a string that has been decoded are done, and the
liveness properties and the invariants of what is finished say that it is not too early. In `RemoteOps` the loops
wait for more messages when all are dealt with; `Quiet` stands for that, and any other stop is a deadlock.

**Mutants.** Every property of a passing run has mutated definitions (`..._suffix`, next to the original) that
break it the way a slip in the code would, one for each of its named parts where it has several.

## Proofs

Each `..._proofs` module extends the module of its component and proves, for every value of the constants that
the named assumptions allow, what the runs show on one instance. There are 33 such results in eight modules; 24 of them state a property of a run by name.
Every inductive invariant below was a run's invariant first, except `BlocksInv`, which says that ghost states of frames
exist: TLC would have to guess them.

| Module | Theorems (property) | Assumptions |
|---|---|---|
| `RemoteOps_proofs` | `TypeCorrect` (`TypeOK`), `CorrelationsCorrect` (`CorrelationsMatchPending`), `StartupSafe` (`NoRequestBeforeService`), `NothingLostOrDoubled` (`NoneLostOrDoubled`), `RemoteCallSafety` | each message has a page, at least one worker of each kind and one thread, `NoOp` is no message |
| `MyOrm_proofs` | `StoreImplemented` (`ImplementsStore`), `TablesStayInOrder` (`TablesInOrder`), `SavesAreSound` (`SavesSound`) | `Null` is no user, address, phone, value or object |
| `CachedDao_proofs` | `EngineStaysInOrder` (`EngineInOrder`), `EvictsOldest` (`LeastRecentlyUsedGo`), `CacheStaysInOrder` (`CacheInOrder`) | a cache that holds something and a reduction that removes something, times that are numbers, callers, pollers and timer apart; one caller, the DAO thread, which the engine's own run assumes as well |
| `QuickSort_proofs` | `Invariant`, `TasksStayInOrder` (`RangesInOrder`), `ReturnsSorted` (`SortedWhenReturned`) | lists of integers, a finite pool without the caller, a threshold in `Nat` |
| `Atm_proofs` | `BooksStayInOrder` (`BooksInOrder`), `PaysInFull` (`PaidInFull`), `TakesFromTheFullest` (`FullerCellsFirst`), `RestoresAllItCan` (`RestoredIndependently`) | finitely many cells, notes and currencies (`FinitenessAssumption`), positive nominals that tell the notes of a currency apart |
| `BootstrapPage_proofs` | `ButtonsTellTheTruth` (`ButtonSound`), `TipsArePlaced` (`PlacementSound`), `ScrollIsFollowed` (`ScrollFollowed`), `MenusStaySound` (`DropdownSound`); the safety parts `AlertsCloseOnce` (of `AlertSound`), `CarouselStaysSound` (of `CarouselSound`), `TabsStaySound` (of `TabSound`), `TipsComeAndGo` (of `TooltipSound`), `AccordionsStaySound` (of `CollapseSound`), `DialogsGiveThePageBack` (of `ModalSound`) | a finite group of labels, finitely many menus, tabs, panels and dialogs; at least one slide; bounds in `Nat` on what waits; a viewport that a tip and its padding fit in (`ViewportAssumption`; a smaller one `getViewportAdjustedDelta` cannot satisfy); parts whose offsets are sorted, as `refresh` sorts them, with only the first at the very top (`ScrollSpyAssumption`); a head and a foot that do not meet on the screen (`AffixAssumption`) |
| `MarkdownDemo_proofs` | `CodecAlwaysSound` (`CodecSound`), `PanesAlwaysSound` (`PanesSound`), `PermalinksSound` (`LinkSound`), `ShownIsAlwaysCurrent`, the safety part of `ShownAtLast` | strings of 16-bit units and sequences of bytes, at least one string (`CodecAssumption`); drafts that are `LaidOut` in every width, at least one of each (`ScrollAssumption`); texts and links of the right types, the empty text renders (`DemoAssumption`) |
| `BlockPlugins_proofs` | `BlocksAlwaysRead` (`BlocksRead`), of `BlocksSpec` | pages whose lines are of `PageLines`, whose marks have at least one blank and something behind them (`PagesAssumption`; `skipMarker` refuses others) |

None of these properties but `TypeOK` and what speaks of a single step is inductive. The arguments:

**Remote operations.** `IInv`: a response finds its future because no future exists before registration
(`FuturesRegistered`), only what was sent has anything under way (`OnlySentUnderWay`) and a busy thread holds an
operation and, after the service, an outcome (`WorkersBusy`); no request comes before the service because there is no session
before the servlets (`SessionsAfterServlets`). `FlightInv` adds where an operation is: `NoneTwice` instead of
counting - no two entries of queues and threads are the same operation - `UnderWayWhilePending`, and how
handler, future and answer belong together (`HandlersAgree`). `PagesToldBefore`: a page that is not connected has left or was told of an error
or a refusal before, so whatever reaches nobody has one of the two reasons. From it `OneCopyInFlight` is a
set with at most one element. For the refinement the abstract state is read off where the operation ran (`Ran`,
`RanOnce`, `AbstractState`), and each step is one of `RemoteCall`'s or a stutter. The liveness that
`ImplementsRemoteCall` also contains is TLC's.

**MyORM.** `Progress` says for each position in a command how far the rows the connection sees are ahead of the
committed ones: by just what the statements so far have done (`Written`, `Loaded`, `RowGone`). So the commit
publishes a whole save or delete, which is a step of `ObjectStore`, and anything else is a stutter; `OwnersExist` follows
because the owner's row is written before the phones'.

**Cache engine and DAO.** `EngineIInv`: one thread puts; a put that has evicted has room, and its remaining victims have been
idle as long as what they leave, whatever expires or is cleared meanwhile (`PutSound`); a reset has all the keys it
has still to remove and no other is there (`ResetSound`). The DAO's `IInv` adds that what is on its way into the
cache is its row (`OperandsSound`), that the engine call is the one the DAO waits for (`CallsAgree`), and that a
deleted element goes before its row does (`RowsAgree`). The timer's and the collector's steps are summed up in `EngineWorks`, so
that each DAO step is met by one lemma and not by twenty.

**Quick sort.** The list is always a rearrangement of the input, by a permutation (`Rearranged`), which gives the same
values as often (`Typed`, and counting through a bijection). `Counted` accounts for every permit: free, spent on a task that is queued or
worked on, or held by a thread that is about to submit. `Apart` and `Ordered` speak of the ranges of queue and
threads. When the caller holds all permits nobody has a range, so all pairs are in order. That
`partition` divides and `insertionSort` sorts is proved of the code's own loops: their recursive functions have a
solution (`ScanExists`, `SortedExists`), and the loop invariants (`PassSound`, `InsertSound`) are kept from one element
to the next by induction over an interval.

**ATM.** For the books the invariant is `BooksInOrder` itself with the types; the work is in the sums. `SumIs` unfolds
`SumFunctionOnSet` once, `SumsAreInt`, `SumMinus`, `SumPart`, `SumZero` and `SumOfOne` follow by induction over the
subsets of a finite set. For the department `RoundSound` is the loop's invariant: each machine the round has come past is restored or noted as failed, and stays so. The first pass calculates a pack that is worth the sum, the second takes from the fullest cells what they have, so
what a machine loses is what was handed out, or less when it is refused half way.

**Widgets.** `PageInv` is one invariant for each of the eleven widgets; a step of any other widget leaves its variables alone. For the
button with states, `TimersAgree`: the last timer in line is that of the state asked for last, and only one that loading
disabled is enabled. For the scroll spy, `SpyInv`: after two scrolls the active entry is what `process` makes of the
right offsets, from whatever was active, and `ProcessFinds` shows that this does not depend on what was. For the pinned element, `AffixInv`:
the first check at a place leaves it `Checked`, and the second, from there, `Settled`, whatever the position,
height and state before (`CheckSound`, over the cases of `ZoneIs`). The tip's placement is computed anew each time, from any parent: its
property is its own invariant. So are the menus': every click clears all of them, by its handler or by the document's. An alert that has been removed has
no listener left (`AlertSafe`), so that later ends of its transitions tell nobody. For the carousel, `SlideSound`: while it slides one callback
waits, for the item that the indicator names already, and at rest none; `IntervalHeld`: the browser runs an interval
exactly while the object holds one. For the tabs, `PaneMoving`: unless somebody hurries, one pane fades out with one switch waiting,
to the tab that was clicked. For the tip, `TipSafe`: an unasked tip that is there still has a timer or an end of a hide to
come which hoverState does not stop (`Forgotten`), and of an asked one, unless it flickers, the ends of
hides run before those of shows and find hoverState in (`HidesFirst`). For the panels, `PanelSafe`: an object made for a hide is taken away in
mid-transition only from a panel that was open and so had nothing waiting; its callback is lost, the next object's is the second and
refuses calls, so two wait at most; `AccordionCalm`: where the links alone are used, one panel at most is open or
on its way to be (`Opened`), and the links tell just that, also for a panel that was open in the page and has no object or a lost callback (`PanelCalm`: what is lost is a hide's). For the dialogs, `ModalOrderly`: unless somebody hurries, a modal is
gone, coming behind its backdrop, there, leaving, or lifting its backdrop, and each wait finds it in the state
that began it; `Given`: unless modals are stacked, one is shown at most and the body's class and padding are
its. The hides that wait may each raise a backdrop where the modal was shown again; `TurnSafe` counts the room for them. What waits for a transition runs in order, which the modules write
as a function defined by recursion over the queue: `Iterated` and `RunIs` show, by induction over an interval, that it
exists and what it goes through.

**Demo page.** `GoodPage` says more than what is promised: the renderer has the options as they are (`md = opts`), the
permalink is of what its view shows and of a text that can be rendered, and a page that is fresh (nothing due, failed or
unheard) shows its text and links to it. A handler leaves the page `Apt` before it calls `updateResult`, which makes any apt page
good, whether rendering throws or not. `LinkRestores` is then that loading what `linkTo` writes gives the same page.

**URL codec.** How far a string is read and written is said by a set of cuts, not by a recursion: `Pieces` holds the places where the input and what
has come out fall apart together, each piece a character kept as it is or the escaped UTF-8 of a code point,
and the units it carries. `encode` adds a piece at the end (`LinkWritten`), `decode` goes from cut to cut (`LinkRead`)
and finds in each escape what was written, since UTF-8 of two, three and four bytes is undone by
the branch for that length (`TwoBytes`, `ThreeBytes`, `FourBytes`, `PairBack`) and no other takes it. For an address encoded twice the cuts are `Chunks`,
kept characters and whole escapes, each of which the second `encode` leaves alone. For broken bytes `BytesInv` follows the letters of what
is read: a sequence that is refused gives U+FFFD for each of its bytes, none of which is ASCII, so letters come through one by one.

**Panes.** Most is about `buildScrollMap`: rows grow with lines (`RowsGrow`), so blocks lie in order, also those of a result
that is not of this text as far as they have a row (`Growing`); the loop's counter stands at the two known rows about each row (`About`,
`PosIs`), and the rule of three between them is monotone though it rounds (`RuleOfThree`). Hence a map of one text has no
gap (`MapOfOne`). Of the panes `GoodPanes` says that without an edit to come the map is of the text (`Drawn`), that the pane the reader scrolled rests
(`Rested`), and, what makes `PanesTogether` inductive, that of the pane that is listened to and the other one either the other comes to where it
belongs, or it has stopped and this one does (`Follows`): a mouse that crosses while nothing moves swaps the two.

**Blocks.** `BlocksInv`: the page is being read (`IsReading`) or has been read (`IsRead`). While it is read there is for each
frame a ghost of what the state is while that frame is on top: last line, indents, level, and the token of its block.
`Stack` relates frame, ghost and the ghost below, for a container (`ContainerOK`) and a list (`ListOK`): the first has borrowed
the last line and the level, the second the indents and the marks as well, and what each has saved is what is below. Each ghost
is narrower than those below it, and lists begin behind the definitions they are in, so taking a frame off puts
the state back. `AtInv`: the marks are off exactly the lines of the definitions that are being read. `CoverInv`: each line that
is not empty and lies before the one to be read is of exactly one token, and no later one is of any. `NestInv`: one opened
block on each open level, each other one matched with the token that closes it, and its paragraphs hidden as they should be. Tight and loose are
the hard part, since `state.tight` is one flag for all that is nested: `Suspended` and `OnTop` say, of a definition that waits and of one
between two of its blocks, that `hasEmpty` is whether empty lines have parted its own blocks, and `ListOK` that the
list's `tight` is whether they have parted any in its earlier definitions, or the definitions themselves. Each rule is first
computed field by field (the lemmas `...Step`), then shown to keep each part.

**What the proofs found in the models.** `FootFree` used to say that a settled element never lies over the foot of the page. The
proof failed for an element at the foot of a page that then shrinks by less than the element moved:
`checkPosition` (`bootstrap.js`, affix) finds it at the bottom still and returns early, leaving it where the longer page's foot
was. A third page height makes TLC show it; the property now says what the code does. `AffixAssumption`, `ScrollSpyAssumption`,
`ThreadsAssumption` (a finite pool) and `FinitenessAssumption` were needed by the proofs and had been left to
the instances. So had `CodecAssumption`'s string to begin with and, in `ScrollSync`, what a layout is: it was a habit of the drafts of the run.
So was, in `BlockPlugins`, that a mark has something behind it, as `skipMarker` demands: `PagesAssumption` says it now.

**Only model-checked.** Liveness and whatever contains it: the fairness of `RemoteCall`, `StaleGoes`, `ReturnsOrBlocked`, and that the
moves of the six widgets with transitions end, which is why `AlertSound`, `CarouselSound`, `TabSound`, `TooltipSound`, `CollapseSound` and
`ModalSound` are proved in their safety parts. What reaches a RECURSIVE operator, which the prover cannot use:
`Highlighter` and `HighlightBlock`, `InlineRules`, `TextRules`, `MarkdownDocument`, and so `TextKept`, `SpansNested`, `BestDetected` of the run
`highlight` and `MarkersPaired`, `NotesAgree`, `WordsWhole` of `markdown`; `MarkdownPlugins` extends these too, which is why `BlocksAlwaysRead`
is of `BlocksSpec`. `TypedIsShown` of the demo. The code's own recursions over data that are
proved here (sums, sorting, rows, encoded and decoded text) are not proved by the induction theorems of the library, which take a predicate, but by
the least counterexample in a well-founded order of a set (`WFMin`).

## Not modelled, and why

Object sizes, garbage collection statistics and the first exercise are calls of the JVM; the JSON
serializer is a stateless recursion over objects; servlets, templates and encryption are calls of
libraries around one session check, which is modelled; registries and factories are filled once;
`socket.io.js` is minified, and styles and templates do nothing. Further details left out are named with each
module above.

## Seen while modelling

In the Java programs, without a run that shows it (or no statement in the repository to hold it against):

- `WorkerUtils` (line 32) starts one loop more than it is asked for: three threads serve the requests and the
  remaining one of the pool of four the answers, where `service.properties` (lines 7-8) says two and two. With one
  thread fewer, or one worker more, no answer would ever be read.
- Two threads that put at once pass `CacheEngineImpl`'s size check (line 37) together: the maximal size holds for one.
  Its counters (line 82) are incremented without a lock, and a `reset` during a running eviction leaves two timers'
  tasks at work (`MultipleScheduledEvictionExecutor`, line 69).
- `CachedProxyDao` removes from the cache before it deletes the row (line 35); when the element is gone the removal
  throws (`SoftReferenceCacheImpl`, line 62) and the row stays, where `Dao` (line 33) promises a deletion in the
  database. A read that missed stores what it read (line 51), which may be older than what another thread saved.
- `CellRack` (line 84) compares strictly and so refuses its last note of a type. `WithdrawCommand` (line 92) is greedy
  and refuses sums that other notes would make, 60 from a 50 and three 20s. A cell's number of notes (`Cell`, line 53) is an `int` that may overflow.
- `CommandInvoker` (line 66) checks the session before the command runs; it may be logged out in between.
- `SingletonH2ConnectionFactory` (line 29) never assigns its `connection`, so `closeConnections` closes nothing.
- `DeleteCommand` deletes a user's address though another user names it, and that user can then be neither
  read nor deleted, nor saved except with the same address again; a phone saved by itself loses its owner
  (`EntityDescriptor.getAllFieldValuePair` writes the back reference as null); a phone saved without a
  number can no longer be read, nor can its user.
- A comparator that throws ends a task of `QuickSort` (line 182) without what it had still to hand out. The comment of
  `insertionSort` calls the upper bound exclusive where the code includes it.

In the scripts:

- `bootstrap.js`: a modal shown again while its backdrop fades out forgets that backdrop, and one hidden while it
  comes keeps its focus trap (984); two panels opened in haste stay open (541); a click on a tab while panes fade leaves
  two of them active (1903); a tip placed automatically compares with its own parent (1284-1290), whose height counts from
  the page's top there, so that in a low or scrolled box it turns away from a side that has room; where the
  scroll spy or the pinned element is exactly on an edge each scroll event takes it to the other side.
- Highlighter: a mode that two parents share is compiled once, with the first one's end (239; the comment at 2998 works around
  that); a part in which none of its sub-languages is found gets a span of class `undefined` (416); a block highlighted again takes its own spans for markup.
- Markdown plugins: `jump` counts characters where the parser counts delimiters (8604); a note within a note and the outer one get the same
  number, and the inner one is overwritten (8407); a definition in a definition makes `footnote_tail` fail (8535-8539); `labelEnd` of an
  abbreviation without a closing bracket is never assigned, and compared all the same (6130); `^[a]b^[c]` is read as superscript first (8946); the comment at 6540 says tight
  where the code says loose.
- Demo: the branch for the old `_src` option cannot be reached (9907-9912); a link to an empty text loses its options (9742); edits
  that raise none of the events keyup, paste, cut and mouseup are not heard (9981); a mouse that crosses from pane to pane
  while one is animated lets the panes push each other (9986).

## Plan

Done, in this order: remote operations with their abstract call; cache engine; cached DAO over it; quick sort;
ATM; MyORM with its abstract store; the first proofs; the widgets; the highlighter; the markdown plugins; the demo page with
its codec.

To widen the model further:

1. `MyArrayList`: array and size against the sequence a `List` is, with iterators; a refinement where the
   code keeps it and findings where it does not (`add(index, ...)`, `addAll(index, ...)`, `Iter.remove`).
2. `TestFramework`: the status of a test case from the outcomes of @Before, @Test and @After methods.
3. Servlets with sessions: the redirect rules of `AbstractServlet`, apart from `RemoteOps`.
4. Two callers in `CachedDao` (what a second DAO thread would break) and the second timer of `reset`.
5. Adapter choice of the JSON serializer, as an operator over kinds of values.

To prove more, beyond what the section on proofs lists:

1. `HighlightBlock`: `SpansNested`, once the compiled grammars are written without RECURSIVE operators.
2. In `QuickSort`, that the only states without a step are the return and the one `sort_stuck` shows.
