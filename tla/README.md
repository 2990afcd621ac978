# TLA+ models of MQTTForge

MQTTForge is a console for MQTT brokers: one process that keeps one link to one
broker, shows its traffic in a browser (or in a desktop window), raises alarms on
it by rules, and runs flows on it. This directory models two sides of it: on the
server the link, the supervisor that puts it back and the subscriptions that share
it; in the browser the state a reader works on, from the queue the messages come
in by to the drafts of flows and rules. The alert and flow engines of the server
are listed and not modelled.

Paths of C# files below are relative to `src/src/`, of TypeScript files to
`src/web/src/`; `ConnectionService.cs:118` is a line of the file of that name.
`PROJECT.json` lists every component, run, mapped definition, hazard and theorem.

## The system

Requests come in over HTTP (`MqttForge.Api/Controllers`), events go out over
SignalR (`MqttForge.Api/Realtime`), and MQTTnet calls back from the thread pool.
There is one `IMqttClient` for everybody. The browser's side is React over stores
of its own: requests through `api/`, pushes through `realtime/`.

    controllers ──► ConnectionService ──► MqttnetConnectionManager ──► MQTTnet
         │               ▲     │  _dialGate        │ provider's gate      │
         │               │     └─ settings store   │                      │ DisconnectedAsync
         ├──► BrokerLinkSupervisor (1 s loop) ◄────┘ state, failure       │
         │               │ restore                                        │
         ├──► SubscriptionService ──► MqttnetSubscriber ◄─────────────────┘
         │                                ▲    ▲
         ├──► AlertRuleService ──► AlertEngine │ ──► webhooks, alarm topics, console
         └──► FlowService ──────► FlowEngine ──┘ ──► publishes, webhooks, console

    SignalR ──► hub.ts ──► useHubBridge ──► trafficBuffer ──► logStore, topicTreeStore
                               │                                   │ holds, rows, windows
                               ├──► alertStore, alertSound         └──► PublishPanel (a row clicked)
                               ├──► useLinkWatch ──► ReconnectNotice, BrokerPanel
                               └──► flowStatusStore ──► useTest, FlowCanvas
    HTTP    ◄──► useSave, flowDraftStore (localStorage, two tabs) ──► FlowCanvas
            ◄──► AlertsPanel, RuleEditor; SubscribePanel; BrokerPanel

### Inventory

The server:

| Component | State it keeps | Operations | What is hard | What makes it correct |
|---|---|---|---|---|
| Connection service and link manager | the link's state, reason, record and certificates; two gates; the abortable attempt; what is remembered and saved | connect, abort, hang up, the disconnect callback | two gates taken one inside the other, exceptions between them, a callback that comes late | one link, made by one dial; it is described as itself; every dial ends; every dial can be called off |
| Link supervisor | the ladder (due, rung, attempts, gave up, declined, since), `_enabled`, `_wanted`, `_dialling` | the poll, Try now, Stop trying, the option, a save that wants a link, start-up | four hands on one ladder, decided before an await and acted on after it | an outage is remembered until it ends; one try at a time; Stop trying holds; the ladder goes on |
| Subscriber and filter pumps | filters with their owners, the quiet ones, the level at the broker and at the console; each pump's refusals | subscribe, unsubscribe, quieten, resubscribe, drop, restore, sync | owners awaiting on one record; filters that cover each other; refusals and silence | who holds a filter hears it, once; nobody loses another's claim |
| Topic filter matching and covering | none | `Matches`, `Covers` | `$`-topics, `#` against its parent | agreement with the MQTT definition |
| Alert engine pump | bounded queue, turn, tick, the broker learned from | commands, arrivals, save | commands let go under load, a move between brokers seen late | a reading is judged on its own side of a move |
| Alert engine core | pairs (rule, topic) with window, alarm, For, mute, cooldown; counters and caps | evaluate, tick, set rules, mute, acknowledge, restore, resume | the same alarm ended on six paths, caps, restarts | every raise has one end; the counters agree with the pairs |
| Conditions and statistics | windows | pure | numbers | their definitions |
| Alert backlog, console sender, composite dispatcher | events waiting, untold and lost counts | add, take, compact | a slow channel | no end without its beginning, in order |
| Webhook dispatcher | queue, pending count, chains by endpoint, two semaphores | post, retry, give up, drain | order through retries, slots given back and taken again | a resolve never passes its raise; slots are balanced |
| MQTT alert dispatcher | retained topics | publish, clear, sweep | two alarms on one topic, a shutdown half-way | no retained record outlives its alarm |
| Flow engine | queue, deploy and test slots with stamps, outbox | deploy, test, turn, move | slots folded into each other, order by stamp | a command meets flows at least as new as itself |
| Flow runtime | runs, their queues, loops, echo set, alarms | message, tick, step failed, update | runs replaced while their steps are out | a failure is counted on the run that made it; no run spins |
| Flow compiler, templates | none | pure | parsing | its tests |
| Services | none of their own | save, then hand over | a save between two hand-overs | what is saved is what runs |
| Stores | one file each | load, save through a `.tmp` and a move | two writers, a crash between | old or new, never half |
| Realtime notifiers | last announcement, message queue | announce, fan out | two announcements racing | the last told is the last state |
| Publisher, classifier, TLS, controllers, desktop shell | little or none | - | - | covered by their tests |

The web console:

| Component | State it keeps | Operations | What is hard | What makes it correct |
|---|---|---|---|---|
| Flow drafts and saving | drafts with the copy they were made on, refusals, the pick, in every tab and in the tabs' one storage | edit, save, switch, discard, delete, reload, read | edits, other consoles and another tab between the read, the weighing and the put of one save | no save over a copy it was not made on; changes stay; tabs agree |
| Flow tests | the holds on Test and Stop, the picture pushed and read | test, stop, push, catch up | a push names no test, a read goes out beside the pushes | a press meets the answer it is for; buttons come back |
| Flow drawing | nodes, wires, places | add, wire, insert, join over, mark, drag, place | each edit changes wires beside its own | no forward circle, no stray return, nothing on top of another |
| Flow canvas | picks in three places, routes of back wires | click, render, follow, drag | effects that run after a render | picks settle on one; a route that fits is kept |
| Link watch and notice | what was last heard of the link, the session shown, outages | push, fetch, connect, render, dismiss | pushes taken together, a fetch behind a push | one broker's topics in a tree; the notice tells the outage there is |
| Broker panel | the form, the address box, the offers, kept brokers, the beat | type, paste, connect, offer, keep, beat | a box the form has not read; offers that lead to offers | the host dialled is the one shown; ports fit; offers end |
| Traffic intake | the queue, its hold, the hub's retry | push, frame, stop, clear, close, retry | two tellings of one failure; a tree forgotten with a queue full | every message in one place |
| Log, topic tree, holds | runs, counts, weights, frozen copies | land, trim, hold, clear, prune | sums kept running, holds in holds | sums are true; what is held stands still |
| Subscriptions | the box, chips, the list in hand, answers out | subscribe, let go, read, connect | the list is read and not pushed | what is still heard stays on screen |
| Publish form | the draft, the form, what is sent | click, edit, fold, send | an effect over a draft that stays in the store | a message filled is sent whole |
| Alarms and their sound | snapshots, the queue behind one, the tone that is owed | load, event, reconnect; press, resume | a newer load, a reconnect, a browser that answers in the middle of a press | caught up once all has landed; a missed tone is owed |
| Rule editor | the list in hand, drafts, writes out | edit, save, switch, delete | a write is a whole list | a write changes its own rule; a form keeps what was not edited |
| Floating windows | boxes, the drag, the chart thrown open | open, raise, drag, nudge, resize | the viewport shrinks under them | bars stay in reach of a resize |
| Charts, JSON views, retained messages, colours, notices, layout | little | - | - | their tests |

`hazards` in `PROJECT.json` says, line by line, what of this a test would hardly
reach, and which property looks at it.

## Modules

| Module | What it models |
|---|---|
| `BrokerDial` | `ConnectionService` over `MqttnetConnectionManager`: every dial, abort, hang-up and drop, between any two awaits |
| `OneLink` | what the two promise: at most one link, made by a dial, the old one down first |
| `LinkSupervisor` | `BrokerLinkSupervisor`, with the connection service as it is seen from there |
| `Subscriptions` | `MqttnetSubscriber` and the alert engine's `FilterSync`, with the client's standing orders at the broker |
| `FlowDrafts` | `flowDraftStore`, `useSave`, `FlowsPage`: drafts, saves, tests, deletes and reads of several tabs on one storage and one server |
| `FlowTests` | `useTest`, `flowStatusStore` and the part of `FlowRuntime` a test is: Test, Stop, the pushes and the status read |
| `FlowGraph`, `FlowPlace` | `flowDocument`: every edit of nodes and wires, and where a click puts a node |
| `FlowPicks`, `FlowRoutes` | `FlowCanvas`: the picks and the effect that follows them; when the back wires' ways are worked out |
| `LinkWatch` | `useLinkWatch`, `linkWatchStore`, `ReconnectNotice` |
| `BrokerPanel` | `BrokerPanel`, `brokerForm`, `address`, `scheme`, `connectFailure` |
| `TrafficIntake` | `hub`, `useHubBridge`, `frameBuffer`, `pauseStore` |
| `TrafficLog` | `logStore`, `topicRing` |
| `TrafficHolds`, `TopicRows` | `topicTree`, `holds` and their stores; the rows, their folding, clicks and search |
| `ConsoleFilters` | `SubscribePanel`, `parseFilters`, `subscriptions`, `clearTraffic` |
| `PublishForm` | `PublishPanel`, `composeStore` |
| `Alerts`, `AlertSound` | `alertStore` over an engine that restarts; `alertSound` and the browser's permission |
| `AlertRules`, `RuleDraft` | `AlertsPanel`'s writes and drafts; `ruleDraft`: one rule as boxes and back, with both sides' faults |
| `FloatWindows` | `floating`, `useWindows`, `useZoom` |
| `Sieve` | JavaScript's `filter`, as one operator a proof can open; taken by `Alerts`, `AlertRules`, `RuleDraft` and `TrafficIntake` |
| `MC...` | instances of these for TLC; `MCLinkLiveness` has the dials and the ladder beside each other |
| `...Proofs` | theorems, see *Proofs* |

Each module also holds the mutants its properties are tested with, every one
marked `Mutant:` and placed before the definition it would replace. They are no
part of any specification. `MCServer`, `MCFlows`, `MCEditors`, `MCPanels`,
`MCTraffic`, `MCLiveness` and `MCLinkLiveness` stand several components side by side
that share no state; which one moves is the variable `part`, chosen at the start.

### BrokerDial

A *dial* is one call of `ConnectAsync`. Each has a slot: the readers' (people, from
several consoles) and one for the supervisor, whose `_dialling` lets it make one at
a time. The slot's `stage` is where the call stands between two awaits:

| Stage | Where the code is |
|---|---|
| `asked` | `ConnectAsync`, before the skip and the lock (`ConnectionService.cs:81-110`) |
| `supersede` | out of the lock, before `standing?.Cancel()` (116) |
| `gate` | awaiting `_dialGate` (118) |
| `enter` | awaiting the provider's gate (`MqttnetConnectionManager.cs:81-98`) |
| `close`, `closed` | closing the old link; called off in it (100-119) |
| `dialing`, `failed`, `up` | the walk over versions, its failure, its CONNACK (161-265) |
| `booked`, `published` | reason and link written, `_offlineState` written (267-278) |
| `leaving` | an exception on its way out through the finallys |
| `remember`, `save` | after the gates (`ConnectionService.cs:150-180`) |

`State` is read through `IsConnected` as in the code, so a link that comes up or
dies is visible at once, before the fields that describe it. The disconnect callback
has two steps, because it tests `_offlineState` and writes `_failureReason` with no
lock. An attempt that is leaked by an exception before its `try` stays in `attempt`
as `Lost`.

Data: a broker is a whole `BrokerConnectionSettings`, a reason a
`BrokerFailureReason`, the version walk its outcome. Announcements are left out,
because nothing the link does depends on who was told.

### LinkSupervisor

The service is seen from outside: its state and reason, one reader's dial and one of
the supervisor's, each of them two steps inside the gates (it begins, it ends).
`ladder` is the record of `_active`, `_dueAt` (seconds left), `_rung`, `_attempts`,
`_gaveUp`, `_declined` and `_since`; `trying` is who holds `_dialling`; `loop`,
`retry` and `want` are where the loop, a Try now and a save stand. A look of the loop
is synchronous up to its redial and is one step, split by what it finds:
`PollSeesDial`, `PollRests`, `PollStandsDown`, `PollDeclines`, `PollSchedules`,
`PollClimbs`. What it does after the redial is a step of its own (`AfterRedial`),
because everybody else has had their turn in between.

### Subscriptions

What is *recorded* (`owners`, `quiet`, `atQos`, `consoleQos`), what the broker
*sends* (`broker`, external) and what is *wanted* (`wanted`) are separate variables,
and the properties relate them. A call of `SubscribeAsync` or `UnsubscribeAsync`
runs from await to await; the packet reaches the broker when it is sent, its answer
is waited for, and may not come (`NoAnswer`). `call[c].fresh` is whether the record
an unsubscribing caller read is still the one in the table, which is what its
compare-and-swap sees. `Covers` is a constant relation.

### FlowDrafts and FlowTests

A tab is its `page` (the list it read, its drafts, refusals, the flow shown and the
pick) and what it has out: `read`, `save`, `test`, `del`. `kept` is the storage the
tabs share, and `heard[t][f]` the storage events tab `t` has yet to be told of. A
press of Save is `reading`, `listed`, `putting`, `answered`: the list is fetched,
the drawing is weighed against it (`Weigh`), put, and answered, and other consoles
change the server between any two (`raced` says that one did). A drawing is a value
here; its edits are `FlowGraph`'s. The effects of the page that run after a change
of its state (`Settle`) are part of the step that changes it.

In `FlowTests` a picture is what a push or a status read says of the test: going or
over, made at which moment. `of`, the test it is of, is for the properties alone:
the code's picture names none, which is what is hard. Each button's hold is `free`,
`out`, `done`, `waiting` as in `useTest`. A request whose answer does not come, or
comes too late (`client.ts:16-43`), frees its button at once (`useTest.ts:158`,
`179-181`) whether the server took it or not: it then goes on its way without a button
(`adrift`) and is taken whenever it gets there, or never.

### The console's other modules

Requests of the browser are modelled as sets or sequences of what is out, answered
in any order the code allows. An effect that React runs after a render is a step of
its own when other events may come before it (`FlowPicks.Follow`, `LinkWatch.Render`)
and part of the step when they may not. Texts are values with what the code reads of
them (`BrokerPanel.Texts`, `RuleDraft.Reads`); pixels are small integers; messages are
numbered in the order they arrive. Two history variables of `LinkWatch` are for its
properties alone: `loose` says the tree was restarted behind the watch's back, and `met`
is the sessions its effects have run with. `TopicRows.gesture` is the browser's count of
clicks: it goes on over whatever row is under the pointer by then, the broker's among
them, and `stayed` says for the properties whether the row has been there since its last
click; `openedRun` is the rows' own memory, which a row that leaves the screen loses.

`RuleDraft` judges a rule twice, by operators of their own: `savable` is the form's
(`ruleDraft.ts`, `RuleEditor.tsx`), `ServerTakes` is `AlertRuleDtoValidator`'s. They
differ where the code does: two regex dialects, header names and values, an address the browser mends, text longer than MQTT holds, numbers wider than
the server's, and a topic prefix that was changed since the form read it. `Unread` and
`Unseen` name them, with the parts of a rule the form carries along without drawing.

## Runs

| Run | Question | Distinct states |
|---|---|---|
| `dial_safety` | a reader, the supervisor, two brokers, drops, hang-ups, aborts: are the gates owned, the link described as itself, the certificates its own, `OneLink` implemented? | 2.3 million |
| `ladder_safety` | the loop, a reader with two brokers, Stop trying, the option, a save: is an outage remembered, does Stop trying hold? | 1.8 million |
| `link_liveness` | Try now, a save and the loop: one try at a time, always ended, and does the ladder go on? Under endless contention at the gates, does every dial end and every hang-up land? | 252 thousand |
| `server` | three nested filters, one call after the other: is what is held heard, and none under another? The console and the rules at once: is a claim ever lost? Two consoles' dials: can each be called off? | 1.4 million |
| `flows` | one reader and other consoles, a page of two flows, two tabs, a flow under test: do the pieces agree, do changes stay, is nothing overwritten blind, does a press meet its answer? | 1.2 million |
| `editors` | a drawing's graph and its places; one rule as a form; two writers of the rules and the drafts: does each stay whole? | 189 thousand |
| `panels` | link watch over three sessions, Broker panel, publish form, alarms, sound, windows: is what each shows and does true? | 2.0 million |
| `traffic` | queue, hub, log, holds, filters, rows: is every message in one place, do sums and holds stand, does a pair of clicks do what it promised? | 169 thousand |
| `console_liveness` | buttons, picks, routes, queue, hub, beat, list: does each settle? | 150 thousand |
| `batch_doubles`, `dial_is_a_moment`, `fold_keeps_the_way` | three things a comment or a doc says that the code does not keep (violated) | |

Some of the properties are worth a word. `OutageRemembered` and `StopHolds` are
action properties about a record that four hands write: they say on which steps it
may be forgotten, and everything else must leave it. `HearsWhatItHolds` relates the
subscriber's table to the broker's: it is what `_quiet` and
`ResubscribeUncoveredAsync` exist for. `NoBlindOverwrite` looks at the one step that
puts a drawing and asks what the server held then, with the one exception the code
accepts: a change between its own read and its put. `PagesAgree` compares a tab with
the storage only once it has heard every write. `HeldStandsStill` compares what is on
screen before and after every step. `BreadthLast` asks, when a topic leaves the log
unasked, whether shorter runs would have done. `WritesTouchTheirOwn` lets a write undo
only what was put between the read it was built on and its own put, and
`PairKeepsItsPromise` speaks of rows that stayed between two clicks: what lies outside is
below.

### What the code does not keep

Three have a run:

- **batch_doubles.** A filter that is already up and comes again in a batch beside one
  that covers it is marked quiet, and its standing order is left at the broker
  (`MqttnetSubscriber.cs:389`).
- **dial_is_a_moment.** A Connect at the very broker that is down, looked at while it is
  in flight, ends the outage: the test of who is leaving asks for a reason, and there is
  none as long as a dial runs (`BrokerLinkSupervisor.cs:325`, against 314-317 and
  358-363). When the outage began, the rungs and a Stop trying are forgotten.
  `OutageRemembered` therefore lets an outage end there, and so it does not say that
  nobody's dialling ends one.
- **fold_keeps_the_way.** A message clicked, its QoS or retain flag changed, the publish
  region folded and opened again: the draft is written over what the reader chose,
  which `PublishPanel.tsx:26` says cannot be.

The others were met while modelling, are reachable in the models, and are left out of
what the passing runs ask.

On the server:

- the DISCONNECT of the old link throws while nobody has called the dial off, and the
  state stays `Connecting` with no dial running (`MqttnetConnectionManager.cs:126`, `135`);
- a filter is recorded as covered by another of its batch before the broker has granted
  that one (`MqttnetSubscriber.cs:357`); with two levels, resubscribed filters have no
  level until their own turn, and one at level 0 takes down another (395);
- `Cancel` of a source that is already disposed (`ConnectionService.cs:116`); an attempt
  leaked at the dial gate (118); a hang-up that misses a dial the supervisor registered
  over (282); settings remembered in the wrong order (150);
- a reason left after a hang-up, or of the wrong link (`MqttnetConnectionManager.cs:366`);
  a close called off that ends as a fault (136);
- a redial that Stop trying or a hang-up misses (`BrokerLinkSupervisor.cs:487`, `698`);
- an UNSUBSCRIBE and a SUBSCRIBE for one filter recorded in the other order
  (`MqttnetSubscriber.cs:318`).

In the console:

- a push of the running test that was made before Test was answered, and heard after,
  frees Test early (`useTest.ts:106`), and a Test or Stop whose answer is lost frees its
  button at once though the server has it (158, 179-181): a second Stop can then reach
  the test the first one stopped, and throw it away. `FlowTests.letGo` marks the ways to
  it, and `StopsOnce` asks only where none was taken since this page last started a test;
- an event queued behind a snapshot before an outage is applied over the snapshot
  taken after it (`alertStore.ts:115`, `useHubBridge.ts:206`), and one told between the
  hub's reconnect and the new load is dropped (218);
- a press on the sound switch because it is not ready may turn it off: the browser
  answers between the pointer going down, which asks it, and the click, which finds the
  switch ready (`alertSound.ts:146`, against `SoundButton.tsx:24-27`);
- a rule another console wrote between the fetch and the put of a whole list is undone
  (`AlertsPanel.tsx:105`), which lines 101-102 call no race at all;
- a rule the form lets through may come back a 400 beyond what it says of itself
  (`ruleDraft.ts:609-616`, 746): the differences listed under *The console's other
  modules*;
- an offer may be of a sentence no longer shown, and a chip may name what the form no
  longer holds (`BrokerPanel.tsx:634`);
- the tree may mix two brokers for as long as a newer state is on its way, and for good
  in two cases: where a session of another broker came and went between two renders, or
  behind a late answer about an earlier one, for the watch compares with the last link it
  ran with and never judges the rows of one it did not meet; and where the link was hung
  up and then made elsewhere by another console, for a link that was hung up is no longer
  remembered (`useLinkWatch.ts:131`, against 49-57). The same goes for a tree the reader
  started again and heard more on. `OneBrokersTopics` leaves these out (`met`, `loose`);
  and a drop does not always bring the panel;
- a row held over a message the tree cut offers the newest body the log has, not its own
  (`TopicTree.tsx:136-138`, against 124-126), with the row's own flags;
- a held branch may count more than its rows add up to, once the ceiling has taken topics
  from under it (`holds.ts:222-223`); and a row that went that way comes back under the
  hold when its topic speaks again, which 217-222 do not say;
- a click that lands, by the browser's count, as an even one on a row that slid under the
  pointer, or that went and came back, turns that row over: one click then folds an open
  branch, or opens a shut one without picking it (`TreeNode.tsx:127`, against 118-123);
- a drag can leave a bar out of reach until the next resize (`floating.ts:107`);
- with a stale list, topics that are still heard go (`clearTraffic.ts:83`), and the
  line about `$SYS` may be out of date (`SubscribePanel.tsx:117`);
- rows may be called hidden, or absent, when they are not (`topicTree.ts:465`,
  `TopicTree.tsx:321`).

### Bounds, and why they are enough

- *Dials.* One reader and the supervisor, with two brokers, or two readers with one:
  each gate then has a holder, a waiter and a caller before it, which is every
  relation the code tells apart.
- *Drops.* `MaxLate = 1` callback waiting and one running: a drop told after the next
  link is up is reached. More would be drops nobody has been told of for several
  links. One hang-up at a time, as a second would only repeat the first.
- *Reasons.* One in the passing dial runs, the close's own; no guard reads which it is.
- *Supervisor.* One reader's dial, one Try now and one save at a time. `Backoff` is
  `<<1, 2>>`: a rung to climb from and the flat end of the ladder. The count of
  attempts saturates at `MaxAttempts`, as nothing reads it. The restore of filters
  inside a redial is left to `Subscriptions`.
  `ladder_safety` has everybody but Try now; `link_liveness` has Try now and one
  broker, and leaves out hang-ups and the option, which only stop the ladder, and the
  abort of a try: a person who aborted every one would stop it too.
- *Callers who leave.* Whoever waits at a gate may go away if the code passes its
  request's token there: a hang-up (`HangUpGone`) and Try now. A reader's own dial runs
  under `CancellationToken.None` (`ConnectionController.cs:171`), so it waits at the
  dial gate until it is its turn, and leaves the manager's gate only when called off.
- *Subscriptions.* A chain of three filters for the sequential run (a filter may be
  covered twice, and lose one cover), a pair for the concurrent one. One level: with two,
  a filter goes deaf as above. No refusals, for the same reason. The rules stand for
  both engines, whose pumps are one class.
- *Flow drafts.* One flow with one reader and three drawings (the copy, the draft, and
  a third that is neither); two flows with one draft between them; two tabs on one flow,
  each at most one write behind. `MaxHeard = 2` waiting storage events and
  `MaxOthers = 1` change of another console between two steps of one save.
- *Flow tests.* Two tests, three pushes, two on the way: a push of the test before can
  come behind the answer that started the next. `MaxAdrift = 1` request whose button is
  free while it is still on its way, so that one lost press can meet one made after it.
- *Drawings.* Four nodes, of every type the wires tell apart; a grid of 4 by 2.
- *Forms.* Two edits of three rules, one with every part, one with composites the form
  has no boxes for, one with two publishes of which it draws one; number texts below,
  at and above each range. `PrefixesHeard` are the prefixes the form may have read,
  `Prefix` the server's by now; `Widest` the largest number the server can hold.
- *Panels.* Two brokers and three sessions (in `"hung"` two, with hang-ups and other
  consoles' dials), for two never lead back to the broker one came
  from; the notice's words, which look one session back, over two; three dials, so that an offer may lead to an
  offer and that to a third; two messages; two alarms with one load more than outages;
  three windows and two viewports, one smaller than a window.
- *Traffic.* A queue of three with frames of two; log ceilings that two of three topics
  meet; two holds, one inside the other; a tree ceiling of two topics out of three; four clicks over the rows of
  the topics and the broker's, which is two pairs on end.
- Every `Max...` constant is a bound in a guard and nothing else, and each cfg names it.
  `SYMMETRY` is used over brokers, drawings and nodes alone, never in a run with a
  liveness property; `VIEW` keeps all that moves in the part chosen.

### Left out of what is modelled

On the server: announcements; grant times, the replay window and deadlines (a deadline
is an answer that does not come); the pause after a broker that does not answer; a broker
that refuses by closing the session; filters that cover each other both ways; and the
order `Width` gives a filter with both a `+` and a `#`.

In the console: wording and layout; the geometry of wires; certificate files and recent
brokers in the Broker panel; rates and sparklines; filters with a `+` in the tree; the
properties of MQTT 5 in the publish form; the pickers of the rule editor. The counts a
test's picture carries. `PROJECT.json` says it component by component.

### Fairness

- Weak fairness of a dial's steps: each is a continuation of the thread pool, and the
  CONNECT has a deadline of its own (`_connectTimeout`, 20 s), so it ends.
- Strong fairness of `EnterDialGate`, `CloseLink` and, in `LinkSupervisor`,
  `SupervisorDials`: a `SemaphoreSlim` lets its asynchronous waiters in first come,
  first served, so one who waits while others come and go gets its turn.
- Weak fairness of `Poll`, `AfterRedial` and `Tick`: the loop's timer, and the clock.
- None of what people, the network or a saved rule do.

`HangUpsLand` and `DialsEnd` are checked under contention alone (`MCLinkLiveness`, part
`"dials"`): drops and aborts only let a dial go sooner.

In the console all fairness is weak, and of what runs without anybody's hand: answers of
requests and pushes that are on the way (`TestMoves`, `StopMoves`, `DialEnds`,
`DialAnswered`, `StateArrives`, `ServeList`, `ListLands`, `LetGoAnswered`), frames of the
browser and effects after a render (`Frame`, `Render`, `Follow`, `Ask`), and timers
(`BeatEnds`, and the hub's retry: `Start`, its outcome, `RetryWorks`). That a request is
answered or fails is the browser's own; that the hub can be reached again some day is an
assumption (`RetryWorks`), without which nothing could be promised. `MCLiveness` asks each
module's fairness in that module's part alone.

## Proofs

Eight modules of theorems (one of them, `SieveProofs`, holds lemmas alone), each for every
value of the constants. Where a run states the
property over several components side by side, the theorem is about the same definition
and the component's own specification (`B!Spec`, `L!Spec`, ...), without the bounds and
parts the run adds.

| Module | Theorem | Statement |
|---|---|---|
| `BrokerDialProofs` | `TypeCorrectness`, `GatesOwned`, `LiveLinkDescribed`, `CertificatesFollow` | `Spec => []TypeOK`, `[]GatesAreOwned`, `[]DescribesTheLiveLink`, `[]CertsFollowLink` |
| | `OneLinkRefined` | `Spec => OneLinkOnly`: `BrokerDial` implements `OneLink` |
| `LinkSupervisorProofs` | `TypeCorrectness`, `OneTryAtATime` | `Spec => []TypeOK`, `[]OneTry` |
| | `OutageIsRemembered`, `StopIsKept` | `Spec => OutageRemembered`, `StopHolds` (action properties) |
| `ServerProofs` | `RecordsAreRead` | `Spec => [](TypeOK /\ ReadsAreTrue)` |
| | `ClaimsKept` | `Spec => ClaimsAreKept` (action property) |
| | `EveryDialCanBeCalledOff` | `PeopleSpec => []Abortable` |
| | `WhoHoldsHears` | `ASSUME OneLevel PROVE MCSpec => []HeldIsHeard` |
| | `WhatStandsStandsApart` | `ASSUME OneLevel PROVE MCSpec => []NoneStandsUnderAnother` |
| `FlowsProofs` | `TestsAnswered` | `T!Spec => TestsAreAnswered` (two action properties) |
| | `DraftTypes` | `D!Spec => [](TypeOK /\ RequestTypes)` |
| | `NothingIsOverwrittenBlind`, `ChangesStay` | `D!Spec => NoBlindOverwrite`, `ChangesStayOnScreen` (action properties) |
| | `PagesOfATab`, `PagesOfATabAgree` | what a tab shows has its subject, and tabs that have heard agree |
| `TrafficProofs` | `LetGoPrunesTheDeaf` | `C!Spec => PrunesTheDeaf` (action property) |
| | `RowsKeep` | `R!Spec => RowsKeepTheirPromise` (three action properties) |
| | `WhatArrivesAddsUp` | `I!Spec /\ G!Spec => []TrafficAddsUp` |
| | `DepthGoesFirst` | `G!Spec => BreadthLast` (action property) |
| `PanelsProofs` | `TheWatchIsTrue` | `L!Spec => []WatchIsTrue` |
| | `OffersComeToAnEnd`, `TheBoxIsDialled` | `B!Spec => []PortFitsItsScheme`, `DialsWhatTheBoxShows` |
| | `MessagesAreSentWhole` | `F!Spec => []SentAsItWas` |
| | `MissedTonesAreOwed` | `S!Spec => OwedUntilHeard` |
| | `TheConsoleCatchesUp` | `A!Spec => []CaughtUp` |
| | `FloatTypes`, `ResizeBringsBackHolds` | `Spec => []WindowTypes`, `ResizeBringsBack` |
| `EditorsProofs` | `DraftBecomesOneRule` | `A!Spec => []OneDraftOneRule` |
| | `WritesKeepToTheirOwn` | `A!Spec => WritesTouchTheirOwn` (two action properties) |
| | `AFormKeepsItsRule` | `F!Spec => []FormsKeepTheRule` |
| `SieveProofs` | lemmas | what `filter` leaves of a list of any length, and where each element went; the size of piles of sets; induction over numbers in the form of a set of them (`Numbers`) |

### What is assumed

With one exception, only named assumptions on the constants, which TLC evaluates on the runs:
`DialAssumption`, `SupervisorAssumption`, `SubscriptionAssumption`,
`FlowDraftsAssumption`, `FlowTestsAssumption`, `SessionsAssumption`, `FormAssumption`,
`HostsAssumption`, `PortAssumption`, `TextsAssumption`, `FloatAssumption`,
`TrafficAssumption` (with those of the intake, the log and the rows), `AlertsAssumption`,
`RulesAssumption`, `RuleDraftAssumption`. Most of what
they say is that the marks the model uses (`None`, `Lost`, `Keep`, ...) are none of the
values they stand beside. The rest is the code's: the delays of `Backoff` are positive
and there is one at least; `Covers` is irreflexive and transitive; the least sizes of a
window leave room for `HeldPx + Snap`, a viewport is not smaller than what must stay
in reach, and the server's prefix is among those a form may have read.

The exception is `OneLevel`, the hypothesis of `WhoHoldsHears` and `WhatStandsStandsApart`: one
level of service, a broker that refuses no filter, and finitely many filters (any number,
covering one another in any transitive way). The `server` run meets it. It is needed and
not only convenient: with two levels a filter goes deaf (*What the code does not keep*),
and a refusal leaves unheard what was quietened under the filter it refuses. Those two
theorems are about `MCSpec`, since one call following another is its part `"sequential"`.

### The invariants, and why they are needed

*BrokerDial.* `IInv == TypeOK /\ GatesAreOwned /\ Progress /\ DescribesTheLiveLink`.
`DescribesTheLiveLink` is not inductive alone: `ConnectAccepted` changes the broker the
client is connected to and leaves `_link`. It is safe because a dial in the manager has
cleared `_link` and not yet written it (`Progress`), and because no other dial is there
to write it (`GatesAreOwned`, which says of each gate that its holder is exactly the
dial that is past it). `StepRefines` then maps every step to one of `OneLink` or to
none. `CertsFollowLink` needs `CertsHeld` beside it: a dial that has not yet made its link
holds no certificates, a link without its own is one that has only just come up, and
certificates without a link are those of a drop whose callback is still to be told.

*LinkSupervisor.* `IInv == TypeOK /\ OneTry`: whoever holds `_dialling` is waiting for the
one dial of the supervisor's slot. `OutageRemembered` and `StopHolds` follow action by
action, from the types and from what each operator on a ladder keeps.

*Subscriptions.* `IInv == TypeOK /\ ReadsAreTrue`: what a pump or a caller has read of the
claims is still so when it acts on it, or the compare-and-swap sees that it is not. From it,
no step of one owner takes another's claim.

*Who holds a filter hears it.* Neither `HeldIsHeard` nor `NoneStandsUnderAnother` is
inductive: both speak of a moment with no call out, and between two awaits of a call
neither table is right. `HearInv` says what the one call that is out still owes
(`TablesHold`): a filter is quiet only under one that stands or was granted and is not yet
recorded (`QuietIsCovered`); what was granted has nothing above it (`TakenIsOnTop`); what
stands under another is about to be asked for again or to be quietened (`StandsApart`); and
what stands has its standing order, save what is about to be asked for or let go of
(`StandIsSent`). Each of the eleven steps of a call keeps it, and so do a drop, its telling
and a link that comes back. With nothing owed it is the two properties. That a quiet
filter's cover can be taken to be one nothing covers needs a widest one (`Widest`), which
is where the filters must be finitely many.

*Abortable.* `PeopleInv == DialTypes /\ NoSupervisor /\ StandsBriefly /\ AllReached`. A
person's dial is the registered attempt, or it is called off already, or one that is
about to call off the attempt that stands holds it in its hand (`AllReached`);
`StandsBriefly` says who may hold one. `PeopleSpec` is `BrokerDial` with people alone: the
supervisor's own dial is not registered over, and Stop trying is what stops it.

*FlowTests.* `TestsInv` says that times go forward in every picture, that each button has
one request out, that a request adrift has `letGo` behind it, and that while `letGo` has
not happened the page and the test are in step (`InStep`): a Stop that is out is for the
test that is going or for one already over.

*FlowDrafts.* `DraftsInv == TypeOK /\ RequestTypes /\ DraftsHold /\ SavesKnow`: a save past
its read knows what the server held, unless somebody else has written since (`raced`). For
the tabs, `PagesInv`: each page is settled (its effects have nothing left to do), and
what a tab holds together with the storage events on their way to it is what storage holds
(`InTouch`).

*BrokerPanel.* `PanelInv == FormTypes /\ KeptTypes /\ DialTypes /\ OffersStepDown /\
PortFitsItsScheme`. That offers never circle follows from a rank that every offer lowers
along the chain, so that no two dials of it are the same.

*LinkWatch.* `LinkInv == ServerInv /\ AnswersInv /\ RefsInv /\ RowsInv /\ WatchInv`: sessions
are numbered in order and each answer is of one the server made; the ref is the newest
session met; rows older than the answer were there when it came in (`sooner`) and those
older than the last mark are faded; the watch says of the outage what the last answer the
effects ran with said. Looking for this proof changed the model: the invariant failed on a
third session, which the run did not have then. `OneBrokersTopics` was refuted there by a
session of another broker that no render met, and is now about the sessions that were.

*PublishForm.* `SheetInv`: messages are numbered by arrival, a row's latest is of its own
topic, a draft is a whole message (`SaidAs`: its topic, way and mode, and a body its topic
has carried, which is its own unless its row was overtaken under a hold), and a form not
edited holds the draft it was filled by.

*Alerts.* `AlertsInv == AlertTypes /\ ReadsHold /\ WireHolds /\ QueueHolds`. The console is
compared with the engine through what is still to be told: the engine stands where the last
event of each alarm on its way says, and what has ended heads its history (`Told`,
`Closed`); what no such event speaks of, an answer or the console has already as the engine
does (`Agree`, `Recall`). All are stated by which event comes last and which of two ends
first, so that no sequence is folded. `ReadsHold` says that each load out has its own number
and the newest alone holds the queue open.

*AlertSound.* `SoundInv`: the types, a tone owed can be paid (`OwedIsPayable`), and while one
is owed the switch is on and not armed, which is when the line that says so is drawn
(`WaitingIsUnarmed`).

*ConsoleFilters.* `ClaimTypes` is enough: the one step that ends an unsubscribe is its
answer's (`OnlyItsAnswerEndsIt`), and where the list in hand is true of the other filters
it prunes the topics no filter still up covers (`OnlyTheDeafGoes`).

*TopicRows.* `RowsHold`: the tree is of topics that may be sent and can be counted, a pair
is an even count, and a row that has stayed on screen since its last odd click knows
whether that was what opened it (`Agree`), which is what
makes the second click keep the promise of the first. The rest is about the order the walk
meets the nodes in. It is strict and total (`WalkOrder`), so that the ceiling lets all there
is on screen or exactly as much as it has room for (`DrawnFills`), more in sight never
shows fewer rows (`DrawnGrows`), and a row that is folded stays on screen itself
(`FoldedRowStays`).

*TrafficIntake.* `IntakeInv == IntakeTypes /\ LineHolds /\ HubHolds`: what landed, what waits
and what is gone by are apart and in order, none is from before the last fresh tree, the
figure is the queue's length; and the flag is up exactly while one loop asks.

*TrafficLog.* `LogInv`: every run is under one cap, or none, for all of them, and
the two running sums are the sizes of piles, sets with one element per message and per unit
of weight, which makes a sum over topics a cardinality (`Loaded`). Each pass that shortens
runs is followed one filing or one topic at a time (`Filings`), with the sums allowed over
their ceilings only between two passes. `RoomyInv` adds for `BreadthLast` that no run is
bound to less than the least a topic keeps (`Room`): whatever goes then goes because the
shortest runs, over as many topics as there are, would still not have fitted.

*RuleDraft.* `FormInv == SheetTypes /\ UntouchedStands`: each part not touched is what opening
the rule made of it. That a part so made is saved as it was said is a lemma for each
(`ConditionThereAndBack`, `HookThereAndBack`, `OpenedChannels`). That the server takes what
the form lets through goes check by check (`NoFaults`, `BoxesSent`, `PartsSent`,
`WithinShallow`, `ConditionBinds`, `CoversAlike`, `ChannelTaken`), from the form's test to
the server's, each with the exception that `Unread` or `Unseen` names.

*AlertRules.* Neither half of `OneDraftOneRule` is inductive: that the file's rules have
numbers of their own, and that no two of them come of one draft, rest on lists that are on
their way and on writes that are out. `RulesInv` says of them (`ListsHold`) that a list
served or shown is numbered, and one about to be put has at most one rule without a number,
the one it is put for; (`WritesHold`) that a write is known by its press, and a list nobody
has put over is the file's with one rule changed; (`SavesHold`) that a write of a new rule
is its editor's and the only one of its draft, for the guard holds the mount it was pressed
in; and (`TracesHold`, while no answer was lost) that whatever rule anybody holds of a draft
is one and the same, that a draft whose write is not taken has none, and that one which has
is forgotten as that write ends. The guard and the mount carry it: a second Save is refused
while the first is out, and once it is done the draft is gone. `WritesTouchTheirOwn` follows
from `WritesHold` and from what `saveRule` and `removeRule` leave of a list
(`ChangedLeavesOthers`), the latter a filter (`SieveProofs`).

*FloatWindows.* Its types, and lemmas that each bound of `floating.ts` brings a box into
reach of any viewport.

### What is only model-checked

- *Liveness*: `DialsEnd`, `HangUpsLand`, `TriesEnd`, `KeepsClimbing`, `ButtonsComeBack`,
  `CanvasSettles`, `IntakeGoesOn`, `AnswersSettle`. Liveness under fairness, and `ENABLED`,
  are beyond the proof system.
- `HeldStandsStill`, which takes the sums of a branch over its children and what a filter
  leaves of a run from operators with a LAMBDA that the installed provers cannot open.
- `DrawingsStayWhole`, which follows wires from node to node: reachability by recursive
  functions over sets of wires.

The three violations are runs of TLC and have no theorem.

## Not modelled

| Part | Why |
|---|---|
| Alert engine pump and core, backlog, console sender, dispatchers | planned, see below |
| Flow engine and runtime | planned |
| Topic filter matching | planned; a constant relation where it is used |
| Stores, realtime notifiers | planned; what is read and saved is a step of the modules that do |
| Rule, flow, colour and profile services | save, then hand over to an engine: with the engines |
| Retained messages (console) | planned |
| Alert conditions and statistics, charts and readings | floating-point arithmetic, which TLC has no numbers for |
| Flow compiler, templates, values; failure classifier, TLS and client options | sequential translation, covered by their unit tests |
| Publisher, HTTP controllers, desktop shell | one call each, or the operating system's |
| Message and JSON views, colours, notices, layout | lists and drawing with a setter or two |

## Plan

More of the system, in the order of what would hurt most if it were wrong, each
module without recursive operators, so that it can be proved about:

1. **Alert core**: the life of a pair (For, raise, mute, cooldown, acknowledge, resolve)
   with a condition as its verdict; the caps and counters; a saved rule set, a restart.
   Abstract specification: every alarm is raised once and ended once. Theorem: the
   counters equal what the pairs say.
2. **Alert channels**: what a slow receiver is told. Abstract specification: alternating
   raises and ends for each alert, with gaps of whole alerts only. Theorem: slots are
   balanced.
3. **Alert pump**, composed with 1: moves and new links seen at a turn or at a tick,
   commands let go by a full queue.
4. **Flow engine**: deploy and test slots and stamps, implementing a plain queue that loses
   no deploy; then **flow runtime**: a run's life, replaced runs and their late failures,
   the echo window.
5. **Matching**: `Matches` and `Covers` against a reference definition.
6. **Stores and announcements**: the `.tmp` and the move with two writers and a crash.

As later modules come, the runs that only show a disagreement make room for theirs, and
their findings move to the list above.
