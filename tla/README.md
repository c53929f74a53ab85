# Codex-Nex-Tauri in TLA+

The program is a desktop chat client: a React UI in a Tauri window, talking by
commands and events to a model-running kernel that lives in the same process,
with a second backend in TypeScript for running the UI in a browser. This
directory models how a conversation is run, shown and steered and how the
settings, plugins and tasks around it are kept, model-checks it with TLC, and
proves the central safety properties with TLAPS.

Paths below are relative to the repository. Line numbers of every modelled
definition are in `PROJECT.json` under `map`.

## 1. The system

`T/` is `src-tauri/src/`, `A/` is `frontend/app/`.

| Component | Source | State | Operations | Modelled in |
|---|---|---|---|---|
| Session store | `T/kernel/session.rs` | threads, their turns with status and stored answer, behind one `RwLock` | create, delete, `begin_turn`, `update_turn`, transcript, list, archive | `SessionStore` (not list order and archive flag) |
| Turn execution | `T/kernel/state.rs`, `T/commands/kernel.rs` | token map `running`, `provider_gate`, provider slot, counters, one detached task per turn | `spawn_turn`, `run_turn`, `fail_turn`, `interrupt`, `set_provider` | `KernelTurns` |
| Kernel events | `T/kernel/{events,protocol}.rs` | none | the notifications of a turn | the logs of `KernelTurns`, promised in `TurnProtocol` |
| HTTP provider, SSE decoder | `T/kernel/{http_provider,sse}.rs` | decoder buffer, open stream | decode a stream into chunks, errors, end | not modelled |
| Shell store, provider configuration | `T/state.rs`, `T/kernel/provider_config.rs`, `T/commands/{settings,kernel_config,...}.rs` | one struct in memory, one JSON file, the kernel's provider | change, save, load or default, rebuild the provider | `ShellStore` |
| Plugin market | `T/commands/market.rs` | three JSON files, directories | add and remove a marketplace; install, enable, remove a plugin | `PluginMarket` |
| Protocol adapter | `T/codex/adapter.rs` | routes, an emitter per request | translate upstream protocols | not modelled: nothing calls it |
| UI turn store | `A/state/{turnStore,notificationReducer}.ts`, `A/views/HomeView.tsx` | the conversation on screen; the selected session | reduce a notification, reload a session, send, pick, leave, delete | `TurnStore` |
| UI app store | `A/state/appStore.ts`, `A/shell/AppShell.tsx`, `A/views/settings/tabs/AccountTab.tsx` | copies of settings, providers, projects; sidebar; provider form | read-modify-write against the backend | `SettingsSync` |
| Conversation view | `A/views/TurnStream.tsx`, `A/blocks/registry.tsx` | folds, panels, groups of rows | draw and fold a turn | `TurnStream` |
| Composer, mock turns | `A/views/Composer.tsx`, `A/state/mockTurn.ts` | text, attachments, flags, timers | type, attach, send, stop, play | `Composer` |
| Shell of the page | `A/shell/*` | menus open, route, context menu | click, press a key, navigate | `Router`, `Shortcuts`, `Shell` |
| Approvals | `A/bridge/events.ts`, `A/approvals/*` | channels, pending requests, a card each | bind, deliver, answer, withdraw | `Approvals` |
| Scheduled tasks, plugins page | `A/views/DiscoveryView.tsx` | the page's copy of a list, busy flags, a drawer | load, toggle, add, install | `ScheduledTasks`, `PluginsView` |
| Browser backend | `A/devbridge/*` | an object per tab, `localStorage`, threads, timers | the commands of the kernel and the shell again | `BrowserStore`, `BrowserDev` |
| Start, native menu, strings, catalogues | `T/{lib,menu}.rs`, `frontend/src/*`, `A/data/*` | none that changes | | not modelled |

How they interact. The UI calls commands; the synchronous ones run one after
the other on the main thread, the async ones (interrupt, adding a marketplace,
probing a provider) on worker threads. `send_message` begins a turn in the store
and spawns a task, which streams a provider's answer and reports everything by
events. The UI applies events to its turn store one at a time and,
independently, reloads whole sessions. Its components keep state of their own,
which lives as long as they are mounted; what they await goes on without them.
Every list the UI keeps is a copy which it changes, sends back whole, and
overwrites with the answers to reads.

What is hard in it: a turn's task, other tasks, commands, interrupts and
deletions interleave at every lock and await; the provider gate is held across
a stream that may never end; writes fail silently or half way, and the process
may die between two of them; answers arrive after what they describe has
changed, and after the component that asked is gone; timers fire into a page
that has moved on; handlers of one click see each other's effects in an order
no component chooses. The list by line, with the properties that cover each
entry or the reason none does, is under `hazards` in `PROJECT.json`.

What makes the components correct:

* kernel: one live turn per thread and one stream at a time; a turn ends in
  exactly one way, is announced once and persists what it streamed; the history
  given to the provider is the conversation; no gate or counter is lost on any
  exit; a turn ends unless its stream hangs uncancelled;
* shell store and market: the kernel runs the provider that is stored, secrets
  and fields nobody edits survive, records never name files that are not there;
* UI: the store shows the selected session, says "running" only of a turn that
  has not ended, and shows whole answers; a draft is sent once and where it was
  shown; a request that waits keeps its card and is answered with what it
  offered; no copy of the settings, tasks or plugins stays stale once all calls
  are answered; what runs or failed is not folded away;
* browser backend: what was announced is what a replay shows, turns end, and
  memory and `localStorage` agree.

## 2. Modules

Kernel:

* `SessionStore` - `SessionManager`. Every method holds the write lock for its
  whole body and is one atomic step. `update_turn` on a deleted thread changes
  nothing (`let _ =` drops the error).
* `KernelTurns` (extends it) - `KernelState` and the commands that call it.
  `task[u].at` follows `run_turn` in program order; each action is the code
  between two points where another actor can interfere: `SendMessage`/`Register`
  (`spawn_turn` before and after `try_lock`), `Announce`, `ReadHistory` or
  `LoseThread`, `EnterGate`, the polls of the biased `select!` (`Poll`,
  `OnDelta`, `Yield`, `Hang`, `Cancel`, `EndStream`), `Persist`, `Close`,
  `Settle`, `Count`, `EndTurn`, `LockTokens`, `DropToken`. An interrupt is
  `InterruptThread`/`InterruptTurn` (resolve the target), `LockCall`, `Answer`.
* `TurnProtocol` - what the kernel promises to a listener: no tasks, locks or
  tokens, only turns that are accepted, announced, get the floor, stream, are
  decided, explain themselves, end and leave. `KernelTurns` implements it
  (`ImplementsProtocol`), with the floor mapped to the gate and the decision to
  the fate of a task that has settled.

Shell store and market:

* `ShellStore` - memory, file, the command that saves, the provider slot.
  `Change` is the locked change of memory, then the save ends, fails, or the
  process dies; only then is the provider rebuilt. `Build` is
  `provider_config.rs` with its fallbacks.
* `SettingsSync` (extends it) - the copies of the UI. Calls of a window are one
  queue: posted, served and answered in order. A user action commits to the
  copy and posts calls; `Serve` runs the first that was not served; `Settle` is
  the continuation of the first that is answered, with the calls it posts.
* `PluginMarket` - each command is a sequence of file operations (`clear`,
  `copy`, `record`, `sync` to install, `drop` and `clean` to remove a
  marketplace); crashes fall between any two. `plugin_marketplace_add` is
  async and interleaves with the synchronous ones.
* `PluginsView` (extends it) - the page: `runGuarded`, the reloads after each
  operation, and what happens to both when the page is left and opened again.

The page:

* `TurnStore` - the turn store on top of `TurnProtocol`. Each action is one
  JavaScript task; `Render` is what React does before the next one, including
  the effect of `HomeView` and the reloads it starts.
* `TurnStream` - how a conversation is drawn: groups, the fold of a finished
  turn, panels opened by hand or by state, and which of that survives an
  unmount. `Render` is a render with its effects.
* `Router` - the hash, the route components see, and the queue of tasks between
  them. `Composer` and `Shell` extend it.
* `Composer` - the box and the calls of `send`, each with what it captured at
  the click; the mock's timers; prompts delivered by timers of other pages.
* `Approvals` - requests of a server, the channels they come by, the list, the
  cards, and replies under way. The command that takes a reply is in the
  repository: it never fails by itself, answers `ok: false` and settles nothing,
  and a card goes away on any answer. What raises the requests and settles them
  is external. `Shortcuts` - menus, bindings and how a key
  press is matched; pure operators, with the assumption that the menus' own
  bindings are distinct, which TLC evaluates. `Shell` composes both with `Router`
  and adds the menus: what each listener on the document does to each menu
  (`PointerDown`), then what the click itself does.
* `ScheduledTasks` - the page's list, the busy flags, the drawer and its timer,
  the store behind it or `localStorage`.
* `BrowserStore`, `BrowserDev` - the TypeScript backend: tabs that share
  `localStorage`, threads and the timers that play their turns.

`MC*` modules give TLC its constants, symmetry and constraints.
`KernelTurnsProofs`, `TurnStoreProofs`, `SettingsSyncProofs`, `PluginsViewProofs`,
`ScheduledTasksProofs`, `BrowserDevProofs`, `ComposerProofs` and `ViewsProofs` hold
the proofs; the last is about `Shell` and `TurnStream`.

Definitions whose name starts with `M` are plausible mistakes (a dropped guard, a
missing reset). No specification uses them; substituting one for the definition
it mutates makes the property named in `PROJECT.json` fail.

Abstractions of the kernel. A text is the number of its deltas. Usage chunks,
`thread/status/changed` and other thread notifications carry no control and are
left out. An error chunk is part of the verdict, because the code looks at
`provider_error` only when the stream has returned. Ids come from counters and
are never reused. The token map is a set of turns plus the set of cancelled
ones. The gate is granted to any waiting task (tokio grants it in order of
arrival, one of the orders explored), and fairness keeps anyone from being
overtaken for ever. `kernel_selftest` creates its thread and begins its turn in
one step: a command that got in between would make it fail, leaving what
`NewSession` leaves. Lock poisoning and panics are not modelled.

Abstractions of the stores. A value is the number of the edit that wrote it, so
that a stale copy shows. Fields that the code treats alike are one field; which
ones is in the header of `ShellStore` and `BrowserStore`. `write_json` and the
save of the shell store replace a file by a rename, taken to be atomic.

Abstractions of the UI. In `TurnStore`: no order, phase or timing of blocks,
`HomeView` stays mounted, a thread is abandoned only when it was deleted. In
`TurnStream` the kernel is replaced by arrivals in any order the reducer
accepts. In `Composer` the turn becomes active or not at any time. In `Shell`
sessions and settings are left to the other modules: a deletion, from the context
menu or by the button of a row, is what it may do to the cards. Delivery keeps the order
in which events were emitted, but an event and the answer to a command may
overtake each other, which Tauri does not rule out. The browser is assumed to
run a page's own tasks, `hashchange` events and timers of 0 ms, in the order in
which they were queued (`Router`); `PromptReachesComposer` rests on it.

## 3. Runs

| Run | Instance | Question |
|---|---|---|
| `KernelTurns` | 2 threads, 2 turns, 1 interrupting caller, 1 placeholder and 1 real provider, 1 chunk | all kernel safety, and the refinement of `TurnProtocol` |
| `KernelTurnsLive` | the same without chunks, one provider | do turns end, do interrupts stop streams |
| `TurnStore` | 2 sessions; two turns that overlap, or one of a chunk during two moves; 2 sends, 3 reloads at once | which session is shown, is it running, are answers whole |
| `TurnStoreRoles` | 1 turn | violation: live and replayed paths converge |
| `TurnStream` | 1 session and the mock one, 3 items of three kinds, 2 turns, 1 click, 1 move | groups, panels, folds |
| `TurnStreamFailure` | the same | violation: a failed turn is surfaced in its header |
| `SettingsSync` | 2 providers, 1 project with a session, 3 user actions, 1 failing save, 1 crash | copies, secrets, the kernel's provider |
| `PluginsView` | a repository and a folder with one plugin, 3 clicks, 2 visits, 1 failure, 1 crash | files and records, and what the page shows |
| `ScheduledTasks` | 2 suggested tasks, 5 clicks, 2 failures | no change is lost, the drawer stays, the page settles |
| `BrowserDev` | 2 tabs, 2 threads, 2 turns of 2 pieces, 2 writes, 1 reload | memory and store, events and replay, ends |
| `Composer` | 1 session, 2 drafts, 1 file, 2 queued tasks | sent once, where shown, never stuck |
| `Shell` | 1 request of any of three kinds, 2 replies; one menu of each sort; 1 queued task | menus, the list of requests, cards and their answers |

Why the bounds suffice. *Kernel*: every hazard is between a turn and one other
actor: another turn of the same thread, a turn of another thread that has the
gate, an interrupt, a deletion, a change of provider. Two turns on up to two
threads and one caller give all of these, also in combination; one chunk tells a
turn that streamed from one that did not. *TurnStore*: one move leads from a
running session to a second one while notifications of the first are due; two
moves lead away from a stream and back; three reloads at once cover a click, the
effect it triggers and one left over. *TurnStream*: a group needs two members
and a neighbour; two turns are one finished and one fresh. *SettingsSync*: three
actions are a change, one that overtakes its answers, and one that uses the
copy in between. *PluginsView*: an operation, one that would overtake it, and
one on the page opened again. *ScheduledTasks*: five clicks add a task, toggle
one during the save, close the drawer and open it again. *BrowserDev*: the
second tab is the one that overwrites, the second thread the one whose timers an
interrupt clears. *Composer*: a second draft while the first is on its way;
leaving, coming back and a prompt fill a queue of two. *Shell*: one request meets
its own end, its replies and a switch of sessions; requests do not affect one
another but through the order of events, and `ViewsProofs` covers any number.

How the runs are reduced, without losing behaviours a property can tell apart.
*Symmetry*: ids are compared only for equality; only safety runs use it.
*SessionsFirst*: creating a session commutes with all other steps, and so does
deleting one that never had a turn, so sessions are created before the first
turn (the selftest's excepted). *IdsInOrder* (`KernelTurnsLive`): `IdGen` hands
ids out in increasing order. *FloorLeftAtOnce*: leaving the floor is invisible to
the UI and only enables another turn to take it. *Scenarios* (`TurnStore`): two
turns that overlap without text and one move, or one turn that streams during
two moves with two reloads at once; combinations of the two are not explored.
*Apart* (`BrowserDev`): the store's commands and the kernel's touch disjoint
variables and no property relates them, so each sort runs on its own.
*PillsWithCards* (`Shell`): menus and requests have no state in common but the
route, which shortcuts and the native menu change as menus do, and no property
relates them; so the menus of the title bar and the sidebar are opened only
before the first request. All other
bounds (`Max...`) are guards in the modules.

Deadlock is not checked where an instance has finitely many turns, clicks or
writes: when they are used up, the system rightly stops. `Composer` and `Shell`
check it.

Fairness. *KernelTurnsLive* (`FairSpec`): tokio runs a ready task eventually, so
a task's own steps are weakly fair (`Prompt`). The gate and the token mutex are
FIFO, so a waiting task is not passed over for ever, which is strong fairness of
the granting step (`Waits`, and `LockCall` for interrupts). A stream that keeps
being polled ends, since an answer is finite; that is in `Waits` too. Nothing
obliges a provider to send another chunk or to hang (`Whim`), nor a user to
issue a command. *ScheduledTasks*: commands that were posted are served, and the
drawer's timer fires. *BrowserDev*: a timer that is set fires. The other modules
state no fairness and have no liveness property.

What the passing runs show.

* Kernel: no interleaving of two turns, an interrupt, deletions and provider
  changes breaks the kernel's promises to its store and to its listeners,
  although a thread accepts its next turn while the task of the previous one
  still holds the gate and its token. A turn ends unless some stream hangs and
  was not cancelled; a cancelled hanging stream is dropped.
* `TurnStore`: the dependency of the effect on the bound session repairs every
  late reload and every foreign `turn/started`; "running" always has something
  to wait for; a completed answer is whole, since `item/completed` overwrites a
  text that deltas and reloads may have torn or doubled.
* `TurnStream`: although the state of rows and folds outlives what it was set
  for, a failure ends up open and a running turn unfolded.
* `SettingsSync`: once all calls are answered, the copies agree with the store
  unless one was overtaken or failed; the provider lags behind the store only
  after a save that failed; no step makes the file lose a secret, and memory
  loses one only to a restart that finds its save unfinished or failed.
* `PluginsView`: records never name files that are not there, except after a
  reinstallation that was cut short; the page's guard
  keeps the unlocked add from losing a marketplace as long as the page stays.
* `ScheduledTasks`: the guard of the cards keeps toggles apart although each
  sends the whole list.
* `Composer`: closing over the flag and the selection of the last render does
  not send a draft twice or elsewhere, in spite of the await before a new
  session is known.
* `Shell`: a pointer leaves at most one menu open; a card is never left without
  its request if the channel of its end could be bound; a card is disabled
  exactly while one answer of its own is under way, through removals, failures
  and the page going away and coming back. The run's offers are an empty list and
  one with a decision the page does not know.
* `BrowserDev`: an interrupt that clears the timers of every thread still leaves
  each turn with an end that a replay shows.

## 4. Findings

With a run:

1. *After a reload the user's messages look like the agent's* (`TurnStoreRoles`).
   The loader reads `role`, the kernel sends `itemType`.
   `T/commands/kernel.rs:344-346`, `A/state/turnStore.ts:376`.
2. *A failed turn is not surfaced* (`TurnStreamFailure`). The end of a turn makes
   the page reload its session, and the reload resets the turn.
   `A/views/TurnStream.tsx:128-132`, `A/views/HomeView.tsx:158`.

Without a run: properties that comments state, that TLC refutes, and that stay in
their modules under a heading that says so. Adding one to
the cfg named here shows its counterexample: `InterruptTakesEffect` and
`BubbleStays` as a PROPERTY, the others as an INVARIANT.

3. `InterruptTakesEffect` (`KernelTurnsLive.cfg`): the wait for the gate does not
   watch the token. `docs/ARCHITECTURE.md:78`.
4. `CancelledMeansInterrupted` (`KernelTurns.cfg`): the token stays in the map
   until the last line of the task. `T/kernel/state.rs:428`.
5. `LiveTurnIsInterruptible` (`KernelTurns.cfg`): `try_lock` also fails when an
   interrupt or another thread's finishing task holds the map, and the turn then
   runs without a token. `T/kernel/state.rs:159-161`.
6. `ItemsNeverLeak` (`TurnStore.cfg`): item notifications are applied whatever
   thread they name. `A/state/turnStore.ts:337`.
7. `BubbleStays` (`TurnStore.cfg`): the guard of the reload is evaluated when it
   starts, the commit at its end is unconditional. `A/views/HomeView.tsx:155-157`.
8. `SidebarIsPersisted` (`SettingsSync.cfg`): a setting changed before the first
   read of the settings is answered saves the page's defaults over the stored
   ones, while the sidebar then follows the old answer: it is shown collapsed and
   stored as open.
9. `ProjectIsRecovered` (`SettingsSync.cfg`): a new project is saved in the
   settings first and its folder in the preferences later; a crash between the
   two leaves an active project that is not among those shown.
10. `OnlyOffered` (`Shell.cfg`): a decision that was not offered can be sent. For a
    list that is empty, or has no decision the page knows, `decisionsFor` falls
    back to the defaults. `A/approvals/decisions.ts:9-10` and `:76-77` say never;
    `:83`.
11. `AnsweredMeansSettled` (`Shell.cfg`): the command settles nothing and says so
    for a page to learn "the card is stale"; the cards ignore the answer and go
    away, whether or not the request still waits.
    `T/commands/kernel_config.rs:697-699`, `A/approvals/ApprovalCard.tsx:55-61`.

Met while reading, and modelled as the code has it:

* `A/shell/ContextMenu.tsx:37` resets the turn whichever session was deleted; the
  comment says only the active one. The menu is dismissed by nothing else.
* `A/approvals/ApprovalHost.tsx:2` "every outstanding" request: those that came
  before a switch of sessions are no longer on the list.
* `A/shell/Dropdown.tsx:104` compares the target with the button itself, so a
  press on the label inside closes and opens again.
* `A/shell/AppShell.tsx:148` a step back without a selected task goes to the last
  but one.
* `A/blocks/registry.tsx:188` the effect that should run "only on the
  running -> done transition" also runs at mount, so a row that starts open
  because it failed shuts itself.

## 5. Proofs

Assumptions are the named `ASSUME`s of the modules: ids and `None` (or
`NoThread`) are told apart, `None` is not what the shell store holds, bounds are
numbers, a tab with a kernel is a tab, a history is a sequence of roles.
`SyncAssumption` also wants a provider
and an edit, without which nothing could be shown or changed.
Sets may be infinite. Each invariant below was checked by TLC on the component's
run before it was proved.

`KernelTurnsProofs` proves `IInv`, the conjunction of

* `TypeOK`, strengthened by `Decided`: a task past its stream has a fate;
* `TaskAndStore`: where a task is determines whether its turn exists and, as
  long as its thread does, whether its status is terminal;
* `OneLiveTurnPerThread`, `OneTurnPastTheGate` and `HistoryIsCurrent`.

`OneLiveTurnPerThread` follows from the guard of `begin_turn` alone only if no
step makes a terminal status live again, which is what `TaskAndStore` adds.
`HistoryIsCurrent` needs both: the answer of another turn of the thread could
change only if its task were still before `Persist`, so its status would be live
and there would be two live turns. Theorems: `TypeCorrect`, `Exclusive`,
`GateMutex`, `HistoryStaysCurrent`.

Its second half, about what the UI is told, rests on `IInv` and adds

* for `AnswersArePersisted`, `AnswerCounted`: what a task has accumulated, then
  what it has stored, is the number of deltas in its log;
* for `EndsAreAnnounced`, `LogShape`: where a task is determines what its log
  says of the turn - nothing before it is announced, its end once and last, an
  item or an error before that as its fate demands;
* for `CountersAddUp`, `Balance`: finitely many turns were started and are not
  counted yet, and with them the sum is right. The turns may be infinitely many,
  so the set is known to be finite only because it grows one at a time;
* for `KernelImplementsProtocol`, both: the gate is the protocol's floor, a fate
  is a decision once the task has settled, and every other step of the kernel
  stutters. The guards of `TurnProtocol`'s actions follow from `LogShape` and
  `TaskAndStore`.

`OldTurnsAreSilent`, an action property, needs `IInv` alone.

`TurnStoreProofs` proves `BoundAlways`: `BoundToSelection` is inductive by
itself, since all tasks change the store through `Render`, and one that would
leave it bound to another session has changed a dependency of the effect. The
other theorems (`TypesCorrect`, `RunningTurnsAreReal`, `CompletedAnswersAreWhole`)
come from `IInv`, the conjunction of

* `Types`, which says besides `TypeOK` when a message under way has a session;
* `Queue`: a notification that opens something has the one that closes it behind
  it, if the kernel has sent that; `item/completed` carries the whole answer;
* `Live`: an active turn belongs to a session, and `RunningIsReal`. When
  `turn/started` makes a turn active, its end is still in the queue by `Queue`;
* `Content`: an answer on screen is whole or its completion is on its way; what
  a reload brings was final when it was read, and is whole.

`CompletedAnswerIsWhole` alone is not inductive: a reload may put a torn answer
on the screen, and only `Content` says that the repair is in the queue.

`SettingsSyncProofs` proves `SlotFollows`. `SlotFollowsStore` says nothing while a
command saves; the invariant is that the slot is current unless the command that
saves will rebuild it, which rests on the preferences not being an input of
`Build` (`PreferencesDoNotBuild`). `SettingsStayTogether` says nothing while a
call is on its way; `SyncInv` adds to the types that calls are done in order
(`Ordered`), that an answer which no later save has overtaken is what memory
holds (`Fresh`), and that unless an action went by a stale copy the copies show
what memory holds or what the last save in the queue brings (`Shown`).
`SecretsAreKept` is an action property over every step, crashes and failed saves
included. It rests on `SavedInv`: what the file holds memory holds too, and
memory holds more only while a command saves or after a save that failed.

`PluginsViewProofs` proves `FilesAreBehindRecords`, `PersonalCatalogFollows`,
`NoMarketIsLost` and `PageIsCurrent` from `IndInv`:

* `Files`: only the command at the head of the queue has taken a step, so what
  it has copied or forgotten stays so until its next one;
* `Solo`: as long as no page was left during an operation, one guarded operation
  is under way at most, queued or adding, and while it is, the page is busy;
* `Followed` and `Current`: a busy or loading page still has an operation or a
  read of its own under way; without operations, what the page shows of each
  list is what the files hold unless a read of that list is in the queue, and
  the last read of the catalogue asks for the marketplaces there are. This is
  what makes reloads that overlap harmless: the reads of each are ordered, those
  of two are not, but every one that counts has no other of its kind behind it.

`ScheduledTasksProofs` proves `ChangesStay` and `OpenDrawerStays`. `ChangesAreKept`
says nothing while a command is on its way. Unless a save was blind - built from
a list that was not the latest, or failed - at most one save is on its way and
carries what the user wants (`Kept`). It rests on the order of the queue
(`InOrder`: a page that shows a list was answered after all saves of earlier
visits), on a page without a list having a read of its own on its way (`Pending`),
and, for the drawer, on its timer running only while it closes (`DrawerFits`).

`BrowserDevProofs` proves `StoreIsTyped` and `MemoryStays`: with the type of the
tabs' objects, every command keeps memory and store equal, or has its write
refused and forgets who wrote last. `ReplayIsFaithful` comes from `KernelInv`, which
says of every turn, in sight or not, what `ReplayMatchesEvents` says of those that
can be read, and adds `Playing`: a turn with a timer runs, so no piece follows its
end, and a turn that was never started has not ended, so starting it takes no end
back. Its lemmas `NotTold` and `ToldOnce` say what telling more does to the places
at which a kind of message was told, and to their number.

`ComposerProofs` proves `DraftIsSentOnce`, `MessageGoesWhereShown`, `ComposerIsFreed`
and `MockCanBeStopped` from `Inv`: a composer has at most one call and is blocked
exactly while it has it (`OneCall`); a draft still in the box can be under way
only before its session is selected (`BoxIsFree`), when the flag disables the
button; prompts on their way carry drafts not seen before (`Numbered`); at most
one mock turn has timers (`OneScript`). `PromptsAreHeard`, an action property, rests
on the router's queue: a hash the components have not read has its event queued
(`Awaited`), and as long as the user has not moved, a prompt on its way finds the
home page mounted or is behind that event (`Led`). A prompt may be picked while
the hash already says home and the event of an earlier navigation is still queued;
without `Awaited` nothing would mount the composer then.

`ViewsProofs` proves, of `Shell`, `NoCardOutlivesItsRequest` from `CardsInv`: an
"ask" in the queue of a settled request is followed by its "resolved"
(`EventsOrdered`); nobody listens for requests before their ends can be heard
(`EndsHeard`); a request that was never asked has no card and no answer
(`AskedOnly`). `BusyCardsHaveAnAnswer` comes from `AnswersInv`: every step
that forgets cards disowns the answers they wait for, so none comes back to a
card that did not send it, and every other step that ends a call frees its card.
`PointerLeavesOneMenu` rests on `MenusInv`: a
pointer leaves open only a menu at the place where it went down, and what its
click opens is at that place too.

Of `TurnStream` it proves the other three properties, for any list of items.

* `RowsStayRuns`. What the recursion in `Nodes` computes needs an induction, and
  the library's induction theorems take an operator, which the provers cannot
  instantiate. Its theorem on well-founded relations does not: `LeastElement`,
  that a set of naturals has a least element, follows from it. `RowsDefined` uses
  it to show that the recursion defines a function at all, `NodesAreCut` that the
  rows begin where the last one ends (`Cuts`, with `RowEnd` for the loop of
  `groupProcessItems`), `RowsFlatten` that put together they are the items. By
  `RunEndBounds` a row is a run that could not be longer.
* `ErrorsAlwaysOpen` from `PanelInv`: ids are unique and out of those that were
  made (`ItemsOK`), and the panels are those of the rows that are drawn. A drawn
  change keeps it because an item that has ended is not changed any more
  (`Lasting`): each operation on the list is shown to respect that. A click
  changes the memory of one key and the ghost of one item; that no other key
  belongs to that item (`PanelsApart`) rests on `Cuts` again.
* `LiveTurnStaysUnfolded` from `FoldInv`: what is folded is in view and does not
  run. A home view that is not mounted has no fold, so it cannot bring one back.

Checked by TLC only: liveness, which rests on fairness and is out of the prover's
reach (`EveryTurnEnds`, `InterruptStopsStream`, `PageSettles`, `TurnsEnd`). Every
other property of the passing runs is a theorem.

## 6. Not modelled

* `T/kernel/{http_provider,sse}.rs`: what they yield is; how bytes and JSON
  become that is not.
* `T/codex/adapter.rs`: no command reaches it.
* The tabs of the settings other than the account's, and the pet overlay:
  `SettingsShell` never mounts them. With them `preferencesStore.ts`.
* `T/commands/{pets,cinema,connectors}.rs`: each replaces a list in the shell
  store and saves; no mounted view calls them. `BrowserStore` has their shape.
* The virtual file system and the probe of the browser backend; probing a
  provider; file dialogs; git.
* Strings, translations, catalogues, styles, zoom, clipboard, window buttons.

## 7. Plan

1. `SseDecoder` and `HttpStream`: chunking, overflow, unterminated ends, and the
   verdict they give; reference decoding over bounded inputs.
2. `SessionStore`: list order, archive flag, titles.
3. `ResponsesEmitter`: the adapter's event stream against the item protocol, once
   something calls it.
