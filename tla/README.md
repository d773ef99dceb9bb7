# Fleet Agent: models, checks and proofs

TLA+ specifications of Fleet Agent, its server (`src/apps/api`) and its browser
application (`src/apps/web`), model-checked with TLC and, where a module ends in
`Proofs`, proved with TLAPS. Paths are relative to `src/apps/api/app/` (the `.py`
files) or `src/apps/web/src/` (the `.ts` and `.tsx` files).

## 1. The system

Fleet Agent is a FastAPI server that runs DSPy agents for a browser workspace.
The browser POSTs a run to `/agent` and receives its events as a server-sent
stream (AG-UI). Threads, messages, runs and state snapshots live in PostgreSQL;
everything else about a run lives in the process and dies with it. The
browser keeps API keys, provider profiles and the layout in its own storage.

### The server

| Component | State it keeps | Operations | Interacts through |
| --- | --- | --- | --- |
| Run store (`persistence/`, `api/threads.py`, sweep in `main.py`) | rows of threads, messages, runs, snapshots, histories | reserve, start, settle (completed, failed, cancelled), message PUT, head PUT, create, delete, restart sweep, bootstrap of a reload | database transactions of request handlers and coordinators |
| Live run coordinator (`agui/live_coordinator.py`) | generator position, public run state, settled and emitted flags, timer, settling task | stream, settle, cancel, time out, retry | event bus, engine task, client disconnect, run store |
| Event bus, cancel token (`agent/event_bus.py`, `cancel_token.py`) | queue, flag | publish from worker or loop, close, next, cancel, check | `call_soon`, `call_soon_threadsafe` |
| Engine and callbacks (`agent/engine.py`, `callbacks.py`) | worker thread | tool start and end, streamed fields, result | event bus, cancel token |
| Run admission (`api/agent.py`) | semaphore | preflight, acquire, reserve, stream, release | run store, coordinator |
| Fixture coordinator (`agui/run_coordinator.py`) | position in a script | replay | client |
| Trace reducer, event mapper (`agui/`) | public run state | domain event to JSON patch | coordinator |
| Sources and artifacts (`repositories/`, `services/artifact_storage.py`) | rows and files | record, store, delete | coordinator, tools |
| Scrubber, tools, approval, gateway, routing, specifications | little or none | pure functions and provider I/O | engine |

### The browser

| Component | State it keeps | Operations | Interacts through |
| --- | --- | --- | --- |
| Thread history (`features/threads/`, `features/agent-runtime/`) | chain of message writes, write barrier, head last published, head being retried | load, append, wait for the barrier, publish and retry a head | message and head PUT, run requests, callbacks of the assistant-ui runtime |
| Providers and sign-in (`features/providers/`, model picker) | registry and keys in `localStorage`, verifier in `sessionStorage`, copies in the hooks | add, edit, select, remove, sign in, exchange a code, pick a model, send a run's headers | storage events between tabs, redirects of OpenRouter |
| Routes and project sidebar (`app/routes/`, `features/projects/`) | address, query cache, running mutations, name dialog | navigate, redirect, first conversation, create, rename, delete, automatic title | react-query, projects and threads of the server |
| Sidebar kit (`components/ui/sidebar*.tsx`, `hooks/use-fluid-hover.ts`) | open and peeking flags, timer, drag, drawer; registered rows, measured boxes, focus | toggle, peek, resize, hover, keyboard, fold | animation frames, pointer, keyboard, cookie |
| Layout, theme, artifacts, switch (`components/workspace/`, `state/`, `features/process-panel/`) | persisted store, panel sizes, selected artifact and its preview, thumb of the switch | collapse, resize, change theme, select, preview, drag | `localStorage`, media query, API |
| Conversation view (`components/assistant-ui/`) | composer, badge, approval controls, pin of the reasoning preview | send, edit, reload, branch, approve, confirm, scroll | the assistant-ui runtime |
| Cards, dialogs, attachments, markdown, remaining pages | folded or zoomed flags, a query each | markup | props |

The assistant-ui runtime, react-query, React and the browser are external: they
are modelled by the steps they show to this code. An effect of React runs with
the event that makes it due, an animation is the moments it starts and lands.

### What is hard

* **Transactions that interleave.** The message PUT reads the tree without a
  lock and writes later; answers, edits, head moves, settlements and deletions
  come from different requests.
* **Cancellation.** A client may leave at every await; at a yield the
  generator is not told and is dropped. A commit may have happened although
  its await raised.
* **Two clocks.** The run timeout covers the loop, including the settlement of
  a disconnect inside it; that settlement has a bound of two seconds of its own.
* **A worker that cannot be stopped.** The engine's thread sees only the cancel
  token, and only before a tool.
* **Crashes.** A restart finds live rows whose coordinators are gone, and
  snapshots stored under several heads of the tree.
* **A permit with many exits.** Every path through the handler must return it once.
* **Writes the server must see in order.** The browser's message writes are
  queued by callbacks of a running conversation, a run must not overtake
  them, and head writes are retried while the user changes the branch.
* **Copies.** Every tab and hook has a copy of the stored providers, every query
  a cached list: what is decided on a copy may be stale when it is used.
* **Effects that run twice, answers that arrive late.** The exchange of a
  sign-in code, the first conversation of a project, the preview of an artifact.
* **Events the browser delivers later.** Clicks after a drag, scrolls after a
  resize, frames and timers armed in an earlier state.

`PROJECT.json` lists the hazards at their lines, with the properties for them.

## 2. The modules

| Module | Models | Kind |
| --- | --- | --- |
| `Branch` | the parent links of a thread's messages and the walks over them | operators |
| `RunStore` | every transaction of the run store | state machine |
| `RunContract` | what a client may rely on: the stream and the stored outcome | abstract specification |
| `LiveRun` | the live coordinator with bus, token, worker, client and timers; implements `RunContract` | state machine |
| `FixtureRun` | the fixture coordinator; implements `RunContract` | state machine |
| `Admission` | admission and the semaphore | state machine |
| `HistoryHead` | history adapter, run request and head synchronisation, with the server's tree | state machine |
| `BrowserStorage` | `localStorage` and what tabs hold of it | operators and actions |
| `SignIn` | the OpenRouter sign-in; extends `BrowserStorage` | operators and actions |
| `Providers` | settings dialog, model picker, headers of a run; extends `SignIn` | state machine |
| `Workspace` | routes, query cache, mutations and redirects of one page | state machine |
| `Sidebar`, `SidebarMenu` | the sidebar kit and the menu in it | state machines |
| `Theme`, `Panels`, `Artifacts`, `Switch` | the theme of all tabs, the panels, the previewed artifact, the switch | state machines |
| `Conversation`, `ToolCall`, `Reasoning` | the conversation, a tool's card, the reasoning preview | state machines |
| `Interface` | the page made of the nine modules of the last three rows, and its four invariants | composition |
| `MC...` | the instances TLC checks | for TLC |
| `RunStoreProofs`, `AdmissionProofs`, `LiveRunProofs`, `FixtureRunProofs`, `HistoryHeadProofs`, `ProvidersProofs`, `WorkspaceProofs`, `InterfaceProofs` | theorems about the module they are named for, the last about all nine parts of the page | proofs |

### The server

**RunStore.** `thread`, `msg`, `run` and `state` are the tables; an id without a
row has the value `NoMsg`, `NoRun` or `NoState`. One action is one transaction,
except the message PUT: `CheckPut` reads (parent, cycle walk) and remembers the
write in `pending`, `WritePut` upserts and moves the head. `stage` is how far
the coordinator of a run has come; `Restart` clears it and sweeps, or skips the
sweep as `lifespan` does when the database is down. Message contents, titles,
times, token usage and histories are left out. A settlement moves the head if it
is still the input of its run; for a run without an input message that
comparison is `IS NULL` (`run_persistence.py:389`), so that it moves an empty
head. A history row is written together with a snapshot, except when a run is cancelled. `interrupted` is a status the sweep
knows and nothing writes.

**LiveRun.** `pc` names the await or yield at which the generator is suspended
and an action is what it does up to the next one. A yield of several events is
`todo`, and `after` is where it goes on. `Cancelled` is the `except
CancelledError` of the try block, `Escapes` an await outside it, `Drop` a
consumer that is cancelled while the generator waits at a yield. `settler` is
the task of `settle_cancelled`, shielded from the cancellation of its waiter.
The queue holds kinds of events; the sentinel `DONE` is what
`close_from_loop` schedules. `row` and `snap` are the rows of this run.
The constant `Mishaps` names what else may happen in an instance: a failing
read or write (`preflight`, `mark`, `history`, `build`, `record`, `settle`), a
settlement slower than its bound (`slow`), the run timeout (`timeout`), a
dropped generator (`drop`). A settlement that fails may have committed.

**RunContract.** Two variables, `wire` and `row`: a stream opens with
`RUN_STARTED` or is a lone `RUN_ERROR`, has one terminal event at most and
nothing after it, and the terminal event and the stored outcome, which is
written once, never contradict each other. `LiveRun` and `FixtureRun`
instantiate it and have its behaviours as the property `KeepsContract`.

**Admission.** `pc` per request, the semaphore's counter, the run ids with a
row, and the worker thread of each engine. A request with bad
provider headers (422), one for a missing thread or a run that has a row
(404, 409) and one that meets a failing database (503) leaves before it
takes a permit. A response that is cancelled before
its generator is asked for a chunk (`NeverStarted`) runs no `finally`.

### The browser

**HistoryHead.** `local`, `head` and `running` are what the assistant-ui runtime
shows the adapter. `writes` is the promise chain of `appendToThread`, first in
first out (`Due` says which write may settle), `outcome` what became of a
message's write, `barrier` the last write, for which `request` (the fetch of a
run) waits before it asks for the capabilities and posts. `sync` are the refs
of `HistoryHeadSync`, `chain` the head write under way with its retries, and
`strays` are aborted head requests that may still reach the server. `stored`
and `serverHead` are what a reload would restore; the server refuses a message
whose parent it lacks, as `RunStore.CheckPut` does. One thread.

**BrowserStorage, SignIn, Providers.** `storage` is `localStorage`, `view` what
the hooks of a tab hold, `pending` the storage events on their way. `verifier`
is `sessionStorage`, `url` the code in the address, `exchange` the requests that
trade a code for a key. In StrictMode the effect of the root runs, is cleaned
up and runs again: the exchange of the first one goes on (`Cancelled`), its
answer stores the key, but nobody takes the code out of the address or keeps
the error. `form` is the dialog. A run takes two steps: the composer sends
while its gate is open (`Submit`, `starting`), and once the queued writes and
the capabilities are awaited the headers are read (`Run`); other tabs, storage
events and edits come in between. The answer of the capabilities and the
reading of the headers are one step, as they are in the code. `sent` remembers
the route those headers name.

**Workspace.** `loc` is the address, `query` what react-query holds per key
(data, an error, a fetch under way, a snapshot read at the server), `ops` the
mutations between request, answer and the refetches they wait for, `route` the
mounted `WorkspaceRoute` with its refs. A redirect is part of the step that
makes it due. The server's rows are lists of ids. A mutation that was answered
waits for the refetches it asked for (`refetch`); one whose lists were not in
use, or whose refetch failed, goes on without them (`missed`).

**Sidebar, SidebarMenu.** The state of the hooks of `sidebar-core.tsx`,
`sidebar-menu.tsx` and `use-fluid-hover.ts` under its own names. Widths are a
few positions of the pointer around the two thresholds; a measured box is the
row it was measured for, so a box that only moved counts as measured. A document is a member of `Documents`, and a row that
is mounted or goes leads to another; which provider answers a key, which box is
nearest and where an arrow leads are said by what distinguishes them
(`Outermost`, `PickNearest`, `ArrowKey`), not by the loops that find them.
Both are models of the component kit, more of it than the program uses: its one
provider (`project-sidebar.tsx:107`) is docked (`collapsible="none"`), has no
peek, rail, drawer or nested provider, and its menus have no sub-menus. The
instance of `interface` configures them all; hazards are listed only for what
the program mounts, the rows of its menus.

**Theme, Panels, Artifacts, Switch.** `stored` is the persisted preference,
`listening` a tab's registered listener, `styles` the style elements that stop
transitions: a change of the theme adds two, one by the setter and one by the
effect. `saved` are the panel layouts per width. `requests` are fetches of
a preview, given up or not. `thumb`, `origin`, `clickDue` follow the pointer
over the switch, in the pixels of the code.

**Conversation, ToolCall, Reasoning.** `lastSeen` is the reference the badge
counts from; `request`, `submitted`, `confirmingId` are the approval controls,
whose state dies with the panel (`mounts`); `pinned`, `lastTop`, `lastHeight`
are the refs of the preview, and `scrollDue`, `resizeDue` events the browser
owes. Variables marked `history` or `ghost` exist for the properties only.

## 3. What the runs check

| Run | States | Question |
| --- | --- | --- |
| `branch` | 866,900 | Do references, answers, snapshots, branches and outcomes survive every interleaving of two runs, four writes, head moves, restarts and deletion in one thread? Is the invariant of the proofs true? |
| `contract` | 11,667 | Does a live run implement the contract, end, and answer a client that stays? Is nothing published late shown, and does no tool outlive the stream? |
| `settlement` | 1,973 | Do stored outcome, snapshot and stream agree when the database settles? |
| `fixture` | 1,176 | Does every script of up to four events implement the contract? |
| `admission` | 51,366 | Are permits, run ids, engines and answers in order under retries, failures and disconnects? |
| `history` | 245,134 | Do writes arrive in order, does a run wait for them, is the published head the restored one, and does it all come to rest? |
| `providers` | 774,727 | Do tabs agree with what is stored, is a code exchanged once, and does a run take the route the picker shows? |
| `workspace` | 101,156 | Is one conversation opened per visit, is a created one shown, a deleted one left, a given title kept? |
| `interface` | 693,238 | Does what the interface shows stay in step with what happened? |

**The bounds and why they are enough.**

* `branch`: `MaxPending` PUTs between check and write (one, so that checks and
  other transactions interleave but two unserialised checks do not: see the
  finding), two runs (a run and its follow-up, edit or regeneration), four
  message ids (two prompts, two answers).
* `contract`, `settlement`: two tool calls, one before and one after a
  cancellation or timeout.
* `admission`: four requests on two permits (a retry, a saturated request and a
  free one).
* `history`: a restored turn, its regeneration, a follow-up and an edit, three
  switches of the branch or regenerations (`MaxMoves`), two retries
  (`MaxRetries`) where the code has more of the same; a message write, a head
  write and a run may fail, and branches may be switched mid-run.
  The late head request (`late`) and the return to the published branch
  (`return`) are left out: with them the published head need not be the
  restored one (section 5). A run that completes on the server after the browser
  lost its stream moves the head there too: that step belongs to
  `RunStore.RunCompleted` and is not one of this module.
* `providers`: two tabs, which are symmetric (the specification has no
  fairness), one custom profile that may be entered with two drafts, one key,
  two models, one sign-in, three of edits, runs sent and restarts of the server in
  the other mode together (`MaxEdits`); storage and exchanges may fail. A
  second sign-in is a matter of the proofs, which leave out only a code of an
  older one (`stale`).
* `workspace`: two projects, three threads, three actions of the user,
  background refetches or lost requests together, so that two mutations overlap with a
  refetch. `retitle` is left out (section 5): that the page forgets which titles
  it asked for while one is on its way, or that an answer read before a title
  arrives after it.
* `interface`: the nine parts share no state and call none of each other's
  handlers, so `Interface` moves one of them, chosen at the start. A page
  with a nested and a separate sidebar, menus of up to two of three rows, one of
  which is in a sub-menu, two tabs, three artifacts, four messages, three options of an
  approval, five lines of which two are seen. `Shapes` asserts the assumptions of the parts.

More of the same adds no new kind of interleaving; the proofs cover every size
for what they prove.

**Fairness.** *Server.* `LoopFairness`: asyncio keeps running ready tasks and timers
(`asyncio.timeout`, `wait_for`) and a consumer that is not dropped asks for the
next event. `WorkerFairness`: provider and tool calls return. The second is an
assumption, not something the code enforces: the wait after a timeout
(`live_coordinator.py:444`) is not bounded, so a tool that hangs keeps the run
open past `run_timeout_seconds`. In `Admission` handlers are
scheduled and engines end; in `FixtureRun` the generator is scheduled. No
fairness is assumed of clients, of failures, or of an engine being started.
*Browser.* `HistoryHead`: promises and timers run and every request is
answered, with an error if need be. `Workspace`: every fetch and every mutation
is answered. Nothing is assumed of the user; his actions are bounded.
`Providers` and the interface are checked for safety only.

**Each property has a mutant**: an operator next to a definition, marked as
such, that changes it the way a plausible bug would (a dropped guard, an
overtaking sentinel, a lost release, a missing reset). With it, TLC finds the
property violated. The four properties of `interface` are conjunctions over
the parts and have several mutants, in different parts.

### What the checks refute

Each of these runs ends with a counterexample to something the repository says.

| Run | What happens |
| --- | --- |
| `crossed_puts` | Two concurrent message PUTs hang two roots below each other: both cycle walks pass, and the tree is cyclic. |
| `restore` | `mark_running` stores a running snapshot under the input message; `run_completed` stores under the answer and leaves the first. A reload with the head on the input shows a live run. |
| `stuck` | The only conversation of a project is deleted while its page is open: the route has asked for a conversation before and does not ask again, so it loads for ever. |

## 4. What is proved

TLAPS checks all proofs, for every value of the constants that satisfies the
named assumptions of the modules (for the server: `NoneIsNoMessage`,
`OutputIds`, that run ids have their own answer ids, `RequestTypes`,
`AdmissionShape`; for the browser: `HistoryShape`, `StorageShape`,
`SignInShape`, `ProvidersShape`, `WorkspaceShape`, `Shapes`). A hypothesis
beyond these is part of the theorem. Every invariant and every action property
that a run checks is stated by a theorem.

* `RunStoreProofs`: `TypeCorrect`, `StoreInvariant`, and from it
  `ReferencesExist`, `AnswersRecorded`, `FailuresReachSnapshots`,
  `OutcomesAreFinal`, `MessagesAreStable`, `HeadsOnlyExtend`. The last covers
  the head moves of writes and of every settlement, an empty head included.
  The properties alone are not inductive: an answer can only be called recorded
  if its message cannot lose its role or parent, so `MsgShape` says what an id
  without a row looks like; a PUT past its check may write only because
  `PendingFindParent` keeps its parent alive; a failure reaches every snapshot
  of its run because `SnapshotPlace` says that a live run's snapshots are at its
  input; nothing but its own settlement finishes a reserved run because of
  `ReservedIsQueued`. Each action preserves each conjunct in a lemma of its own.
  `TreesStayTrees` (no message is its own ancestor) has two hypotheses: at most
  one PUT is between its check and its write, and the answer of a run is not
  written without a parent (`AnswersHaveParents`). Neither can be dropped: the
  first is the run `crossed_puts`, the second is in section 5. `TreeInv` adds
  to the property that the walk of a pending PUT is still right when it writes,
  and that an answer at the root is that of a run that is over, which
  `run_completed` will not hang anywhere. `Path`, what a walk
  visits, is the smallest set that is closed under the parent link, so that
  `LinkKeepsTree` (giving a root a parent whose walk does not come by it keeps
  the tree a tree) needs no induction over the links.
* `AdmissionProofs`: `TypeCorrect`, `StreamsAreUnique`, `PermitsReturn`,
  `EnginesAreCapped`. The second rests on `ReservedHaveRows` (whoever is past
  its reservation has written its row, so the primary key excludes the
  others), the last on the third: the engine of a connected client belongs
  to a request that holds a permit.
* `LiveRunProofs`: `TypeCorrect` and `FinishIsLast` with every mishap;
  `LiveRunKeepsContract`, the refinement, unless `mark` is among them;
  `StoredBeforeTold` unless `settle` is; `SnapshotsMatch` unless `timeout` is;
  `NoToolsAfterwards` unless `record` or `drop` is. Each exclusion is a way the
  code really fails the property (section 5). `StreamInv` is common to the
  arguments: what the stream has said so far is determined by where the generator
  is going (`At`, `RestOK`), and the row is live until a settlement that
  is named by `pc` or `settler` (`RowInv`, `LastInv`). On top of it stand
  `OpenInv` (nothing is sent before the start), `DurableInv`, `SnapInv` (the public
  state agrees with the outcome about to be stored), `DrainInv` (the sentinel is
  behind all that the worker published) and `ToolInv` (the token is set wherever
  the loop was left early).
* `FixtureRunProofs`: `FixtureKeepsContract`, the same refinement for the
  fixture coordinator, for any script. `ReplayInv` relates the position in the
  script to what the stream has said.
* `HistoryHeadProofs`: `TypeCorrect`, `WritesInOrder`, `RequestsWait`, with every
  mishap and for any tree of messages. The queue is ordered: the parent
  of a queued message is stored, has failed, or is queued before it, and the
  barrier is the last write (`QueueInv`); what the user typed has been written
  by the time an answer hangs below it (`LocalInv`).
  `HeadIsRestored`, unless `late` or `return` is among the mishaps: what was
  published last and is shown is what the server restores. That is a fact about
  three machines at once, and `HeadInv` has a part for each: an answer that was
  not written has no later turn below it (`AnswerInv`), a retry is for the head
  that is shown and no queued message hangs below it once it is under way
  (`RetryInv`), and nothing on its way would move a published head
  (`PublishedInv`).
* `ProvidersProofs`: `Invariant` and from it `TabsAgree`, `ExchangedOnce`,
  `AbandonedFlowsEnd`, `SelectionExists`, `PickerIsTruthful`, for any number of
  tabs and sign-ins, under `NoStaleCodes` (no page of an older callback is
  opened). An area of the storage whose event is not on its way to a tab is what
  the tab shows, and a verifier and a code in one tab belong to one sign-in.
* `WorkspaceProofs`: `TypeCorrect`, `VisitOpensOne`, `CreatedIsShown` with every
  mishap, `TitlesAreKept` unless `retitle` is one, for any projects, threads and
  number of actions. The invariants are parameterised by the mutations, the
  cache and the route, because a step often renders what another part of it
  has just computed; a lemma carries each over `Render`, one over the redirects,
  one per kind of step. `OpeningOf`: a conversation the mounted route
  is starting is the one it asked for. `TitleOf`: a title on its way is
  remembered by the route, and one that was given is on its way or known to the
  bootstrap, now and after its next answer (`KnownIn`). `BirthOf`: a mutation
  has an id of its own, and what was removed stays gone; on it stands
  `CreatedOf`, that the list of a created conversation holds it, now or after
  its next answer (`AwaitedIn`).
* `InterfaceProofs`: each part under the shape of its constants
  (`DocumentsFollow`, `PreviewsBelong`, `ThumbAgrees`, `TogglesOnce`,
  `PanelsFollow`, `BadgeIsTrue`, `PreviewFollows`, `ApprovalIsAnswered`,
  `SidebarAgrees`, `MenuAgrees`), and from them the four invariants of the page
  (`LayoutAgrees`, `ConversationAgrees`, `SidebarOfPage`, `MenuOfPage`): a step
  of the page is a step or a stutter of each part (`PartsStep`). What makes
  them inductive: the listener is on exactly where the preference is `system`
  (`ListensIfSystem`); a request that will be heard is for what is previewed
  (`Hears`); a click after a toggle is known to follow a drag (`Gesture`); the
  reference of the badge lies as far back as messages have come (`Counted`);
  the offsets of the preview are those a browser allows, and a scroll or resize
  that would undo the pin is owed (`Offsets`); mounted controls are those of the
  request that is waited for, and send once per mounting (`Held`, `SentOnce`);
  the rows of the menu's scope are those of the document (`Registered`); the
  sidebar's own provider is mounted (`SideInv`). That one provider answers a key
  in every finite page is a fact about trees: among providers around or
  inside the focus some encloses no other, or is enclosed by none
  (`SmallestOf`), and those around an element enclose each other.

Only model-checked: liveness (`Ends`, `Answered`, `EveryRequestAnswered`,
`ComesToRest`, `DeletedThreadLeft`), which the prover does not handle, like `ENABLED`.
Induction over data and recursive operators are out of its reach as well;
`Branch` has none.

## 5. What the models show besides

Behaviour that no document of the repository excludes, or that a property has to
leave out by name. The step exists in the models.

* *Before the try block* (`live_coordinator.py:98`): a failing read ends the
  stream without a terminal event, a client that leaves keeps a queued row until the next restart.
* *A generator dropped at a yield* (`live_coordinator.py:438`) and *a failing record*
  (`:555`) set no token: the worker goes on to call tools.
* *The run timeout* fires while the loop settles a disconnect (`:387`) and
  overwrites the state the settling task is about to store: a cancelled row with a failed snapshot.
* *Two failed settlements* (`:620`): the client is told an outcome that is not stored.
* *A start that cannot be stored* (`:577`): body events on a stream that was not opened.
* *A response cancelled before its first chunk* (`api/agent.py:181`) never returns its permit;
  *a lost acknowledgement* of a reservation (`:142`) gives 503 and a retry 409.
* *A browser row with the id of an answer* and another parent or role
  (`run_persistence.py:346`) makes `run_completed` fail for ever.
* *An answer without a parent* (`api/threads.py` accepts it): the PUT of a run's
  answer as a root, then of the run's input below it, both before the run
  completes; `run_completed` hangs the answer below the input, and the two are a
  cycle. TLC has the trace in nine states when `AnswersHaveParents` is dropped.
  The browser does not send this: an answer has a parent there.
* *A lost message write* (`assistant-thread-adapter.ts:111`) is reported once;
  every later write hangs below it and is refused.
* *An aborted head request* (`threads-api.ts:116`) may arrive after the one that
  replaced it; returning to the published branch (`assistant-thread-adapter.ts:329`)
  does not undo it.
* *The page of an older callback* opened during a sign-in (`openrouter-auth.ts:216`)
  sends the old code with the new verifier; *a form that is open while its profile is
  removed* (`providers-store.ts:275`) brings it back.
* *A second automatic title* after a visit to the tools (`workspace-route.tsx:54`) can
  overwrite one given meanwhile, and so it can when a bootstrap that was read before
  the title is answered after it; *a title that arrives* counts the lists it touches
  as fresh (`setQueryData`) also when their refetch has failed: a conversation that was
  just created is left again, a deleted one stays as an error page; *a late navigation* (`project-sidebar.tsx:342`) takes the
  page from where the user went; a failed background refetch (`workspace-route.tsx:163`)
  replaces the conversation by an error page.
* *A tab writes its whole store* (`workspace-store.ts:99`) over another tab's theme.
* *A second finger on a dragged switch* (`switch.tsx:106`) is not modelled: one pointer.
* *A folded card* forgets that it was answered (`tool-fallback.tsx:421`); *an empty list of
  options* (`:492`) shows the plain Allow; suggestions, reloads and edits do not wait for
  readiness (`thread.tsx:310`); *controls that stay mounted* while the runtime asks a second
  time cannot answer it, because `submitted` stays (`:373`).

## 6. What is not modelled

* Row locks: a transaction is atomic. The lock orders of `reserve_run` (thread,
  then message, `run_persistence.py:100`) and of the message PUT (message, then
  thread) can deadlock in PostgreSQL, which aborts one of them: a failed step.
* A second server process sweeping the runs of the first; two rows for the NULL
  head, which the unique constraint of snapshots admits (`repositories/states.py:28`).
* Histories, tool aliases (`msg-tools-...`), sources, artifacts of the server,
  the trace reducer, the streaming scrubber, approval and evidence of the tools.
* What the language model answers, provider I/O, MLflow, evaluation,
  migrations, the agent-file loader: no state that other parts depend on, or
  outside the server's control.
* The browser's presentational parts: cards, dialogs, menus, inputs, attachments,
  markdown, the process cards, the pages of connectors and of the optimizer,
  the list of a provider's models. They are functions of their props, with a
  flag or a query of their own.
* Contents of messages, wording, widths in pixels beyond thresholds, animation.

## 7. Plan

1. Drop mishaps from the hypotheses of `LiveRunProofs` where a weaker property
   holds with them: what a client is told after two failed settlements, what a
   timed-out settlement leaves.
2. A safety part of each liveness property as a theorem: where a request, a run
   or a head write that has not ended can still go (no state of theirs is a dead end).
3. `HistoryHead` composed with `RunStore`, in place of the tree it has of its own.
4. `TraceReducer`: the public state and the deltas a client applies; streamed
   answers against final answers (each text once).
5. `ArtifactLifecycle`: rows, files, thread deletion and settlement.
6. `StreamingScrubber` against the scrubber of whole texts; approval and evidence.
