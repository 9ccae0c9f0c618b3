# LocalMelo: TLA+ models of the gateway

LocalMelo runs a personal assistant as a local gateway. A person writes in a
*chat*; a chat hands work to *tasks*; a *worker* runs one task at a time, turn
by turn; a *chore* starts tasks by the clock; every model call goes through one
*gate*; everything that has to survive a crash is in SQLite files. The hardest
part is the life of a task: it is queued, launched behind a fence, held at safe
points, paused and parked in the middle of a run, stopped at any moment, made to
give its slot away, and after a crash recovered without ever running unreviewed
work twice. That is the core here, first as transactions over the tables (any
caller, any order), then as the gateway that really makes those calls. Around it
stand the parts that a task meets: the sessions that hold the turns, the chores,
the chat gate, a chat's queue with the questions of its tasks, and the
follow-ups that tell a chat how its tasks ended.

## 1. The system's parts

| part (src/) | state | operations | talks to | hard behaviour |
|---|---|---|---|---|
| task store `support/gateway/task_store.py` | tables `tasks`, `park_priority`, `recovery_*` | create, level, change, pause, request/cancel pending pause, resume (parked, interrupted, recovered), reopen | one transaction each on the session store | callers hold identities they read earlier |
| park store `park_store.py` | the hold metadata of `tasks`, `park_priority` | hold, release, park, interrupt, retry marker | same tables | meets pauses, stops and failed saves |
| recovery store `recovery_store.py` | `recovery_provenance/operations/crashes/capture/processes` | start (launch fence), prepare, commit, supersede, capture changes | same tables | two-step intents with crashes between |
| startup recovery `startup_recovery.py` | none | classifies every open task once at start | the three stores, turns and events | restarts of the restart |
| workers `workers.py` | in-memory sets and one asyncio task per running task | open, create, message, update (level, pause, resume, stop), resume, run, yield, close | stores, chat gate, runner, broker | one lock, flags set outside it, awaits in between |
| resume tokens, evidence `resume_tokens.py`, `resume_evidence.py`, `worker_evidence.py` | tokens in memory | issue, validate, consume, invalidate | workers.resume | evidence read outside the lock |
| session store `support/sessions/store.py` | sessions, turns, submissions, events | begin, append, finish, fork, recover open turns | SQLite | leases, recovery of open turns |
| session runner `support/sessions/runner.py` | the current turn | start, cancel, cancel for park, wait | agent, store, hub | callbacks against cancellation |
| approvals and grants `support/sessions/approvals.py`, `grants.py` | pending asks, grants | begin, answer, revoke, end | workers, console | answers racing stops |
| chores `support/gateway/chore_store.py`, `console/chores.py` | chores with a revision, one folder each | edit, due, run now, link, remove | task workers, the chat that saves one | double runs, edits and deletes while a run starts |
| chat gate `support/gateway/chat_gate.py` | queue of model calls | register, submit, park, finish, lock, focus, levels | workers, front, policy | two tables of one call, re-entrant decisions, holds nobody ends |
| scheduler policy `support/scheduler/` | tasks and calls it counts | rank, admit, gates | gate, workers | limits per class |
| console: a chat's drain `console/asks.py` | messages, notes, questions | queue, note, cancel, stop, ask, answer | sessions, workers | stored and kept queue, repeated sends, a busy turn |
| console: follow-ups `console/followups.py` | ends to tell, `meta.followup` | look, queue, turn, continue, tell, stop | chat, workers | restarts between any two steps, the person writing meanwhile |
| front `console/front.py` | - | HTTP handlers | workers, stores | passes requests on |
| gateway memory `support/memory/` | records, index, sleep passes | recall, ingest, sleep | front, workers | passes cut short |
| agent, executor, checker `melo/` | one run's messages | step loop, tools, process gate, review | contracts | pause points, process capture |
| browser, providers, MCP, web, CLI, setup, macOS app | - | adapters to things outside | - | not modelled |

What makes the task core correct, in words: a guarded call acts only on the
task its caller saw; launch evidence always describes the execution it names;
a first launch is only ever a first launch; Stop wins; a crash counts once and
leaves no intent that cannot be settled; a pause keeps the priority that the
resume gives back; the person's P0 is single; a worker that made room comes back.
Around it: one turn of a session at a time, each ended once and with the outcome
it had; no call held without a reason or sent past a limit; one run per beat of a
chore; no message, question or ended task forgotten or told twice.

## 2. Modules

```
SchedulerTables   the tables and the helpers every store shares
  TaskStore  ParkStore  RecoveryStore     one operator per transaction
     TaskPlane                            the stores, called by anyone at any time
        TaskPlane_proof                   theorems: types, identities, what the rows
                                          say of the past
        MCTaskPlane                       its bounded instances
     Gateway                              the workers and startup, which make the calls
        Gateway_steps                     its invariant, kept by every action
           Gateway_proof                  theorems: the workers; implements TaskPlane
        MCGateway                         its bounded instances
ChatGate                                  the gate and the policy it asks
  ChatGate_proof                          theorems: its tables, holds and limits
  MCChatGate                              its bounded instance
MCHistory                                 the instances of TaskPlane and ChatGate, in one run
TurnLog                                   a session's turns as their readers see them
  Sessions                                the session file and the runners; implements TurnLog
     Sessions_proof                       theorems: turns and their ends, TurnLog, the
                                          conversation of a run
Chores     Chores_proof                   a chore, and its theorems
OwnerAsks  OwnerAsks_proof                a chat's queue, and its theorems
Followups  Followups_proof                the follow-ups, and their theorems
  MCSupport                               bounded instances of Sessions and these three
```

**SchedulerTables** declares the durable state and what the three stores have
in common. A column that no modelled guard reads is left out.

| variable | table |
|---|---|
| `tasks` | `tasks`: state, priority (`level`, `source`, `reason`), card (present or not), hold metadata (`hold`), crash count (`crashes`), whether the last park event is the row's own (`parkedLast`) |
| `park` | `park_priority`: identity `gen`/`op`, pending pause, saved priority (`snap`, `saved`) |
| `prov`, `capture` | `recovery_provenance`, `recovery_capture` |
| `recops`, `crashed` | `recovery_operations` (with the identity a row is current for), `recovery_crashes` |
| `usedOps`, `turns`, `resumeTurn` | operation ids ever used, the turn counter of the task's session, the turn that a Resume or a message reserved |

An identity is the pair `(gen, op)`. A guarded call compares it (`Matches`) and
moves it (`Advanced`); a recovery row is current while the pair it was written
for is still the task's (`Current`), and hold, release and pause carry a launch
receipt along (`Carried`).

**TaskStore**, **ParkStore**, **RecoveryStore** have one operator for each
transaction of the file of that name: guards are the code's conditions, the
primed variables its writes. A call that the code refuses or that returns early
without a write is not a step. **TaskPlane** lets any number of `Callers` read
an identity (`Read`) and use it any number of steps later (`GuardedCall`); calls
that read it in their own transaction are `CurrentCall` and `Unguarded`. This is
the abstract specification: what holds here holds whatever the callers do.

**Gateway** is `workers.py` and `startup_recovery.py` over the same tables. A step is
the code between two awaits at which another coroutine can see a difference.

| Gateway | code |
|---|---|
| `phase`, `todo`; `Boot`, `ResolveIntent`, `LeaveAsIs`, `Classify`, `Admit`, `OpenEnds` | `Workers.open` and `StartupRecovery.run`/`_classify`, task by task, one step per transaction, so that a crash fits between any two |
| `sets` | `_eligible`, `_restart_fenced`, `_stopping`, `_pause_requested`, `_park_winners`, `_quarantined`, `_unavailable` |
| `run[t]`; `Check` .. `BeginTurn`, `HoldCall` .. `TurnEnds`, `Close` .. `Settle` | one `_run` coroutine: launch fence, building the agent, the last look for a Stop (`StartTurn`), starting the turn (`BeginTurn`), the turn with its held calls, parking, quarantine, settling |
| `call[c]`; `Request`, `Pause*`, `Resume*`, `Level*`, `StopServed` | `update`: the flags it sets before the lock, then its locked section, in two steps where it makes two transactions |
| `ticket[c]`; `Recover`, `ReadEvidence`, `RecoverCommit`, `RecoverRefused`, `RetryResume` | `resume`: the look at the task, the evidence read without the lock, the commit |
| `Submit`, `Continue` | `create`, `message`/`_continue` |
| `Schedule`, with `CanYield` and `MakesRoom` | `_schedule` and `_make_room`, at the end of each locked section |
| `run[t].room`, `run[t].yields`; `YieldPauses` .. `YieldOver` | the `_yield` of a task that was asked to make room, and whether the task is in `_yielding`; its `update` is `call[t]`, beside those of the clients |
| `last`, `reserved` | the newest turn's execution and status in the session store; the turn that a resume receipt reserved |
| `Crash` | the process ends: everything but the tables and the turns is forgotten |

`_lock` is an `asyncio.Lock`, which is given to who waited first. `LockFree` says
that nobody stands between two transactions of a locked section. A request keeps
who waited before it (`after`), and where each run stood when it began to wait
(`ahead`): a run that has not moved since was there before it and may go first
(`RunLock`), a newcomer may not (`NewLock`).

`Plane` in Gateway is TaskPlane with the gateway's tables and evidence; `PlaneSpec`
states that each step of the gateway is a call the plane allows, or a stutter.

**ChatGate** is `chat_gate.py` with the decision of `scheduler/policy.py` that it
asks for. A call is in two tables: `calls` (the gate's `_calls`: admitted, waiting
for the lock, fenced for a park) and `state` (the policy's: tasks, calls, those in
flight, the focus window); `submitted` counts them, and a call's `at` is its place in
their order. Each handler (`Submit`, `FinishCall`,
`SetMachine`, `Focus`, `SetSessionLevel`, `SetTaskLevel`, `UpdateTask`, `RegisterTask`,
`FinishTask`, `TryPark`, `ForgetSession`, `DiscardTask`, `Close`) is one step without an
await that changes both and makes one or more decisions (`Transition`) in a row.

**Sessions** is one session's row, turns and submissions in `sessions/store.py`
and, for each process, its runner (`runner.py`, `sync.py`). **TurnLog** is what a
reader of the turns may rely on; `LogSpec` states that Sessions implements it.

| Sessions | code |
|---|---|
| `writer` | the gateway's file, with one process, or a terminal's, shared by several |
| `turns`, `withdrawn`, `lease`, `window` | tables turns, submissions, the session row's lease and checkpoint |
| `runner[p]`; `Begin` .. `Record` | a turn: begun, its conversation reloaded if others wrote, running, its end drained and stored |
| `RecordFails`, `RetryLost`, `Refresh`, `Lapse` | an end that could not be stored or was stored unseen, its later try, lease and takeover |
| `Stop`, `CancelKey`, `RegisterLate`, `Undo*`, `Open`, `Select`, `Resume`, `Crash`, `Quit` | what people and processes do |

**Chores** is one chore: `row` and `lives` (table chores), `runs` (tasks started for
it), `folder`, `timer` (the tick, with the deleted chore's runs it still waits for in
`leaving`) and `guard` (who holds the chore's lock and between which awaits it stands).

**OwnerAsks** is one chat's drain: `people` and `stored` (the queue in memory and in
`meta.queued`), `current` (the chat's turn), `drain` (between which awaits it stands),
`ask` and `line` (the questions and their queue), `told` (what a sender was answered).
**Followups** is one chat and one task it started: `task` (its ends, numbered), `meta`
(`meta.followup`, what a restart knows), `heard`, `looks`, `seen`, `waiting` (from an
end heard to a follow-up queued), `follow` (the one under way), `stop` (a Stop of the
started row), `person` and `chat`. Each of its reads and writes may fail: `LookFails`,
`ItemLost` (the drain drops what it took from the queue), `RowFails` (the turn runs
`alone`, and no Stop finds it), `NoteLost`, `StopFails`, `Restart(FALSE)`. `fate` and
`past` are history variables: what became of each message and follow-up over all
processes, and for which ends the disk refused something (`past.lost`).

## 3. What the runs show

All bounds are constants of the MC modules. In MCGateway only the *outside* is
bounded, by `spent`: requests (`MaxAsks`), holds and tools (`MaxWork`), crashes
(`MaxCrashes`), failing launches and closes (`MaxFails`), and the two together
(`MaxFaults`). The system's own steps
are never cut short, so a budget never hides how a started request ends.
`Ops`/`Execs` are ids for the model's uuids; a run gives more than its bounds can
use up (`IdsLeft` never becomes false within them). Where ids are numbers they
are drawn in a fixed order, which replaces a symmetry set.

| run | question | bounds |
|---|---|---|
| `histories` | part "calls": is `(generation, operation)` a sound compare-and-swap, however old the caller's reading? Part "recovery": does launch evidence describe the task through launches, captures, intents, resumes and reopens; does Stop win, does a crash count once? Part "levels": does a pause that meets holds, failed parks, restarts and resumes keep its priority, does each call that gives P0 take it from its holder? Part "gate": do the gate's and the policy's tables agree; is every held call held for a reason that still stands; are limits and the lock kept? | calls: one task, a caller with an old reading, three generations, two operations; recovery: one task, two executions, two receipts, four generations, one turn; levels: two tasks (three generations) or one (five), three operations; gate: two chats, a worker, three live calls, two server slots, no background call under focus and one else, three acts, four calls and acts together, each policy |
| `gateway` | rows without their run, a row pulled from under a turn, a false "done", a turn under a Stop, a turn run twice or without the review of what was interrupted; the slots, with workers that make room | one task, two clients, three requests, two faults, four events together (recovery can itself crash); two tasks over one slot with two requests and failures together |
| `gateway_live` | do startup, requests, stops, pauses and yields come to an end; is each step one of the plane's? | one task, two clients, two requests, one crash, one failure; two tasks over one slot, one request |
| `support` | session: are conversations, outcomes and stops kept under several processes, is the log's order kept? chore: one run per beat, one at a time, its folder kept, every beat served? asks: is every message run, read or given back exactly once, every question answered? follow-ups: is each end told once, does the person's Stop hold? | session: three processes on two hosts, three turns, one key, four turns, acts and faults; chore: two runs, two beats, acts or faults each, three together; asks: two messages, one question, four events; follow-ups: three ends, two acts, one refused read or write, which counts for two; five together |

Where a run has several parts, a variable `part` is chosen at the start and never
changes; the parts share no variable that moves, so the run is the union of their
state spaces, and each property is about the part whose variables it reads. In
`histories` the first three parts are instances of MCTaskPlane with constants of their
own; the calls and chats of the fourth go by the names of operations and executions,
which the tables of that part never use, so that one symmetry serves all four.

The gateway's interesting cases need one task, except in the slots, for which the
runs continue into two tasks: `Second` are created only after the others, and from
then on requests are bounded by `MaxTogether`, requests and failures by two, and
nothing crashes (`Short`). A
stale reading needs one caller that reads and one that changes the task in
between, a superseded receipt two executions, an overtaken request two clients,
a yield that the person interferes with two tasks and two requests. A takeover of a
session needs a second process, judging a lease of another host a third. A held call
that another call's end must free needs one call in flight, one before it in line and
itself. A run overtaken by an edit needs one beat before it and one behind it. A
follow-up that may continue its task twice and must not a third time needs three ends.
A refused write needs an end to be told and, for the Stop or the restart that meets it,
one act more.
Deadlock is not checked in any run: once the bounds are used up, or once every
request is answered and every task has ended, a system that waits for a person
really does nothing more. That nothing is *stuck* is what `SlotsShared`,
`RowHasRun`, `HeldForAReason`, `RunningHasRunner` and the liveness properties say.

**Fairness.** MCGateway: weak fairness of startup, of each task's coroutine, of each
`_yield` with the request it makes, and of each client's request. A coroutine that
can go on is resumed by the event loop; the lock's queue is first come, first served,
which `after`, `RunLock` and `NewLock` build into the guards so that weak fairness is
enough; a turn ends because the agent has a step bound (`max_steps`), if the provider
answers or fails. A turn that began under a Stop may wait for `_ready`, which that Stop
cleared; it need not end by itself, for the Stop is served and cancels it. Nothing makes
a person ask, a worker call for a hold, or anything
fail. MCSupport: one weak-fairness condition for each part's own steps (the chore's
timer and the holder of its guard apart): they are one process's coroutines or steps
that the others' leases bound, finitely many within the bounds, so a condition for
the part makes each of them happen. A chat's turn or a chore's run comes to an end
because steps and timeouts bound it; questions time out. MCChatGate: focus windows
lapse, and calls that were sent or cancelled end.

### Where the code does something else than it says

Each of these runs checks one property that a document or comment states, and ends in
a behaviour of the code that breaks it. PROJECT.json quotes the text.

| run | what happens |
|---|---|
| `reopen` (`SingleP0`) | a finished task keeps its P0; reopened, it stands beside the task that got P0 meanwhile |
| `late_stop` (`StopBeforeTurn`) | `_run` looks for a Stop once more and then awaits the conversation and the start of the turn: a Stop asked there finds no turn to cancel, and the turn begins under it until the Stop has the lock. `LateStopWaits` states what does hold |
| `lost_capture` (`TurnHasCapture`) | pause and resume while `_run` builds its agent: the resume's `change(state="running")` retires the capture and the turn's tools are all refused |
| `first_resume` (`ResumedStarts`) | pause and resume before the first launch fence: `update` raises half way, the pause flag stays, and every later launch defers |
| `stuck_park` (`ParkEnds`) | a Resume and a Pause asked together at a held call: the Resume withdraws the pause under a selected park; the run can save neither the park nor an interruption, and the task refuses every request, a Stop too |
| `their_pause` (`TheirPauseStays`) | `_yield` looks whether the person took the task over, and then awaits its row: a Pause answered during that read is undone by the resume that follows |
| `hold_wakes` (`HoldWakes`) | a background call held only by the focus window stays held when the window has passed, until some other event reaches the gate |
| `lost_message` (`PromiseIsKept`) | a message to a done task, a pause and resume before the launch, a crash: startup takes the earlier turn for this run's outcome and the message is never worked on |

More were met with the same models and have no run here. In the task core:

- A second pause of a task that a failed park left interrupted under its pause
  saves the pause's own P5 as the priority to give back
  (`task_store.py:1613`; `docs/reference/api-v2.md:790`, "resume restores the
  priority before pause"). `PauseKeepsPriority` therefore speaks of a task
  without a saved priority.
- A pause flag left by a task that was stopped after its pause meets the next turn
  of a continued task: its first held call is neither released nor parked
  (`workers.py:1822`). Pause, stop, message, held call.
- A committed Resume that is paused before its turn, interrupted by a restart and
  retried is queued at P5 under its fence, where only Stop reaches it
  (`workers.py:1629`; `api-v2.md:865`).
- A pause after the turn ended and before the run settled parks the row at once;
  after a crash there startup interrupts a run whose outcome is on record
  (`workers.py:1509`; `docs/reference/scheduler.md:245`).
- A worker whose close fails after it was asked to make room stays in `_yielding`
  (its `_yield` waits for a run that stays until the restart), so it counts as a
  request that is still outstanding and one task that waits is not given another
  (`workers.py:2212`; `scheduler.md:234`).

In the parts around it:

- Two processes: a turn that another process took over and undid between its begin
  and its first step stays in its own process's conversation
  (`runner.py:1871`; `sync.py:19`). `ConversationSound` leaves such turns out.
- "A chore's runs are one at a time" (`chores.py`) does not hold when an edit lands
  between a start and its link, when a crash or failed write there is followed by an
  edit, or when the same message saves the chore again over an open run; and a
  deleted chore's folder can be removed under a run that was never linked.
  `RunsOneAtATime` and `FolderKept` speak of linked runs.
- A chat's call that waits for the lock and is cancelled after the chat's last call
  the policy knew has ended leaves the policy's task "running"
  (`chat_gate.py:944`), without a visible effect.
- A chat's queue (`asks.py:511`, `asks.py:827`): a queue that cannot be stored while
  the drain is between a start and its pop drops another message, and the refused one
  may run; a session that cannot be read loses the question it was opened for; a note
  that a Stop gives back while it is being stored is answered as accepted too; a note
  read before a crash and not yet forgotten runs again as a message; a cancel by key
  leaves the stopped turn's notes to run as the next turn. `fate.dropped`, `left` and
  `lost` name the messages concerned, which `MessagesKept` and `ChatServes` leave out.
- A follow-up that has left its queue when a read or write fails is dropped
  (`asks.py:796`) and stays "queued" or "began" until the next restart, so its started
  row keeps its Stop; if the row of its turn cannot be written the turn runs on without
  a timer, and a Stop does not find it (`followups.py:451`, `console/followups.py:470`).
  `FollowUpEnds` and `StopHolds` leave these out by name (`Lost`, `Underway`).
- A person's turn that begins and ends while a follow-up is between its last look and
  its start does not stop the follow-up (`docs/guides/web-console.md:238`, "Your turn
  wins").

## 4. What is proved

The theorems hold for any sets of tasks, operations, executions, callers, messages
and processes and without the bounds of the runs. They rest on the assumptions that
the modules name and TLC evaluates: `TablesAssumption` and `PlaneAssumption` (the
"none" values are not ids; the constant sets are of their kind), `RunsAssumption` of
Chores and `SessionAssumption` of Sessions (the bound is a number; "nobody" is not a
process), `NobodyAssumption` of OwnerAsks, `GateAssumption` of ChatGate (chats are not
workers; one slot and one background call at least), and `GatewayAssumption` (there is a slot; a
person moves a task to a level that runs; clients are not tasks). Followups needs none.

Each proof module has the same form: an inductive invariant whose parts are named,
one lemma for each action (or for a few actions that do the same to the invariant),
one that joins them into `Inv /\ [Next]_vars => Inv'`, and the theorems that follow
from it. TLC checked each invariant on the runs' instances before it was proved.
Whatever counts does so with `Cardinality`, about which the library has theorems, and
where order matters a place is a number, so that a least one can be taken.

**TaskPlane_proof**: `TypeCorrect` (`[]TypeOK`) and `IdentityGuards`
(`[]TicketSound`: while the identity a caller read still matches, the task is in the
state, under the execution and with the pending pause that it saw). `TicketSound` is
not inductive: it needs that no later row ever shows an identity that a caller read
earlier. `IdentityInv` adds `TicketsBehind` (no caller has a generation that the task
has not reached yet) and `AbsentUntouched` (a task that was never created still has
generation 0, which is what an empty ticket holds). The step is the same for every
store call: `StoreStep` says that it leaves the tables well typed and that each row
either keeps identity, state, execution and pending pause or moves to a later
generation. Each operator of the three stores has one lemma that it is a `StoreStep`.

Its second half are the other nine properties of run `histories`, so that all
eleven are theorems. `HistoryInv` adds to `IdentityInv` what the rows of a task say
together (`PauseSound`, `LaunchSound`), that the crash column counts the executions
on record (`CrashSound`), and what a recovery row says of its task (`ReceiptSound`: it
is never ahead of the task's generation, a start receipt that is current names the
task's own execution, a prepared intent that still matches finds the state it was
prepared in). `CallStep` describes a store call by what it does to the other tasks, to
the task's own rows, to the receipts and to the crash count; each operator has one
lemma, and invariant and action properties both follow from it. `ReceiptNeverRevived`
is the step for which the generations are needed: a receipt follows the task only
while it is current, so one left behind has an older generation for good.

**Gateway_steps** and **Gateway_proof**: `ImplementsPlane` (`Spec => PlaneSpec`),
`TypesHold`, `RowsHaveRuns`, `SlotsAreShared`, `DoneMeansDone`, `LateStopsWait`,
`NeverReplays`, all safety properties that the gateway's passing runs check beside
liveness. Invariant and refinement need each other: that the step is one of the
stores' rests on what the run may rely on where it stands (a turn begins from a
running row; a broken launch has the execution that it fenced; the evidence of a
commit is that of its task), and what the step may leave behind rests on the tables'
invariant, which only a step of the stores keeps. So `Gateway_steps` proves that every
action keeps `GatewayInv` *given* the tables' facts before (`RowFacts`) and their types
after (`TypesNext`); `Gateway_proof` shows that each action is a step of
`TaskPlane`'s tables (`PlaneStep`), which gives both, and closes the circle
(`BothInv`). The parts of `GatewayInv`:

| part | what it says | why it is needed |
|---|---|---|
| `LockSound`, `CallSound` | one run or request at most is between two transactions; what a request is about | a step under the lock finds the rest at rest |
| `RunSound`, `FlagsSound` | what `exec`, `fenced`, `out`, `point` and each of Workers' sets mean at each place of `_run` | a launch behind its fence still has its row's execution |
| `PastSound` | the newest turn, the reserved ones, an intent's outcome | a done row was done |
| `OpenSound`, `MayTurn` | while serving, a row that runs has its run, and one that will launch may take a turn | `RowHasRun`, `NoReplay` |
| `StartupSound`, `Seen` | the same, task by task, as startup gets to it | both hold again at `ready` |
| `SlotsSound` | the resident runs are finitely many and fit; a waiting task finds them taken, or a resume is about to look | `SlotsShared` counts a set that is finite only by this |
| `RoomSound` | a `_yield` has a request only while it pauses or resumes its task | a request always has its task |
| `StopsWait` (Gateway_proof) | a Stop of a task whose turn is being started waits for the lock since it was asked there (`LateSound`, of one task) | `LateStopsWait`: the launch holds the lock, so nobody can have answered that Stop |
| `Uninterrupted` (Gateway_proof) | a request between its two transactions is about no interrupted task | the second half of a Resume, which runs a resident task without asking for its state again, cannot run an interrupted one: `NoReplay` |

`Schedule` is treated once (`ScheduleView`, `ScheduleFills`), and the steps of one
kind (a coroutine that moves on, one that writes, one that ends, a request that is
answered, one that hands slots out) have one lemma each (`Moves`, `Writes`, `Vacates`,
`Answers`, `CallHands`), so that an action's own lemma only says which it is.
The second part of `NoReplay` (an interrupted task is queued again only for a reserved
turn) follows the store calls instead: `ReviewStep` says of every action that it frees
only what was reviewed (`Frees`), and that whatever interrupts a task does so under the
lock or in startup (`InterruptingStep`). `TablesStaySound` then carries the theorems of
TaskPlane to the tables that the gateway writes.

**Sessions_proof**: `SessionTypeCorrect`, `OutcomesKept`, `TurnsAnswered`
(`[]RunningHasRunner`), and `SessionIsTurnLog`: `Spec => LogSpec`, Sessions implements
TurnLog, each step shown to be one of TurnLog's or a stutter. `SessionInv` ties what a
process holds to the turn it works on (`ProcSound`), the end it kept for another try to
what that turn came to, and its counts of undone turns to the file's (`MarkSound`).

Its last part is `ConversationsSound`, for which all of a process's reading
matters. A process may be behind the file; `MemoryInv` says that its mark then tells
(`MarkTrue`, `Heard`: every answer is in the conversation or is another's behind the
mark), that a run which is still its process's own goes on a conversation that fits
the turns before it (`RunFits`), and so does a stored checkpoint (`WindowFits`).

**Chores_proof**: `ChoreTypeCorrect`, `SlotsRunOnce`, `FolderStays`, `OneAtATime`.
`HolderSound` says what the holder of the chore's guard may still rely on of the row it
read before its last await; `FolderSound` names those who may still work in the folder.

**Followups_proof**: `FollowTypeCorrect`, `EndFollowedOnce`, `FollowUpStops`. "At most
two for one message" is an induction on a count: `CountSound` bounds the ends that have
a follow-up in hand *or could still get one after a restart* (`CountsFor`) by
`meta.count`, which is what makes it survive the crash between a look and its turn. A
write that fails leaves `meta` on the safe side: what began is on record as begun, a
continue whose mark could not be taken back as done. A turn that runs `alone` may still
continue its task, which is why `StopHolds` needs `meta.stage` and not only the mark on
the follow-up.

**OwnerAsks_proof**: `OwnerTypeCorrect`, `AcceptedKept` (`[]MessagesKept`). `QueueInv`
follows one message through memory, store, drain and sender (`Untouched`, `NoteSound`,
`KeptSound`, `OnceSound`). The queue's operators are written with `Nth` (the places that
an entry keeps), about which facts can be proved without induction over sequences.

**ChatGate_proof**: `GateTypesHold`, `TablesAgreeAlways`, `HeldForReasons`,
`LimitsKept`, all that run `histories` checks of the gate, for every number of sessions, calls and
slots and for each policy. Two things make it hard. A handler decides several times in
a row, and between two decisions the tables are not as any state of the gate has them;
so the parts of `GateInv` are said of tables `c` and `s` that a handler may be half
through with:

| part | what it says | why it is needed |
|---|---|---|
| `Matched`, `Known` | the policy has just the calls the gate lets it see and the tasks that are live | `TablesAgree`; what is in flight is what is out |
| `Decided` | each call in the policy is passed over with its dead task, or has a reason to be held | `HeldForAReason`; an end may make the reason go, and decides again |
| `WaitersKept` | a call kept with the lock has the lock or its sibling before it | the lock's end lets in one call of a session at a time |
| `OffSound`, `Due` | without a policy only the lock holds; no ended worker has a call waiting | nobody would let those out |

`Ready` is what a decision needs before it and `Good` what holds after it. `Decides`
takes one to the other, by counting: the policy looks at the candidates one after the
other, the last one taken found room among all the others (`FlightFits`), and one not
taken found none, nor does it when all have been taken (`FlightLeaves`). `Transits`,
`Leaves`, `Releases` and `Finishes` are the moves from one such point to the next (a
decision, a call that goes, the lock's waiters let in, a call's end with what follows
it), and every handler is a chain of them. And `FinishTask` ends all the calls of
a task in their order, in as many moves as there are: `FinishTaskStep` is an induction
on the places, over the recursive function that the action is written with. That such a
function exists is proved too (`ByExists`), as is induction on a number
(`Induction`), from the library's theorem that inclusion of finite sets is well founded:
stated of a *set* of numbers, it needs no operator as a parameter. The limits are an
action property: `Within` bounds what a decision leaves out by what it found, and
`Onward` hands that on through the handler's later decisions.

`HeldForAReason` counts either background cap as a reason, because the focus window
ends by the clock and decides nothing (run `hold_wakes`), and so says no more than the
code keeps. Nothing assumes that `n_fg` is the smaller of the two caps.

Only model-checked:

- All liveness (and `StopLands`): the prover does not handle `ENABLED`.
- The models' own bounds in MCSupport (`SupportTypeOK` is the four type invariants
  together, which are proved one by one).

## 5. What is not modelled

In the modelled files:

- `workers.py`: `aclose`, workspaces that become invalid, store writes that fail or
  whose outcome is unknown (the park that is *refused* is there), a failing
  `select_park`, approvals' `allow_once`, a message to a task that still has unread
  ones, which waiting task `_schedule` prefers and who is the youngest of a level (any
  may be chosen), the policy's memory and machine gates (a free slot may be used). An
  approval, an answer or a page that keeps a worker from making room is a free choice.
  A worker is asked again only once its earlier `_yield` has ended, and a request that
  is refused at once does not take a task out of `_yielding`; the code is wider in both.
- `resume`: confirmation tokens (the person's confirmation is a free choice) and
  the liveness check of recorded processes.
- `task_store.py`: titles, workspaces, retention and the idempotency key of
  create; `recovery_store.py`: the process rows themselves.
- `chat_gate.py`, `policy.py`: the call log and charges, reasons and clocks of a hold;
  las2, aging, floors, inheritance, the memory, battery and thermal gates, and the
  policy's own yields, parks and expiries, which the gate does not act on. A cap on
  workers never binds in the gate (`workers.py:2699`). `retry` stands for any attempt
  behind the first, `embed` for every kind of call that is never held.
- `sessions/store.py`, `runner.py`: deleted sessions and creates that are given up,
  events other than run.finished, titles, attachments, notes and approvals of a turn,
  turn limits and budgets, the pruning of old withdrawals, a resume that fails behind
  an undo, a process id used again, an end that is not tried again (`_cannot_retry`,
  `runner.py:1285`: the store is closed as its process goes, which is `Crash` here, or
  the program passed a wrong value). Begin and its attachment to the runner are one step.
- `chores.py`: the check-in and notices, the limit on chores, a reopened run, refused
  stale edits (they change nothing), exact times (a plan is the next beat).
- `asks.py`: a deleted chat's hand over, held answers and their return, mirrors and
  rows, the limit on notes, pictures, a key repeated while its first send is admitted.
- `followups.py`: one chat and one task; reminders and chores as the origin of a
  task, a deleted chat, the wording of rows, a refused write of the row's own `mark_told`
  (suppressed in the code). A restart is the
  crash and the next open in one step.

Not at all, see PROJECT.json for each: the agent loop and executor, approvals and
grants, gateway memory, the machine monitor, the simulator; and the parts whose
behaviour is the world's: providers, browser, MCP, web, CLI and setup.

## 6. Plan

Done: the tables and their stores, the gateway over them with its yields, sessions,
chores, the chat gate, a chat's queue and its follow-ups, and the theorems of §4.
What is left, first what touches a task's life:

1. *ResumeTokens*: issue, consume once for the evidence shown, invalidate on Stop.
2. Store writes that fail, in Gateway.
3. *Approvals*: asks and grants against stops and ends; the executor's process gate.
4. *TaskLifecycle*: an abstract specification of a task as the person sees it
   (waiting, working, paused, stopped, finished), with TaskPlane shown to implement it.
5. The scheduler's ranking and gates as operators against a reference definition.

Proofs: with 4, that TaskPlane implements TaskLifecycle.
