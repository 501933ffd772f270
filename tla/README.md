# exclave in TLA+

exclave runs hardware tests. Units (jigs, tests, scenarios, interfaces, loggers,
triggers) are described by files. The program watches the files, keeps the units
that suit the machine loaded, and runs the tests of the selected scenario when an
interface or a trigger asks for it. This directory models that: TLA+ modules
translated from the source, TLC runs on small instances, and TLAPS proofs, for every
instance, of the safety properties that the runs check, those about recursion over
texts and steps apart.

## 1. The system and its parts

One main thread (`main.rs`) takes one message at a time from a channel and passes it
to the loader, the library (which hands it to the manager) and the quiesce timer. A
panic there ends the program. All other threads only send.

| Part | Source | What it does | Module |
|---|---|---|---|
| Scenario | `units/scenario.rs` | state machine of a run | `ScenarioOrder`, `ScenarioRun`, `ScenarioSteps`; abstractly `ScenarioPromise` |
| Test | `units/test.rs` | a program, the thread that waits for it, its one report | `ScenarioRun` |
| UnitManager | `unitmanager.rs` | loaded, selected and active units; requests and answers | `UnitManager`, `ScenarioRun`, `UnitLibrary`, `InterfaceView` |
| UnitLibrary | `unitlibrary.rs` | descriptions, dirty tables, status table, rescan | `UnitLibrary`, `Debounce` |
| UnitWatcher, UnitLoader | `unitwatcher.rs`, `unitloader.rs` | file events to reports, reports to requests | `UnitLibrary`, `Debounce` |
| Interface, Logger, Trigger | `units/*.rs` | clients with a process | `UnitManager` (life cycle), `InterfaceView`, `TextProtocol` |
| Jig | `units/jig.rs` | the machine under test; names a default scenario | `UnitManager`, `UnitLibrary` |
| Quiesce, WatchTimer | `quiesce/` | asks for a rescan when messages have ceased | `Quiesce`, `Debounce` |
| UnitBroadcaster, main loop | `unitbroadcaster.rs`, `main.rs` | the message bus and its reader | `UnitBroadcaster`; a FIFO elsewhere |
| TerminalInterface | `terminal.rs` | shows events, the other subscriber; the enter key is a START | `UnitBroadcaster`, `UnitLibrary` |
| Unit names | `unit.rs` | names from paths and from clients | `TextProtocol` |
| Config | `config.rs` | time-outs, working directories | not modelled |

`doc/Units.md` also names coupons and updaters; the source has none.

## 2. The modules

### ScenarioOrder and ScenarioRun: a run

`ScenarioOrder` has the pure part of `scenario.rs`: recording a result
(`RecordResult`), whether requirements are met (`AllDependenciesSucceeded`), and where
`find_next_state` goes next (`StepsTried`, `StepsOkay`, `PostPhase`). The recursion of
`find_next_state` is written in closed form: the steps tried, the first that is okay,
those skipped before it. The proofs need it so. `ScenarioSteps` has the recursions of the
source, and the run `steps` compares the two.

`ScenarioRun` adds the manager and the threads. Each message of `manager_request` that
concerns a run has an action (`HandleStartTest`, `HandleStopTest`, `HandleTestFinished`,
`HandleScenarioFinished`, `HandleAdvanceScenario`, ...); threads of tests have
`SimpleExits`, `SimpleAdvances`, `DaemonReady`, `DaemonNotReady`, `DaemonGivesUp`,
`DaemonExits`; support commands have `SupportExits`.

- The control channel, its monitor thread and the bus deliver in order: one `queue`.
- A handler is one action, but other senders may get in between its messages: `out`
  holds those it has still to send, and the next message is taken when `out` is empty.
  A support command may end, and its thread report, while its own handler still sends
  (`Spawning` is the part of a handler before it starts the command).
- `panicked` records where the main thread panicked: an index, a duration, a `RefCell`
  borrowed twice, an `unwrap`.
- A rescan is a request that reloads or deletes one scenario. The whole of it is in
  `UnitLibrary`.
- There are no jigs here, and STARTs name the scenarios; a START that names any other unit
  is in `UnitLibrary`.
- Time is nondeterministic: a scenario with a `Timeout` may find it over at any step.

### ScenarioPromise and ScenarioRefinement: what a run promises

`ScenarioPromise` says what a client may rely on, without messages, threads or commands: a
run starts when idle, judges tests one at a time after their requirements passed, skips
only tests that lack a requirement, is over when all tests are judged (unless a failed
ExecStart, a Timeout or a failure count may cut it short), and announces one code, which is
that of the verdicts. What a test requires is what is written before its first assumed
requirement; the code looks no further. `ScenarioRefinement` maps the state of `ScenarioRun` to it.
"Finishing" is the time while a ScenarioFinished is under way. "Broken" is a dead program, or one
that a START in that time has doomed; the abstract specification allows it.

### UnitManager and UnitLibrary: from files to active units

`UnitManager` has the manager's tables and its operations on them, as functions from tables
to tables: `SelectScenario`, `SelectJig`, `SelectTest`, `ActivateUnit`, `Deactivate`, `Unload`, and `Settle`,
which ends a rescan. There the new jigs are activated one after the other (`ActivateJigs`), in
any order of the hash table (`Orders`). `UnitLibrary` and `InterfaceView` use the module.

In `UnitLibrary` a file change is reported (`FileChanges`), the loader answers with a request
behind what is queued (`LoaderHandles`), and the library reads the file as it is by then
(`LibraryParses`, `LibraryUnloads`). `Rescan` is the whole of `rescan`: units that
depend on dirty jigs and tests, deletions, loads in order of kind, activation, and
`refresh_defaults`. Meanwhile clients send requests (`ClientAsks`), and the manager answers
them (`AnswerRequest`), selects a scenario (`ScenarioRequest`), or selects and activates the unit
that a START names, of whatever kind (`StartRequest`, and `EnterKey` for the terminal); log
entries go to all interfaces (`LogEntry`).

Of a scenario that was started, `UnitLibrary` keeps that it was (`started`): its StartTest and StopTest
(`StartTest`, `StopTest`) may come at any later time, for any of its tests, whether or not it is still
the current one. `ScenarioRun` has their order. A START while a started scenario is the current one may be
refused, as one that is running would.

- `Jigs`, `TestsOf` and `Default` (what a file lists) are constants: a file is good, bad
  or absent, and an edit does not change its lists.
- Interfaces, loggers and triggers share a life cycle and are `Client`.
- Choices of the environment are nondeterministic: whether a jig accepts the machine,
  whether a process starts, whether it ends with 0, the order of hash tables.
- A rescan may come between any two messages; that the timer asks for it is in `Debounce`.

### Quiesce: the timer

`SendIgnore`, `SendSchedule` and `Notify` are the steps of `restart_timer` on the main
thread. `DrainOne`, `DrainEnds`, `Fire`, `FireEnds`, `Sleep` and `TimedOut` are those of the
worker's `run`. `notify_one` reaches the worker only while it waits (`asleep`); in the
`gap` before the wait it is lost, as in the code, where the mutex is the worker's own.
All timers have the same delay, so they fall due in the order of their ids, and `due`
is the last whose time has come. The wrap of the 64-bit counter is left out.

### Debounce: from a written file to the rescan that takes it in

`Debounce` composes `Quiesce` with the watcher, the main loop, the loader and the library,
for one file. Each action is an action of the timer or leaves it alone, so that every
behaviour is one of `Quiesce` (proved). `ListDirectory` and `WatchBegins` are the two halves of
`add_path`; `FileWritten` may come before, between and after them. `MainTakes`, `MainRescans`
and `MainPasses` are the main loop: a message that is not about a rescan restarts the timer,
those that a rescan broadcasts included.

### UnitBroadcaster: the bus, the main loop, the terminal

A broadcast is several steps: `Locked` takes the mutex, `SendNext` sends to one subscriber,
`BroadcastEnds` removes the sender that failed and, for Shutdown, all of them. Five threads
broadcast: main, the watcher, the timer, the monitor of the control channel, and Ctrl-C (the thread
that reads the keyboard broadcasts requests, as the monitor does, and is not told apart). The
main thread subscribes, starts the terminal, lists the directories and loops until its
sender is gone. The terminal keeps the kinds of units it knows; a redraw expects a bucket for
each. Of the handlers, only what they broadcast is kept (`Answers`).

### InterfaceView: what interfaces are told

A belief is what the process of an interface was told last: HELLO, jig, list of scenarios,
current scenario, descriptions and test lists. Contents are numbered by the rescan that loaded
them, so that an old description differs from a new one. `Rescan` puts Loaded and Selected
events on the bus, and so does a START (`HandleStart`); `HandleLoaded` and `HandleSelected` tell all interfaces what is the case when
they are handled; the `Handle` actions for requests answer the one who asked. An interface that
cannot be written to is deactivated. Of the selections within one rescan only those that last
are announced, and Loaded events come in one fixed order.

### TextProtocol: escaping and names

`cfti_escape` and `tsv_write` are the writers. `ReadChar` is one turn of the loop of the
interface's `cfti_unescape`. `TriggerUnescaped` is the trigger's, a chain of replacements.
`from_path` and `from_str` make names of texts; `InterfaceNames` and `TriggerNames` are the names
in the requests of the two kinds of clients. One letter stands for each extension.

## 3. The runs

### Runs that pass

| Run | Instance | Distinct states |
|---|---|---|
| `single` | one scenario, three tests, seven libraries, two STARTs, with fairness | 86,979 |
| `pair` | two scenarios that share tests, two requests of any kind | 333,722 |
| `library` | two jigs, a test, two scenarios, an interface; six listings, up to two file changes, any requests | 322,002 |
| `debounce` | one file, one write, one other message, six timers, with fairness | 284,752 |
| `steps` | three tests, 1,920 descriptions | 23,620 |
| `bus` | one kind, one listed file, two further broadcasts, with fairness | 789,913 |
| `view` | two jigs, a scenario, an interface; three rescans and requests together, with fairness | 311,867 |
| `text` | texts of up to three characters out of twelve | 9,197 |

**single.** A run waits for exactly one thing at a time (`OneDriver`) and takes results
from the running test only (`ResultFromRunningTest`). Each activation is reported once
(`ReportedOnce`, of simple tests), and clients are shown what is recorded (`ShownIsRecorded`). 200
means that a pass is recorded for every test, unless the `Timeout` or a `StopAfterFailureCount` of 0
cut the run short (`SuccessMeansAllPassed`); the pass of a daemon is recorded when it comes up, and
stays if it dies later. Runs end (`RunEnds`), unless the main thread panics. The whole
implements `ScenarioPromise` (`KeepsPromise`): in particular tests are judged after their
requirements passed, and the code announced counts the failed verdicts.

**pair.** One scenario is selected and everything active is selected (`OneScenario`); every
running program of a test can be stopped by the manager or was told to stop (`NoOrphans`); verdicts are
not withdrawn and steps not taken back within a run (`RunGoesForward`); a borrow or unwrap panic
takes a second request (`PanicNeedsSecondRequest`).

**library.** Rescan meets no unexpected status (`NoStatusPanic`). Loaded units are
described, fit the loaded jigs, and hold current test objects (`LoadedAreDescribed`,
`LoadedUnitsFit`, `ScenariosAreFresh`). Processes belong to active, selected, loaded units
(`ProcessesBelongToLoaded`), and a reloaded client gets a new one (`ReloadRestarts`). One
jig and one scenario are selected, with all tests of that scenario that suit the jigs; any other test
that is selected suits them too, and was started or belongs to a scenario that was
(`SelectionIsCurrent`). As long as a jig is loaded one is current, and a rescan leaves a current
scenario, if any is loaded, until the jig changes (`DefaultsChosen`).
Once all changes are taken in, what is loaded agrees with the files
(`LibraryFollowsDisk`, which says nothing about the contents of tests).

**debounce.** The ignore set stays within the heap (`IgnoredAreScheduled`), the newest timer is
never lost (`NewestTimerLives`), a cancelled timer fires only while its cancellation is
undrained (`FiresAreCurrent`), and a timer in the heap fires or is cancelled
(`ScheduledFires`). A dirty unit always has something that will lead to a rescan
(`DirtyIsFollowed`). The last contents of the file are loaded in the end (`LastWriteIsTaken`),
except in two windows that the property names: a first write between listing and watching the
directory, and a notification lost while the worker has no other timer. Rescans cease
(`RescansCease`).

**steps.** The recursion of `find_next_state` leads where the closed form says, and skips what it
says, for every result and every moment at which time runs out (`FindNextStateAgrees`). No test is
left without a verdict unless the run was cut short, and tests that ran had their requirements
pass, up to the first assumed one (`EveryTestHasVerdict`).

**bus.** All subscribers are sent one sequence (`OneOrder`). A subscriber that fails takes only
itself off the list (`ListenersStay`). The terminal finds its buckets (`BucketsExist`). After a
Shutdown, from Ctrl-C or a client, the program ends whatever was queued (`ShutdownEnds`).

**view.** An interface that believes something that is no longer so has the event that corrects
it before it (`StaleIsAnnounced`), and every interface that starts is greeted (`Greeted`). The
property does not say that an interface knows the names of every jig: it may know none of a jig
that was loaded before it started (see below).

**text.** Unescaping gives back the text, never anything else on the way (`RoundTrip`). A log
record is one line of six fields, whatever the message (`OneRecordPerLine`).
`NamesThatAreFound` says exactly which names choose a scenario when a client sends them back.

### Bounds, deadlock and fairness

- `MaxRequests = 2`: the second request can meet the run of the first at any point; no
  disagreement shown below needs more than two.
- `MaxReports = 5`, of which a start-up listing of three, four or five files takes as many, so that two,
  one or no file changes follow: a unit can be removed and
  come back, or break and be repaired, while others depend on it. The listings hold both
  orders of a unit and its jig. Requests, STARTs and messages of tests are not bounded. The instance
  has no logger and no trigger; they have the life cycle of interfaces, but are not answered, and
  triggers get no log entries.
- `debounce`: one write leads to four messages, each of which restarts the timer; with the first
  log entry and another message that makes six timers, several of them in the heap, cancelled or on
  their way at once. Two writes make 4.7 million states; the run keeps to one.
  `DirtyIsFollowed` is proved for any number.
- `bus`: two broadcasts of other threads, beside those of the main thread, let a Shutdown meet a
  broadcast that waits for the mutex, and let the terminal die in the middle of one.
- `view`: `MaxInputs = 3` bounds rescans and requests together. The first rescan loads any set of
  units, a later one changes one unit (`MaxChanged`), so that a jig can be loaded, an interface start after it,
  and the jig become current when the other goes away, or when a START names it. The units need no jig;
  what depends on what is in `library`. The proof of `StaleIsAnnounced` is for any number of units,
  rescans and requests.
- `text`: three characters hold an escape and what precedes or follows it, and a name with a dot
  and an extension.
- `steps`: all requirements on earlier tests in every order of writing, at most one assumed test, and
  every combination of commands, failure count (none, 0, 1, 2) and Timeout.
- Deadlock is checked in `steps` only. The other instances may stop: all requests or changes
  used up, the program idle or dead.
- `single` assumes weak fairness of the main thread (a loop that only blocks on its
  channel), of the threads of tests, and of support commands. The last two say that
  programs end or come up; the code enforces that only where a timeout is set. A daemon
  that is up need never exit. Its libraries have no test that cannot be selected (see below);
  those of `pair` do.
- `debounce` assumes that the main thread and the worker run and that time passes. It assumes no
  write, no other message and no spurious wake-up.
- `bus` assumes that the main thread runs and that a thread that holds the mutex goes on. The
  terminal need not run.
- `view` assumes that the main thread and the monitor of the control channel run.

### Runs that show a disagreement

| Run | Property | What the code does |
|---|---|---|
| `start_while_finishing` | `StartNeverPanics` | a START between a finished scenario's StopTest and ScenarioFinished leads to a double borrow (`unitmanager.rs:942`) |
| `scenario_times_out` | `AllTestsPassed` | a run cut short by its Timeout is reported as 200 |
| `jig_arrives` | `JigDependentsLoad` | a unit that waited for its jig is deleted when the jig arrives |
| `interface_unloaded` | `RequestersAreLoaded` | a request that outlives its interface panics (`unitmanager.rs:1153`) |

Each is quoted against its document, comment or assertion in `PROJECT.json`.

Behaviour met while modelling that has no run of its own:

- Selecting another scenario while one runs: the outstanding result of the old one advances
  the new one, which so starts by itself (`unitmanager.rs:893`), in the old one's directory.
- After an assumed requirement the others of a test are not looked at (`scenario.rs:823`).
- A daemon's old thread may report for the daemon's next activation (`test.rs:342`).
- A test that cannot be selected sends nothing, and its scenario waits for ever
  (`unitmanager.rs:530`).
- Broadcasts may reach a new interface before its HELLO. An interface is not told when there is no
  jig or scenario any more, nor of the names of a newly selected scenario's tests if it
  started after they were loaded, nor of the names of a jig that was loaded before it started and
  becomes current later (`unitmanager.rs:1034` sends JIG without a description).
- "tests <name>" of an interface and "start <name>" of a trigger take a name without extension for
  that of a test, and find no scenario; `doc/IPC.md:95` has "START [scenario] - Start running a
  scenario, or the current scenario if none is specified."
- START takes the name of any unit. One that names a jig deselects the old one with its default scenario,
  and there is no current scenario until a rescan or a request chooses one (`unitmanager.rs:922`).
- A trigger's `cfti_unescape` is wrong for a backslash before
  t, n or r. A trigger's LOG and HELLO and an interface's HELLO are documented and not implemented.
- The working directory of a jig stays in force when the jig goes away and no other comes
  (`jig.rs:205-217`).
- Messages that keep coming more than once a second postpone every rescan.
- A START is accepted and forgotten while a scenario is finishing.
- `ScenarioFinished` unwraps `current_scenario`, which a rescan may have emptied.
- A scenario left in the middle of a run and selected again stays Running and refuses STARTs.
- `StopAfterFailureCount=0` ends a run after its first test, even one that passed.
- A scenario without tests indexes an empty list; the time left of a Timeout may underflow.
- A daemon that fails to come up may be announced as passed; one that dies later is not
  counted as a failure.
- Updates of test files are ignored (`unitlibrary.rs:398-404`), and a scenario whose test was
  deleted is not loaded when the test comes back.
- Messages and files may be lost in the two windows that `LastWriteIsTaken` names: a notification in
  the worker's gap (`quiesce/timer.rs`), a file between `read_dir` and `watch`
  (`unitwatcher.rs:69-75`).
- The loop that reads a jig's test program ends on an error only (`jig.rs:138-142`).

## 4. The proofs

The theorems hold for every value of the constants, under the assumptions that the modules
name and TLC evaluates on the instances:

- `RunAssumption`: names of tests and scenarios differ, descriptions and requests are typed, and
  a test order lists every test once and after what it requires, assumptions apart (what
  `dependy` returns).
- `ManagerAssumption`, `LibraryAssumption`, `ViewAssumption`: kinds of units are disjoint, jigs list no jigs, there
  are finitely many jigs, and listings are sequences of units. For `InterfaceView` there are finitely
  many units, and bounds are natural numbers.
- `QuiesceAssumption`, `DebounceAssumption`, `BroadcasterAssumption`: bounds are natural numbers, the
  bound on timers lets every message of `Debounce` restart the timer, and `None` is neither a kind of
  unit nor a thread.

**ScenarioRunProofs.** `TypeCorrect` (`TypeOK`), `ManagerKeepsOneScenario` (`OneScenario`),
`ProgramsStayReachable` (`NoOrphans`). Type correctness is not inductive alone: recording a
result indexes the test sequence at the scenario's step, so it is proved together with
`StepInRange`, that a Running scenario's step is within its sequence. `OneScenario` then
goes through by the actions that change the selection (`SwitchTo`, rescan, START), and
`NoOrphans` by those that spawn or terminate a program.

Its second part is about verdicts. `VerdictInvariant` proves `VerdictInv`, which says of every
scenario, at any point of any run, how its verdicts, its step and its phase agree. From it follow
`RunsGoForward` (`RunGoesForward`, an action property) and `SuccessIsEarned` (`SuccessMeansAllPassed`,
about the verdicts that are recorded).
The argument is that without failures every step before the current one passed, so that the next
test finds its requirements passed and is not skipped; this is where the test order is needed.

Its third part has the facts about sequences, handlers and messages that the modules below
share, and `FirstRequestNeverPanics` (`PanicNeedsSecondRequest`). `FirstRun` says of any
scenarios and any first request that until a second one comes, nothing has happened or no request
is on its way and a ScenarioFinished has the StopTest of its scenario before it, if that is still active.

**LoneScenarioProofs** and **ScenarioShownProofs.** Four theorems are about a scenario that is loaded
alone, two in each module: under `Lone` there
is one scenario, clients START it and do nothing else, as often and whenever they like, and its tests
fit the loaded jigs. These are the instances of `single`, with any tests, descriptions and number
of requests. Without `Lone` the four properties are false: another scenario that is selected
meanwhile takes over the outstanding result, and a test that is activated again while its terminated
program still runs reports out of turn.

- `AlwaysOneDriver` (`OneDriver`) rests on `DriverInv`: the scenario is at rest, or exactly one
  message, one thread of a test or one support command will advance it, and that one looks as
  the scenario's state demands. Each handler takes the driver and hands on to exactly one
  other; messages are followed through the channel by `Carried`, which relates the messages
  on their way before and after a step.
- `ResultsAlwaysFromRunningTest` (`ResultFromRunningTest`) follows: the driver of a Running scenario
  is about the test at its step.
- `AlwaysReportedOnce` (`ReportedOnce`) rests on `ReportInv`: activations of a simple test were
  reported in turn, the last one unless its program runs, because a test is not activated
  again before its thread has reported.
- `AlwaysShownIsRecorded` (`ShownIsRecorded`) rests on `ShownInv`: what a scenario records, or will
  from a result on its way, is what clients are shown or what the last message about that test on
  its way will show them.

**ScenarioEndProofs** and **ScenarioRefinementProofs.** `LoneScenarioKeepsPromise`: under `Lone`, `Spec` implements the
`Spec` of `ScenarioPromise` through the mapping of `ScenarioRefinement`. This is the safety part of
`KeepsPromise`. Every step of the detailed specification is shown to be Start, Advance, Announce or Break
of the promise, or to leave what a client sees alone. Three more invariants carry it. `JudgedInv`, which
needs no `Lone` and is itself a theorem (`RequirementsComeFirst`): a passed test has passed what
it requires, the steps left behind are judged, and a run that is over is complete or was cut
short. `CountInv`, without `Lone` too, from which `CountIsTheVerdicts` (`FailuresAreVerdicts`)
follows: the failures counted are as many as the failed tests, and one more for a failed ExecStart; its
step is that a verdict is recorded only of a test that had none, so that the set of failed
tests gains one element. `EndInv` (`ScenarioEndProofs`): while a ScenarioFinished is on its way no test and no command works, and the
scenario's StopTest comes before it; a START between the two is what the promise calls "broken".

**UnitLibraryProofs.** Three inductive invariants, for any units,
dependencies and changes:

- `LibraryInv` (`LibraryStaysConsistent`) gives `RescanNeverPanics`, `LoadedUnitsStayDescribed`,
  `LoadedUnitsAlwaysFit` and `ScenariosNeverStale`. The key fact is that every described or dirty unit
  has a status, and every loaded unit a description: only then do steps 1 and 2 of rescan
  reach all dependents of a unit that goes away.
- `FollowsInv` gives `LibraryAlwaysFollowsDisk` (`LibraryFollowsDisk`). The last message
  about a unit in the queue says truly whether its file is there, so the library is left with a status
  that agrees with the disk.
- `SelectionInv` (`SelectionStaysConsistent`) gives `LibraryTypes` (`TypeOK`),
  `ProcessesAlwaysBelong` (`ProcessesBelongToLoaded`), `SelectionAlwaysCurrent` (`SelectionIsCurrent`),
  `DefaultsAlwaysChosen` (`DefaultsChosen`) and `ReloadAlwaysRestarts` (`ReloadRestarts`), the last two
  action properties. Its core, `ManagerInv`, is shown to be preserved by each operation of the manager,
  the activation of any unit by a START included, in the first section of the module. It takes the
  tests that were started as a parameter, for these may be selected beside those of the current scenario. A rescan activates new jigs in the order of a hash table:
  `ActivateJigs` is a recursive function over any such order, and that it preserves `ManagerInv` is proved
  by induction, stated for sets of numbers (`NatSetInduction`).

**EventProofs.** About `Quiesce`: `TimerInvariant` proves `QuiesceInv`, from which
`IgnoreSetIsBounded` (`IgnoredAreScheduled`) and `NewestTimerIsNeverLost` (`NewestTimerLives`) follow. It
needs what the channel may hold (`ChannelInv`): requests for timers in increasing order of their ids, and
a cancellation of the newest timer only while a restart is under way; and that the worker knows
only timers whose requests it has drained (`WorkerInv`). `OnlyCurrentTimersFire` (`FiresAreCurrent`, an
action property) and `TimerTypes` rest on the same invariant. About `Debounce`:
`CompositionKeepsTimer`, every behaviour of `Debounce` is one of `Quiesce`, so what is proved of the timer
holds in the composition. `DirtyUnitsAreFollowed` (`DirtyIsFollowed`), for any number of writes: by
`DebounceInv`, which adds to the timer's invariant that once a new timer was asked for, a dirty
unit has a message on the bus or a newest timer that has not fired.

About `UnitBroadcaster`: `BusStaysConsistent` proves `BusInv`, for any kinds of units and any number of
files and broadcasts. Only the thread that holds the mutex is in the middle of a broadcast (`LockInv`), so
the terminal's copy can be behind main's by no more than the event being sent (`OrderInv`).
From it follow `AlwaysOneOrder` (`OneOrder`), `ListenersAlwaysStay` (`ListenersStay`) and
`BucketsAlwaysExist` (`BucketsExist`); the last because a kind is added to the terminal's buckets by
the LoadStarted that comes before every count of that kind.

**InterfaceViewProofs.** `StaleAnnounced` (`StaleIsAnnounced`), for any jigs, scenarios and
interfaces, and any number of rescans and requests. The inductive invariant `ViewInv` says, beside types,
that the manager's tables fit the loaded units (`Tables`: what is current is selected and loaded, and a
process belongs to an active, loaded client), and of each interface with a process (`Seen`) that what it was
told of a jig is current or corrected by a Loaded event on the bus, and that it will be greeted or is
`Informed`: jig, list of scenarios, current scenario with its tests, and descriptions are current or
the event that corrects them is on the bus. The argument has three parts. A rescan keeps `Tables`, by a lemma
for each operation of the manager, and announces what it changes: every reloaded unit, a new
selection, and the list of scenarios at the last unload, which lacks only a scenario whose own Loaded event
is still to come. An event that is taken off the bus is made up for (`Answered`), because what is sent
for it is the state at that moment, and no sending takes away what an interface rightly believed
(`Fresher`). And an interface that cannot be written to loses its process, so that nothing is claimed
of it.

Only model-checked:

- Liveness (`RunEnds`, `ScheduledFires`, `LastWriteIsTaken`, `RescansCease`, `ShutdownEnds`, `Greeted`)
  and the fairness of `KeepsPromise`: out of the prover's reach.
- `FindNextStateAgrees` and `EveryTestHasVerdict` of `steps`, which are about recursive operators, and
  `RoundTrip`, `OneRecordPerLine` and `NamesThatAreFound` of `text`, which take induction over the text.

## 5. Not modelled

- `Config`: the command line's values, and the working directories of the jig and the scenario.
  A program's directory changes nothing of the control that the modules follow.
- Parsing of unit files: done by an external crate and by copying fields.
- The JSON formats (for interfaces not implemented, for loggers an external crate's), and the
  wording of messages.
- The terminal's drawing and its log window; the debug log.
- The program that tests whether a jig is the right one: its result is a choice.
- Libraries outside the source: `dependy` (the test order, as an assumption), `runny`
  (programs that end), `notify` (file events), `systemd_parser`.

## 6. What could follow

1. `RoundTrip` for texts of any length, by the induction that `UnitLibraryProofs` uses.
2. Working directories, if the units' programs ever come to depend on their order of activation.
