----------------------------- MODULE ScenarioRun -----------------------------
(***************************************************************************)
(* Running scenarios: the scenario object (units/scenario.rs), the tests   *)
(* and the threads that wait for their programs (units/test.rs), and the   *)
(* requests the manager serves meanwhile (unitmanager.rs).                 *)
(*                                                                         *)
(* One main thread handles one message at a time.  Everything else sends:  *)
(* the threads of tests and of support commands, and the triggers,         *)
(* interfaces and keyboard whose requests are `Requests'.  The control     *)
(* channel, the monitor thread that forwards it and the bus deliver in the *)
(* order of sending, so they are one FIFO, `queue'.                        *)
(*                                                                         *)
(* A handler is one action, but what it sends reaches the queue message by *)
(* message, and other senders get in between: `out' holds the messages the *)
(* handler has still to send, and the main thread takes its next message   *)
(* only when it is empty.                                                  *)
(***************************************************************************)
EXTENDS ScenarioOrder

CONSTANTS Scenario,     \* the names of scenarios
          Libraries,    \* what may be loaded: see Library
          Requests,     \* the requests clients make
          MaxRequests   \* a bound on the number of requests

Unit == Test \cup Scenario

Library == [test : [Test -> TestDescription], scenario : [Scenario -> ScenarioDescription]]

AdvanceScenario(u, r) == [what |-> "AdvanceScenario", from |-> u, result |-> r]
StartTest(t) == [what |-> "StartTest", unit |-> t]
StopTest(u) == [what |-> "StopTest", unit |-> u]
TestStarted(t) == [what |-> "TestStarted", from |-> t]
\* The reports of tests, and below the skips, that one walk over a test sequence sends
\* one right after the other are one message.
TestFinished(S, r) == [what |-> "TestFinished", tests |-> S, result |-> r]
Skip(S) == [what |-> "Skip", tests |-> S]
ScenarioFinished(s, c) == [what |-> "ScenarioFinished", from |-> s, code |-> c]
StartScenario(u) == [what |-> "StartScenario", unit |-> u]
SelectScenario(s) == [what |-> "Scenario", unit |-> s]
\* The rescan after a scenario file was written (present) or deleted.
Rescan(s, p) == [what |-> "Rescan", unit |-> s, present |-> p]

Message ==
    [what : {"AdvanceScenario"}, from : Unit, result : Result]
    \cup [what : {"TestFinished"}, tests : SUBSET Test, result : Result]
    \cup [what : {"StartTest"}, unit : Test]
    \cup [what : {"StopTest"}, unit : Unit]
    \cup [what : {"TestStarted"}, from : Test]
    \cup [what : {"Skip"}, tests : SUBSET Test]
    \cup [what : {"ScenarioFinished"}, from : Scenario, code : Nat]
    \cup [what : {"StartScenario"}, unit : Unit \cup {None}]
    \cup [what : {"Scenario"}, unit : Scenario]
    \cup [what : {"Rescan"}, unit : Scenario, present : BOOLEAN]

\* A thread of Test::activate and the program it waits for.  run: the activation
\* that spawned it; killed: its program has been told to terminate.
\*   wait     simple test, program running
\*   advance  simple test, TestFinished sent, AdvanceScenario still to send
\*   starting daemon whose ready text has not been read
\*   failing  daemon that sent AdvanceScenario(-1 or -2), TestFinished still to send
\*   ready    daemon that sent AdvanceScenario(0), program running
Thread == [test : Test, run : Nat, pc : {"wait", "advance", "starting", "failing", "ready"},
           result : Result, killed : BOOLEAN]

ASSUME RunAssumption ==
    /\ Test \cap Scenario = {}
    /\ None \notin Unit /\ None \notin Nat
    /\ MaxRequests \in Nat
    /\ Requests \subseteq {StartScenario(u) : u \in Unit \cup {None}}
                          \cup {SelectScenario(s) : s \in Scenario}
                          \cup {Rescan(s, p) : s \in Scenario, p \in BOOLEAN}
    /\ Libraries \subseteq Library
    /\ \A lib \in Libraries : \A s \in Scenario : IsTestOrder(lib.scenario[s], lib.test)

VARIABLES
    library,      \* the descriptions of the loaded units; never changes here
    loaded,       \* the loaded scenarios
    current,      \* current_scenario
    selected,     \* the selected units
    active,       \* the active units
    scenario,     \* the scenario objects
    threads,      \* the threads of tests
    result_arc,   \* Test::result_arc: what was reported for the last activation
    activations,  \* how often each test was activated
    reports,      \* the activation each TestFinished of a test was about, in order
    support,      \* the number of support commands of a scenario still running
    queue, out,   \* messages sent, and messages the main thread has yet to send
    shown,        \* the last RUNNING, PASS, FAIL or SKIP broadcast for a test
    finish,       \* the code of the last FINISH broadcast, 0 before the first
    requests,     \* how many requests were made
    panicked      \* "no", or where the main thread panicked

managerVars == <<loaded, current, selected, active>>
testVars == <<threads, result_arc, activations, reports>>
viewVars == <<shown, finish>>
vars == <<library, managerVars, scenario, testVars, support, queue, out, viewVars,
          requests, panicked>>

T == library.test
Desc(s) == library.scenario[s]

TypeOK ==
    /\ library \in Libraries
    /\ loaded \subseteq Scenario
    /\ current \in Scenario \cup {None}
    /\ selected \subseteq Unit
    /\ active \subseteq Unit
    /\ scenario \in [Scenario -> ScenarioObject]
    /\ threads \subseteq Thread
    /\ result_arc \in [Test -> Result \cup {None}]
    /\ activations \in [Test -> Nat]
    /\ reports \in [Test -> Seq(Nat)]
    /\ support \in [Scenario -> Nat]
    /\ queue \in Seq(Message)
    /\ out \in Seq(Message)
    /\ shown \in [Test -> {"none", "RUNNING", "PASS", "FAIL", "SKIP"}]
    /\ finish \in Nat
    /\ requests \in 0..MaxRequests
    /\ panicked \in {"no", "index", "duration", "borrow", "unwrap"}

\* refresh_defaults has selected one of the scenarios, with its tests.
Selectable(s) ==
    IF s = None THEN {} ELSE {s} \cup {t \in TestsOf(Desc(s)) : T[t].compatible}

Init ==
    /\ library \in Libraries
    /\ loaded \in SUBSET Scenario \ {{}}
    /\ current \in loaded
    /\ selected = Selectable(current)
    /\ active = {}
    /\ scenario = [s \in Scenario |-> FreshScenario]
    /\ threads = {}
    /\ result_arc = [t \in Test |-> None]
    /\ activations = [t \in Test |-> 0]
    /\ reports = [t \in Test |-> <<>>]
    /\ support = [s \in Scenario |-> 0]
    /\ queue = <<>> /\ out = <<>>
    /\ shown = [t \in Test |-> "none"]
    /\ finish = 0
    /\ requests = 0
    /\ panicked = "no"
-----------------------------------------------------------------------------
(***************************************************************************)
(* The senders.                                                            *)
(***************************************************************************)
Alive == panicked = "no"

Request(r) ==
    /\ Alive
    /\ requests < MaxRequests
    /\ requests' = requests + 1
    /\ queue' = Append(queue, r)
    /\ UNCHANGED <<library, managerVars, scenario, testVars, support, out, viewVars, panicked>>

\* The main thread gets its next message onto the channel.
Send ==
    /\ Alive
    /\ out # <<>>
    /\ queue' = Append(queue, Head(out))
    /\ out' = Tail(out)
    /\ UNCHANGED <<library, managerVars, scenario, testVars, support, viewVars, requests,
                   panicked>>

\* send_finished_once: what it adds to the channel; result_arc and reports with it.
FinishedOnce(t, r) == IF result_arc[t] = None THEN <<TestFinished({t}, r)>> ELSE <<>>

MarkFinished(t, r, run) ==
    /\ result_arc' = [result_arc EXCEPT ![t] = IF @ = None THEN r ELSE @]
    /\ reports' = [reports EXCEPT ![t] = IF result_arc[t] = None THEN Append(@, run) ELSE @]

ThreadStep(th, next, sent) ==
    /\ Alive
    /\ threads' = (threads \ {th}) \cup next
    /\ queue' = queue \o sent
    /\ UNCHANGED <<library, managerVars, scenario, activations, support, out, viewVars,
                   requests, panicked>>

\* A simple test's program exits.
SimpleExits(th, r) ==
    /\ th.pc = "wait"
    /\ ThreadStep(th, {[th EXCEPT !.pc = "advance", !.result = r]}, FinishedOnce(th.test, r))
    /\ MarkFinished(th.test, r, th.run)

SimpleAdvances(th) ==
    /\ th.pc = "advance"
    /\ ThreadStep(th, {}, <<AdvanceScenario(th.test, th.result)>>)
    /\ UNCHANGED <<result_arc, reports>>

\* The ready text was read, or none is asked for.
DaemonReady(th) ==
    /\ th.pc = "starting"
    /\ ThreadStep(th, {[th EXCEPT !.pc = "ready"]}, <<AdvanceScenario(th.test, 0)>>)
    /\ UNCHANGED <<result_arc, reports>>

\* The output ended, or could not be read, before the ready text: the scenario is
\* told first, the program terminated, and the result reported last.
DaemonNotReady(th) ==
    /\ th.pc = "starting"
    /\ ThreadStep(th, {[th EXCEPT !.pc = "failing", !.killed = TRUE]},
                  <<AdvanceScenario(th.test, 1)>>)
    /\ UNCHANGED <<result_arc, reports>>

DaemonGivesUp(th) ==
    /\ th.pc = "failing"
    /\ ThreadStep(th, {}, FinishedOnce(th.test, 1))
    /\ MarkFinished(th.test, 1, th.run)

\* Seeded mistake: a daemon advances the scenario again when it exits.
DaemonExitsAdvancing(th, r) ==
    /\ th.pc = "ready"
    /\ ThreadStep(th, {}, Append(FinishedOnce(th.test, r), AdvanceScenario(th.test, r)))
    /\ MarkFinished(th.test, r, th.run)

\* A daemon's program exits, by itself or because it was told to.
DaemonExits(th, r) ==
    /\ th.pc = "ready"
    /\ ThreadStep(th, {}, FinishedOnce(th.test, r))
    /\ MarkFinished(th.test, r, th.run)

\* Seeded mistake: a waiter that answers for a command that was never started.
SupportExitsUnasked(s, r) ==
    /\ Alive
    /\ support' = [support EXCEPT ![s] = @ - 1]
    /\ queue' = Append(queue, AdvanceScenario(s, r))
    /\ UNCHANGED <<library, managerVars, scenario, testVars, out, viewVars, requests, panicked>>

\* The handler under way ends by starting a support command, for which there is no
\* waiter yet: it is the only kind of handler whose last message is one of these.
Spawning == out # <<>> /\ out[Len(out)].what \in {"StopTest", "Skip"}

\* The waiter of run_support_cmd: the command exits.
SupportExits(s, r) ==
    /\ Alive
    /\ support[s] > (IF s = current /\ Spawning THEN 1 ELSE 0)
    /\ support' = [support EXCEPT ![s] = @ - 1]
    /\ queue' = Append(queue, AdvanceScenario(s, r))
    /\ UNCHANGED <<library, managerVars, scenario, testVars, out, viewVars, requests, panicked>>
-----------------------------------------------------------------------------
(***************************************************************************)
(* The main thread: UnitManager::manager_request, one action for each way  *)
(* a message can be handled.                                               *)
(***************************************************************************)
Handling(what) ==
    /\ Alive
    /\ out = <<>>
    /\ queue # <<>>
    /\ Head(queue).what = what

\* The message is taken and the handler sends `sent'.
Handled(sent) ==
    /\ queue' = Tail(queue)
    /\ out' = sent
    /\ UNCHANGED <<library, requests, panicked>>

Panic(where) ==
    /\ panicked' = where
    /\ queue' = Tail(queue)
    /\ UNCHANGED <<library, managerVars, scenario, testVars, support, out, viewVars, requests>>

\* Seeded mistake: the programs are not told to terminate.
TerminatedNone(S) == threads

\* terminate() on the programs of these tests: the handle kept is the last one.
Terminated(S) ==
    {IF th.test \in S /\ th.run = activations[th.test] THEN [th EXCEPT !.killed = TRUE]
                                                       ELSE th : th \in threads}

\* Seeded mistake: the result of the last activation is kept.
KeptResult(t) == result_arc

\* A new activation has not been reported.
ClearedResult(t) == [result_arc EXCEPT ![t] = None]

\* activate() for a test, as part of handling StartTest or StartScenario: select it
\* if its jig allows, stop if it is active or could not be selected, run it.
ActivateTest(t) ==
    /\ selected' = IF T[t].compatible THEN selected \cup {t} ELSE selected
    /\ UNCHANGED <<library, loaded, current, scenario, support, viewVars, requests, panicked>>
    /\ \/ /\ t \in active \/ t \notin selected'
          /\ queue' = Tail(queue)
          /\ UNCHANGED <<active, testVars, out>>
       \/ /\ t \notin active /\ t \in selected'
          /\ result_arc' = ClearedResult(t)
          /\ activations' = [activations EXCEPT ![t] = @ + 1]
          /\ \/ /\ threads' = threads \cup
                     {[test |-> t, run |-> activations[t] + 1, result |-> 0, killed |-> FALSE,
                       pc |-> IF T[t].daemon THEN "starting" ELSE "wait"]}
                /\ active' = active \cup {t}
                /\ queue' = Append(Tail(queue), TestStarted(t))
                /\ UNCHANGED <<reports, out>>
             \/ \* the program cannot be started
                /\ queue' = Tail(queue)
                /\ out' = <<TestStarted(t), TestFinished({t}, 1), AdvanceScenario(t, 1)>>
                /\ reports' = [reports EXCEPT ![t] = Append(@, activations[t] + 1)]
                /\ UNCHANGED <<active, threads>>

HandleStartTest ==
    /\ Handling("StartTest")
    /\ ActivateTest(Head(queue).unit)

\* StopTest, which finish_scenario also sends for the scenario itself.
HandleStopTest ==
    /\ Handling("StopTest")
    /\ LET u == Head(queue).unit
           reporting == u \in active /\ u \in Test /\ T[u].daemon
       IN  /\ active' = active \ {u}
           /\ threads' = IF u \in active THEN Terminated({u}) ELSE threads
           /\ \/ /\ reporting
                 /\ Handled(FinishedOnce(u, 0))
                 /\ MarkFinished(u, 0, activations[u])
              \/ /\ ~reporting
                 /\ Handled(<<>>)
                 /\ UNCHANGED <<result_arc, reports>>
           /\ UNCHANGED <<loaded, current, selected, scenario, activations, support,
                         viewVars>>

HandleTestStarted ==
    /\ Handling("TestStarted")
    /\ shown' = [shown EXCEPT ![Head(queue).from] = "RUNNING"]
    /\ Handled(<<>>)
    /\ UNCHANGED <<managerVars, scenario, testVars, support, finish>>

HandleTestFinished ==
    /\ Handling("TestFinished")
    /\ shown' = [t \in Test |-> IF t \notin Head(queue).tests THEN shown[t]
                                ELSE IF Head(queue).result = 0 THEN "PASS" ELSE "FAIL"]
    /\ Handled(<<>>)
    /\ UNCHANGED <<managerVars, scenario, testVars, support, finish>>

HandleSkip ==
    /\ Handling("Skip")
    /\ shown' = [t \in Test |-> IF t \in Head(queue).tests THEN "SKIP" ELSE shown[t]]
    /\ Handled(<<>>)
    /\ UNCHANGED <<managerVars, scenario, testVars, support, finish>>

\* ScenarioFinished deactivates whatever scenario is current, with current_scenario
\* and the scenario borrowed: if that scenario is active the second borrow panics.
HandleScenarioFinished ==
    /\ Handling("ScenarioFinished")
    /\ \/ current = None /\ Panic("unwrap")
       \/ current # None /\ current \in active /\ Panic("borrow")
       \/ /\ current # None /\ current \notin active
          /\ finish' = Head(queue).code
          /\ Handled(<<>>)
          /\ UNCHANGED <<managerVars, scenario, testVars, support, shown>>
-----------------------------------------------------------------------------
(***************************************************************************)
(* Selecting and starting scenarios.                                       *)
(***************************************************************************)
\* deselect() of the current scenario, and select() of the next one if there is one:
\* the current one is deactivated and deselected with its tests, whose programs are
\* terminated and whose daemons report a pass; the next one and those of its tests
\* that fit a loaded jig are selected.
OldSequence == IF current = None THEN <<>> ELSE Desc(current).test_sequence

\* Seeded mistake: the tests are deselected, the scenario is not.
OldTests == {OldSequence[k] : k \in 1..Len(OldSequence)}

OldUnits == {current} \cup {OldSequence[k] : k \in 1..Len(OldSequence)}

DaemonsStopped ==
    {t \in OldUnits \cap active \cap Test : T[t].daemon /\ result_arc[t] = None}
StoppedReports == IF DaemonsStopped = {} THEN <<>> ELSE <<TestFinished(DaemonsStopped, 0)>>

SwitchTo(s) ==
    /\ current' = s
    /\ selected' = (selected \ OldUnits) \cup Selectable(s)
    /\ threads' = Terminated(OldUnits \cap active)
    /\ result_arc' = [t \in Test |-> IF t \in DaemonsStopped THEN 0 ELSE result_arc[t]]
    /\ reports' = [t \in Test |-> IF t \in DaemonsStopped THEN Append(reports[t], activations[t])
                                  ELSE reports[t]]
    /\ UNCHANGED <<activations, support, viewVars>>

HandleSelectScenario ==
    /\ Handling("Scenario")
    /\ LET s == Head(queue).unit
       IN  \/ /\ s \in loaded \ selected
              /\ SwitchTo(s)
              /\ active' = active \ OldUnits
              /\ Handled(StoppedReports)
           \/ /\ s \notin loaded \ selected
              /\ Handled(<<>>)
              /\ UNCHANGED <<current, selected, active, testVars, support, viewVars>>
    /\ UNCHANGED <<loaded, scenario>>

\* A rescan unloads the scenario, loads it again if its file is there, and selects
\* any loaded scenario if that leaves none selected.
HandleRescan ==
    /\ Handling("Rescan")
    /\ LET s == Head(queue).unit
       IN  /\ loaded' = IF Head(queue).present THEN loaded \cup {s} ELSE loaded \ {s}
           /\ scenario' = [scenario EXCEPT ![s] = FreshScenario]
           /\ \/ /\ current \in {s, None}
                 /\ \E next \in loaded' \cup {None} : /\ next = None <=> loaded' = {}
                                                      /\ SwitchTo(next)
                 /\ active' = active \ OldUnits
                 /\ Handled(StoppedReports)
              \/ /\ current \notin {s, None}
                 /\ Handled(<<>>)
                 /\ UNCHANGED <<current, selected, active, testVars, support, viewVars>>

\* Scenario::activate.
ActivateScenario(s, sentBefore) ==
    /\ scenario' = [scenario EXCEPT ![s] = FreshScenario]
    /\ Handled(Append(sentBefore, AdvanceScenario(s, 0)))

\* StartScenario(None) means the current scenario.
Named == IF Head(queue).unit = None THEN current ELSE Head(queue).unit

Busy == current # None /\ IsRunning(scenario[current])

StartRefused ==
    /\ Handling("StartScenario")
    /\ Busy \/ Named = None
    /\ Handled(<<>>)
    /\ UNCHANGED <<managerVars, scenario, testVars, support, viewVars>>

StartAccepted ==
    /\ Handling("StartScenario")
    /\ ~Busy
    /\ Named # None

\* The scenario is selected: it is activated, unless it still is active.
StartSelected ==
    /\ StartAccepted
    /\ Named \in Scenario /\ Named \in selected
    /\ \/ /\ Named \in active
          /\ Handled(<<>>)
          /\ UNCHANGED <<active, scenario>>
       \/ /\ Named \notin active
          /\ active' = active \cup {Named}
          /\ ActivateScenario(Named, <<>>)
    /\ UNCHANGED <<loaded, current, selected, testVars, support, viewVars>>

\* Another scenario is named: it is selected, then activated.
StartOther ==
    /\ StartAccepted
    /\ Named \in loaded \ selected
    /\ SwitchTo(Named)
    /\ active' = (active \ OldUnits) \cup {Named}
    /\ ActivateScenario(Named, StoppedReports)
    /\ UNCHANGED loaded

\* The scenario named is not loaded: nothing is selected, nothing is activated.
StartUnknown ==
    /\ StartAccepted
    /\ Named \in Scenario \ (loaded \cup selected)
    /\ Handled(<<>>)
    /\ UNCHANGED <<managerVars, scenario, testVars, support, viewVars>>

\* A test is named, as a trigger's START does: it is activated on its own.
StartNamedTest ==
    /\ StartAccepted
    /\ Named \in Test
    /\ ActivateTest(Named)
-----------------------------------------------------------------------------
(***************************************************************************)
(* AdvanceScenario: Scenario::advance.  o is the scenario's object after   *)
(* the result was recorded; the state it leaves for is found by the guards *)
(* of the actions below.                                                   *)
(***************************************************************************)
Recorded == RecordResult(Desc(current), scenario[current], Head(queue).result)

\* A test that is over is stopped; a daemon is left running.
StopLastTest(o) ==
    IF o.state = "Running" /\ ~T[Desc(current).test_sequence[o.step]].daemon
    THEN <<StopTest(Desc(current).test_sequence[o.step])>> ELSE <<>>

\* Seeded mistake: nobody is told of the skipped tests.
SkipSilently(skipped) == <<>>

SkipMessages(skipped) == IF skipped = {} THEN <<>> ELSE <<Skip(skipped)>>

\* Seeded mistake: a command that cannot be started advances nothing.
RunSupportCommandOrHang(sentBefore) ==
    /\ support' = [support EXCEPT ![current] = @ + 1] \/ UNCHANGED support
    /\ Handled(sentBefore)

\* run_support_cmd: a waiter is left behind, or the command cannot be started.
RunSupportCommand(sentBefore) ==
    \/ /\ support' = [support EXCEPT ![current] = @ + 1]
       /\ Handled(sentBefore)
    \/ /\ UNCHANGED support
       /\ Handled(Append(sentBefore, AdvanceScenario(current, 1)))

\* Seeded mistake: the tests are stopped, the scenario is not.
StopTestsOnly(s) == [k \in 1..TestCount(Desc(s)) |-> StopTest(Desc(s).test_sequence[k])]

\* finish_scenario.
StopMessages(s) ==
    [k \in 1..TestCount(Desc(s)) |-> StopTest(Desc(s).test_sequence[k])] \o <<StopTest(s)>>

Finish(o, sentBefore) ==
    /\ scenario' = [scenario EXCEPT ![current] = [o EXCEPT !.state = "ScenarioFinished"]]
    /\ Handled(sentBefore \o StopMessages(current)
               \o <<ScenarioFinished(current, FinishCode(o))>>)
    /\ UNCHANGED support

\* Idle, with an ExecStart command.
AdvanceToExecStart(o) ==
    /\ o.state = "Idle" /\ Desc(current).exec_start
    /\ scenario' = [scenario EXCEPT ![current] = [o EXCEPT !.state = "PreStart"]]
    /\ RunSupportCommand(<<>>)
    /\ UNCHANGED <<managerVars, testVars, viewVars>>

\* The least acceptable step is next.  make_timeout reads the clock once more after
\* the step was accepted, and subtracts the time elapsed from the Timeout.
AdvanceToTest(o, late, next) ==
    /\ LeavesForTests(Desc(current), o)
    /\ next \in StepsOkay(Desc(current), T, o, late)
    /\ \A k \in StepsOkay(Desc(current), T, o, late) : next <= k
    /\ LET d == Desc(current)
           skipped == SkippedBefore(d, T, o, late, next)
       IN  \/ /\ scenario' = [scenario EXCEPT ![current] =
                     [Skipping(o, skipped) EXCEPT !.state = "Running", !.step = next]]
              /\ Handled(StopLastTest(o) \o SkipMessages(skipped)
                         \o <<StartTest(d.test_sequence[next])>>)
              /\ UNCHANGED <<managerVars, testVars, support, viewVars>>
           \/ /\ d.timeout /\ T[d.test_sequence[next]].timeout
              /\ Panic("duration")

\* No step is acceptable: a stop command, or the end.
AdvancePastTests(o, late) ==
    /\ LeavesForTests(Desc(current), o)
    /\ TestCount(Desc(current)) > 0
    /\ StepsOkay(Desc(current), T, o, late) = {}
    /\ LET d == Desc(current)
           skipped == SkippedBefore(d, T, o, late, TestCount(d) + 1)
           sent == StopLastTest(o) \o SkipMessages(skipped)
           over == [Skipping(o, skipped) EXCEPT
                      !.timed_out = @ \/ \E k \in StepsTried(d, o) : k >= late]
       IN  \/ /\ HasCommand(d, PostPhase(d, o))
              /\ scenario' = [scenario EXCEPT ![current] =
                                 [over EXCEPT !.state = PostPhase(d, o)]]
              /\ RunSupportCommand(sent)
           \/ /\ ~HasCommand(d, PostPhase(d, o))
              /\ Finish(over, sent)
    /\ UNCHANGED <<managerVars, testVars, viewVars>>

\* Without tests the first step is looked up all the same.
AdvanceWithoutTests(o) ==
    /\ LeavesForTests(Desc(current), o)
    /\ TestCount(Desc(current)) = 0
    /\ Panic("index")

\* The stop command is over, or the scenario was.
AdvanceToEnd(o) ==
    /\ o.state \in {"PostSuccess", "PostFailure", "ScenarioFinished"}
    /\ Finish(o, <<>>)
    /\ UNCHANGED <<managerVars, testVars, viewVars>>

HandleAdvanceScenario ==
    /\ Handling("AdvanceScenario")
    /\ current # None
    /\ \/ AdvanceToExecStart(Recorded)
       \/ AdvanceWithoutTests(Recorded)
       \/ AdvanceToEnd(Recorded)
       \/ \E late \in LateSteps(Desc(current), Recorded) :
             \/ AdvancePastTests(Recorded, late)
             \/ \E next \in 1..TestCount(Desc(current)) : AdvanceToTest(Recorded, late, next)

AdvanceNothing ==
    /\ Handling("AdvanceScenario")
    /\ current = None
    /\ Handled(<<>>)
    /\ UNCHANGED <<managerVars, scenario, testVars, support, viewVars>>
-----------------------------------------------------------------------------
TestThreads ==
    \E th \in threads :
       \/ SimpleAdvances(th)
       \/ DaemonReady(th)
       \/ DaemonNotReady(th)
       \/ DaemonGivesUp(th)
       \/ \E r \in Result : SimpleExits(th, r) \/ DaemonExits(th, r)

MainThread ==
    \/ Send
    \/ HandleStartTest \/ HandleStopTest
    \/ HandleTestStarted \/ HandleTestFinished \/ HandleSkip \/ HandleScenarioFinished
    \/ HandleSelectScenario \/ HandleRescan
    \/ StartRefused \/ StartSelected \/ StartOther \/ StartUnknown \/ StartNamedTest
    \/ HandleAdvanceScenario \/ AdvanceNothing

Next ==
    \/ \E r \in Requests : Request(r)
    \/ TestThreads
    \/ \E s \in Scenario, r \in Result : SupportExits(s, r)
    \/ MainThread

Spec == Init /\ [][Next]_vars

(***************************************************************************)
(* Fairness: the main thread and the channel do not stop; a test's program *)
(* and a support command end, a daemon comes up or fails to.  The code     *)
(* itself ends a program only through Timeout=, which runny enforces.  A   *)
(* daemon that is up need never exit.                                      *)
(***************************************************************************)
ProgramsEnd ==
    \E th \in threads : \/ SimpleAdvances(th)
                        \/ DaemonReady(th)
                        \/ DaemonNotReady(th)
                        \/ \E r \in Result : SimpleExits(th, r)

Fairness ==
    /\ WF_vars(MainThread)
    /\ WF_vars(ProgramsEnd)
    /\ \A s \in Scenario : WF_vars(\E r \in Result : SupportExits(s, r))

FairSpec == Spec /\ Fairness
-----------------------------------------------------------------------------
(***************************************************************************)
(* What the manager keeps in order, whatever clients ask for.              *)
(***************************************************************************)
\* "There Can Only Be One" (unitmanager.rs:327) and "These units must also be
\* selected" (unitmanager.rs:223): no scenario but the current one is selected, the
\* current one is loaded and selected, and everything active is selected.
OneScenario ==
    Alive => /\ selected \cap Scenario = {current} \ {None}
             /\ current = None <=> loaded = {}
             /\ current # None => current \in loaded
             /\ active \subseteq selected

\* A test's program runs only as long as its test is active: one that still runs and has
\* not been told to terminate belongs to the last activation of an active test, so
\* StopTest, a switch of scenarios and a rescan leave no test behind.  (The support
\* commands of a scenario that was left do keep running: nothing terminates them.)
NoOrphans ==
    \A th \in threads : \/ th.pc = "advance" \/ th.killed
                        \/ th.test \in active /\ th.run = activations[th.test]

\* send_finished_once, "we only send the Finished result once" (test.rs:316), for the
\* simple tests: no activation is reported twice, none that did not happen is
\* reported, and one lacks its report only as long as its program runs.
ReportedOnce ==
    \A t \in Test : ~T[t].daemon =>
       /\ Len(reports[t]) <= activations[t]
       /\ \A k \in 1..Len(reports[t]) : reports[t][k] = k
       /\ \A run \in Len(reports[t]) + 1 .. activations[t] :
             \E th \in threads : th.test = t /\ th.run = run /\ th.pc = "wait"
-----------------------------------------------------------------------------
(***************************************************************************)
(* One run at a time.  These hold when one scenario is loaded and clients  *)
(* only start it; the runs that select other scenarios or reload this one  *)
(* show what is lost then.                                                 *)
(***************************************************************************)
Pending == queue \o out

\* A message that will move the scenario on, or end its activity.
Drives(m) ==
    \/ m.what \in {"AdvanceScenario", "StartTest"}
    \/ m.what = "StopTest" /\ m.unit = current

Working == {th \in threads : th.pc \in {"wait", "advance", "starting"}}

Drivers ==
    {<<"message", i>> : i \in {i \in 1..Len(Pending) : Drives(Pending[i])}}
    \cup {<<"thread", th>> : th \in Working}
    \cup {<<"command", n>> : n \in 1..support[current]}

\* A scenario that is active always waits for exactly one thing (a result on its way,
\* a test, a support command, its own StopTest), and an inactive one for nothing: two
\* would run two tests at once or record a result twice, none would hang the run.
OneDriver ==
    Alive /\ current # None =>
       IF current \in active THEN \E driver \in Drivers : Drivers = {driver} ELSE Drivers = {}

\* advance() records a result as that of the test at its step and only logs that "unit
\* is not the expected currently-running unit" when another one sent it: that never
\* happens.
ResultFromRunningTest ==
    Alive /\ current # None /\ scenario[current].state = "Running" =>
       \A i \in 1..Len(Pending) : Pending[i].what = "AdvanceScenario" =>
          Pending[i].from = Desc(current).test_sequence[scenario[current].step]

\* FINISH 200 (IPC.md:49): a run that ends without a failure has recorded a pass for
\* every test, unless the Timeout or a StopAfterFailureCount of 0 cut it short.  What is
\* recorded of a daemon is that it came up; that it dies later (IPC.md:84) is not.
SuccessMeansAllPassed ==
    \A s \in Scenario :
       /\ scenario[s].state = "ScenarioFinished"
       /\ FinishCode(scenario[s]) = 200
       /\ ~scenario[s].timed_out
       /\ Desc(s).stop_after_failure_count # 0
       => \A t \in TestsOf(Desc(s)) : scenario[s].test_states[t] = "Pass"

\* The failures counted, which decide the stop command, the early stop and the code,
\* are the tests marked failed and a failed ExecStart.
FailuresAreVerdicts ==
    \A s \in Scenario :
       scenario[s].failures =
          Cardinality({t \in TestsOf(Desc(s)) : scenario[s].test_states[t] = "Fail"})
          + (IF scenario[s].exec_start_state = "Fail" THEN 1 ELSE 0)

\* What clients were last told of a simple test (PASS, FAIL, SKIP) is what the scenario
\* has recorded, as soon as it has recorded a verdict; a skip is on its way.
ShownIsRecorded ==
    \A t \in TestsOf(Desc(current)) :
       Alive /\ ~T[t].daemon =>
          LET verdict == scenario[current].test_states[t]
          IN  /\ verdict = "Pass" => shown[t] = "PASS"
              /\ verdict = "Fail" => shown[t] = "FAIL"
              /\ verdict = "Skip" => \/ shown[t] = "SKIP"
                                     \/ \E i \in 1..Len(Pending) :
                                           Pending[i].what = "Skip" /\ t \in Pending[i].tests

\* A verdict, once recorded, stays until the scenario is activated again, and the
\* scenario never goes back to an earlier step: no test runs twice in a run.
RunGoesForward ==
    [][\A s \in Scenario :
          \/ scenario'[s] = FreshScenario
          \/ /\ \A t \in Test : \/ scenario[s].test_states[t] = "Pending"
                                \/ scenario'[s].test_states[t] = scenario[s].test_states[t]
             /\ scenario'[s].step >= scenario[s].step
             /\ scenario[s].state = "ScenarioFinished" => scenario'[s] = scenario[s]]_vars

\* "if the test is already running then they will be ignored" (Units.md:72): what a run
\* sends by itself never makes the main thread panic on a borrow or an unwrap; that
\* takes a second request while the run that the first one started is ending.
PanicNeedsSecondRequest == panicked \in {"borrow", "unwrap"} => requests > 1

\* A run that was started ends, unless the program died, and some run was announced by then;
\* that each run is announced, with its own code, is part of KeepsPromise (see ScenarioPromise).
RunEnds == \A s \in Scenario : s \in active ~> (~Alive \/ (s \notin active /\ finish # 0))
-----------------------------------------------------------------------------
(***************************************************************************)
(* What the documents, comments and messages of the repository say of a    *)
(* run, and the code does not do.                                          *)
(***************************************************************************)
\* "if the test is already running then they will be ignored" (Units.md:72): a START
\* never kills the program, whenever it comes.
StartNeverPanics == panicked # "borrow"

\* ScenarioFinished(200, "all tests passed") (scenario.rs:888).
AllTestsPassed ==
    \A s \in Scenario : scenario[s].state = "ScenarioFinished" /\ FinishCode(scenario[s]) = 200 =>
       \A t \in TestsOf(Desc(s)) : scenario[s].test_states[t] = "Pass"
=============================================================================
