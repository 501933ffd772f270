-------------------------- MODULE ScenarioRunProofs --------------------------
(***************************************************************************)
(* Theorems about ScenarioRun, for every set of tests, scenarios and       *)
(* libraries, every set of requests and every bound on their number.       *)
(*                                                                         *)
(* After types, selection, programs and verdicts come the messages: how    *)
(* they move through the queue, what handling an AdvanceScenario sends,    *)
(* and what the first request can lead to, whatever it asks for.  The last *)
(* section begins the argument about a scenario that is loaded alone.      *)
(***************************************************************************)
EXTENDS ScenarioRun, TLAPS

(***************************************************************************)
(* Sequences: the facts that later steps cite.                             *)
(***************************************************************************)
\* A sequence is a function on its positions.
LEMMA LenProperties ==
    ASSUME NEW S, NEW s \in Seq(S)
    PROVE  Len(s) \in Nat /\ DOMAIN s = 1..Len(s) /\ s \in [1..Len(s) -> S]
OBVIOUS

\* A function on the positions up to n is a sequence.
LEMMA SeqOfFunction ==
    ASSUME NEW S, NEW n \in Nat, NEW s \in [1..n -> S]
    PROVE  s \in Seq(S) /\ Len(s) = n
OBVIOUS

\* What a sequence holds.
LEMMA ElementOfSeq ==
    ASSUME NEW S, NEW s \in Seq(S), NEW k \in 1..Len(s)
    PROVE  s[k] \in S
OBVIOUS

\* The empty sequence, and the others.
LEMMA EmptySeq ==
    ASSUME NEW S
    PROVE  /\ <<>> \in Seq(S) /\ Len(<<>>) = 0
           /\ \A s \in Seq(S) : s # <<>> => Len(s) \in Nat \ {0}
OBVIOUS

\* Sequences over a smaller set.
LEMMA SeqMonotonic ==
    ASSUME NEW S, NEW R, S \subseteq R, NEW s \in Seq(S)
    PROVE  s \in Seq(R)
OBVIOUS

\* A message is put at the end of a channel.
LEMMA AppendProperties ==
    ASSUME NEW S, NEW s \in Seq(S), NEW x \in S
    PROVE  /\ Append(s, x) \in Seq(S) /\ Append(s, x) # <<>>
           /\ Len(Append(s, x)) = Len(s) + 1
           /\ Append(s, x)[Len(s) + 1] = x
           /\ \A k \in 1..Len(s) : Append(s, x)[k] = s[k]
OBVIOUS

\* A message is taken from the head of a channel.
LEMMA HeadTailProperties ==
    ASSUME NEW S, NEW s \in Seq(S), s # <<>>
    PROVE  /\ Head(s) \in S /\ Tail(s) \in Seq(S)
           /\ Len(Tail(s)) = Len(s) - 1
           /\ \A k \in 1..Len(Tail(s)) : Tail(s)[k] = s[k + 1]
OBVIOUS

\* What was queued, followed by what was sent.
LEMMA ConcatProperties ==
    ASSUME NEW S, NEW s \in Seq(S), NEW t \in Seq(S)
    PROVE  /\ s \o t \in Seq(S)
           /\ Len(s \o t) = Len(s) + Len(t)
           /\ \A k \in 1..(Len(s) + Len(t)) :
                 (s \o t)[k] = IF k <= Len(s) THEN s[k] ELSE t[k - Len(s)]
OBVIOUS

(***************************************************************************)
(* Messages.                                                               *)
(***************************************************************************)
\* What the constructors build are messages.
LEMMA MessageTypes ==
    /\ \A u \in Unit, r \in Result : AdvanceScenario(u, r) \in Message
    /\ \A t \in Test : StartTest(t) \in Message /\ TestStarted(t) \in Message
    /\ \A u \in Unit : StopTest(u) \in Message
    /\ \A S \in SUBSET Test, r \in Result : TestFinished(S, r) \in Message
    /\ \A S \in SUBSET Test : Skip(S) \in Message
    /\ \A s \in Scenario, c \in Nat : ScenarioFinished(s, c) \in Message
    /\ \A r \in Requests : r \in Message
BY RunAssumption DEF Message, AdvanceScenario, StartTest, TestStarted, StopTest, TestFinished,
   Skip, ScenarioFinished, StartScenario, SelectScenario, Rescan, Unit

\* What clients ask for.
LEMMA RequestKinds ==
    \A r \in Requests : r.what \in {"StartScenario", "Scenario", "Rescan"}
BY RunAssumption DEF StartScenario, SelectScenario, Rescan

\* What a message of each kind carries.
LEMMA MessageFields ==
    ASSUME NEW m \in Message
    PROVE  /\ m.what = "AdvanceScenario" => m.from \in Unit /\ m.result \in Result
           /\ m.what = "StartTest" => m.unit \in Test
           /\ m.what = "StopTest" => m.unit \in Unit
           /\ m.what = "TestStarted" => m.from \in Test
           /\ m.what = "TestFinished" => m.tests \in SUBSET Test /\ m.result \in Result
           /\ m.what = "Skip" => m.tests \in SUBSET Test
           /\ m.what = "ScenarioFinished" => m.from \in Scenario /\ m.code \in Nat
           /\ m.what = "StartScenario" => m.unit \in Unit \cup {None}
           /\ m.what = "Scenario" => m.unit \in Scenario
           /\ m.what = "Rescan" => m.unit \in Scenario /\ m.present \in BOOLEAN
BY Zenon DEF Message

\* The descriptions in a library have their types.
LEMMA LibraryTypes ==
    ASSUME TypeOK
    PROVE  /\ T \in [Test -> TestDescription]
           /\ \A s \in Scenario : /\ Desc(s) \in ScenarioDescription
                                  /\ TestCount(Desc(s)) \in Nat
                                  /\ TestsOf(Desc(s)) \subseteq Test
                                  /\ \A k \in 1..TestCount(Desc(s)) : Desc(s).test_sequence[k] \in Test
<1>1. library \in Library
  BY RunAssumption DEF TypeOK
<1>2. T \in [Test -> TestDescription] /\ \A s \in Scenario : Desc(s) \in ScenarioDescription
  BY <1>1, Zenon DEF Library, T, Desc
<1>3. ASSUME NEW s \in Scenario
      PROVE  /\ TestCount(Desc(s)) \in Nat
             /\ TestsOf(Desc(s)) \subseteq Test
             /\ \A k \in 1..TestCount(Desc(s)) : Desc(s).test_sequence[k] \in Test
  <2>1. Desc(s).test_sequence \in Seq(Test)
    BY <1>2, Zenon DEF ScenarioDescription
  <2>. QED
    BY <2>1, LenProperties, ElementOfSeq DEF TestCount, TestsOf
<1>. QED
  BY <1>2, <1>3, Zenon
-----------------------------------------------------------------------------
(***************************************************************************)
(* Type correctness.                                                       *)
(***************************************************************************)
\* Activating a scenario gives a scenario object.
LEMMA FreshType == FreshScenario \in ScenarioObject
BY Zenon DEF FreshScenario, ScenarioObject, Phase, TestState

\* Recording a result gives a scenario object at the same place.
LEMMA RecordType ==
    ASSUME NEW d, NEW o \in ScenarioObject, NEW r \in Result
    PROVE  /\ RecordResult(d, o, r) \in ScenarioObject
           /\ RecordResult(d, o, r).state = o.state
           /\ RecordResult(d, o, r).step = o.step
<1>. DEFINE failures == IF o.state \in {"Running", "PreStart"} /\ r # 0 THEN o.failures + 1 ELSE o.failures
            exec == IF o.state = "PreStart" THEN Verdict(r) ELSE o.exec_start_state
            states == IF o.state = "Running"
                      THEN [o.test_states EXCEPT ![d.test_sequence[o.step]] = Verdict(r)]
                      ELSE o.test_states
<1>1. Verdict(r) \in TestState
  BY Zenon DEF Verdict, TestState
<1>2. failures \in Nat /\ exec \in TestState
  BY <1>1 DEF ScenarioObject
<1>3. states \in [Test -> TestState]
  <2>1. o.test_states \in [Test -> TestState]
    BY Zenon DEF ScenarioObject
  <2>. HIDE DEF Verdict
  <2>. QED
    BY <1>1, <2>1, Zenon
<1>4. RecordResult(d, o, r) =
         [o EXCEPT !.failures = failures, !.exec_start_state = exec, !.test_states = states]
  BY Zenon DEF RecordResult
<1>. HIDE DEF failures, exec, states
<1>. QED
  BY <1>2, <1>3, <1>4, Zenon DEF ScenarioObject

\* The message at the head of the queue is one.
LEMMA HeadTypes ==
    ASSUME TypeOK, queue # <<>>
    PROVE  Head(queue) \in Message /\ Tail(queue) \in Seq(Message)
BY HeadTailProperties, Zenon DEF TypeOK

\* At the start every variable has its type.
LEMMA TypeInit == Init => TypeOK
<1>. SUFFICES ASSUME Init PROVE TypeOK
  BY Zenon
<1>1. scenario \in [Scenario -> ScenarioObject]
  BY FreshType, Zenon DEF Init
<1>2. selected \subseteq Unit
  <2>1. library \in Library
    BY RunAssumption DEF Init
  <2>2. current \in Scenario /\ Desc(current).test_sequence \in Seq(Test)
    BY <2>1, Zenon DEF Init, Library, Desc, ScenarioDescription
  <2>3. TestsOf(Desc(current)) \subseteq Test
    BY <2>2, LenProperties, ElementOfSeq DEF TestsOf, TestCount
  <2>. QED
    BY <2>2, <2>3, RunAssumption, Zenon DEF Init, Selectable, Unit
<1>. QED
  BY <1>1, <1>2, RunAssumption DEF Init, TypeOK, Result

(***************************************************************************)
(* AdvanceScenario looks up the test at the current step, so its messages  *)
(* are messages only while the step is one of the sequence: the type       *)
(* invariant is inductive together with this.                              *)
(***************************************************************************)
StepInRange ==
    \A s \in Scenario :
       scenario[s].state = "Running" => scenario[s].step \in 1..TestCount(Desc(s))

\* Marking tests as skipped gives a scenario object.
LEMMA SkippingType ==
    ASSUME NEW o \in ScenarioObject, NEW S
    PROVE  /\ Skipping(o, S) \in ScenarioObject
           /\ Skipping(o, S).state = o.state
           /\ Skipping(o, S).step = o.step
<1>. DEFINE states == [t \in Test |-> IF t \in S THEN "Skip" ELSE o.test_states[t]]
<1>1. states \in [Test -> TestState]
  BY Zenon DEF ScenarioObject, TestState
<1>2. Skipping(o, S) = [o EXCEPT !.test_states = states]
  BY Zenon DEF Skipping
<1>. HIDE DEF states
<1>. QED
  BY <1>1, <1>2, Zenon DEF ScenarioObject

\* The steps tried are steps of the sequence, and the tests skipped are tests.
LEMMA SkippedType ==
    ASSUME NEW d, NEW o \in ScenarioObject, NEW late, NEW next,
           TestCount(d) \in Nat, \A k \in 1..TestCount(d) : d.test_sequence[k] \in Test
    PROVE  /\ StepsTried(d, o) \subseteq 1..TestCount(d)
           /\ SkippedBefore(d, T, o, late, next) \subseteq Test
<1>1. LastStepLeft(o) \in Nat
  BY Zenon DEF LastStepLeft, ScenarioObject
<1>2. StepsTried(d, o) \subseteq 1..TestCount(d)
  BY <1>1 DEF StepsTried
<1>. QED
  BY <1>2, Zenon DEF SkippedBefore

\* What an AdvanceScenario that is handled starts from.
LEMMA AdvanceTypes ==
    ASSUME TypeOK, StepInRange, Handling("AdvanceScenario"), current # None
    PROVE  /\ queue # <<>> /\ current \in Scenario
           /\ Recorded \in ScenarioObject
           /\ Recorded.state = scenario[current].state /\ Recorded.step = scenario[current].step
           /\ StopLastTest(Recorded) \in Seq(Message)
           /\ \A S \in SUBSET Test : SkipMessages(S) \in Seq(Message)
<1>1. queue # <<>> /\ current \in Scenario /\ Head(queue).result \in Result
  BY HeadTypes, MessageFields, Zenon DEF Handling, TypeOK
<1>2. /\ Recorded \in ScenarioObject
      /\ Recorded.state = scenario[current].state /\ Recorded.step = scenario[current].step
  BY <1>1, RecordType DEF Recorded, TypeOK
<1>3. StopLastTest(Recorded) \in Seq(Message)
  <2>1. CASE Recorded.state = "Running"
    <3>1. Desc(current).test_sequence[Recorded.step] \in Unit
      BY <1>1, <1>2, <2>1, LibraryTypes, Zenon DEF StepInRange, Unit
    <3>2. StopTest(Desc(current).test_sequence[Recorded.step]) \in Message
      BY <3>1, MessageTypes, Zenon
    <3>. QED
      BY <3>2, EmptySeq DEF StopLastTest
  <2>2. CASE Recorded.state # "Running"
    BY <2>2, EmptySeq, Zenon DEF StopLastTest
  <2>. QED
    BY <2>1, <2>2, Zenon
<1>4. ASSUME NEW S \in SUBSET Test PROVE SkipMessages(S) \in Seq(Message)
  <2>1. Skip(S) \in Message
    BY MessageTypes, Zenon
  <2>. QED
    BY <2>1, EmptySeq DEF SkipMessages
<1>. QED
  BY <1>1, <1>2, <1>3, <1>4, Zenon

\* Everything that is not the handling of AdvanceScenario.
Elsewhere ==
    \/ \E r \in Requests : Request(r)
    \/ TestThreads
    \/ \E s \in Scenario, r \in Result : SupportExits(s, r)
    \/ Send
    \/ HandleStartTest \/ HandleStopTest
    \/ HandleTestStarted \/ HandleTestFinished \/ HandleSkip \/ HandleScenarioFinished
    \/ HandleSelectScenario \/ HandleRescan
    \/ StartRefused \/ StartSelected \/ StartOther \/ StartUnknown \/ StartNamedTest

\* Only AdvanceScenario moves a scenario: anything else leaves it or resets it.
LEMMA ScenarioElsewhere ==
    ASSUME TypeOK, Elsewhere
    PROVE  /\ library' = library
           /\ \A s \in Scenario : scenario'[s] \in {scenario[s], FreshScenario}
<1>1. CASE \E r \in Requests : Request(r)
  BY <1>1, Zenon DEF Request
<1>2. CASE TestThreads
  BY <1>2, Zenon DEF TestThreads, SimpleAdvances, DaemonReady, DaemonNotReady, DaemonGivesUp,
     SimpleExits, DaemonExits, ThreadStep
<1>3. CASE (\E s \in Scenario, r \in Result : SupportExits(s, r)) \/ Send
  BY <1>3, Zenon DEF SupportExits, Send
<1>4. CASE HandleStartTest \/ StartNamedTest
  BY <1>4, Zenon DEF HandleStartTest, StartNamedTest, ActivateTest
<1>5. CASE HandleStopTest
  BY <1>5, Zenon DEF HandleStopTest, Handled
<1>6. CASE \/ HandleTestStarted \/ HandleTestFinished \/ HandleSkip \/ HandleScenarioFinished
           \/ StartRefused \/ StartUnknown
  BY <1>6, Zenon DEF HandleTestStarted, HandleTestFinished, HandleSkip, HandleScenarioFinished,
     StartRefused, StartUnknown, Handled, Panic
<1>7. CASE HandleSelectScenario
  BY <1>7, Zenon DEF HandleSelectScenario, Handled
<1>8. CASE HandleRescan
  BY <1>8, Zenon DEF HandleRescan, Handled, TypeOK
<1>9. CASE StartSelected \/ StartOther
  BY <1>9, Zenon DEF StartSelected, StartOther, ActivateScenario, Handled, TypeOK
<1>. QED
  BY <1>1, <1>2, <1>3, <1>4, <1>5, <1>6, <1>7, <1>8, <1>9, Zenon DEF Elsewhere

\* The steps of the specification, split for the proofs.
LEMMA NextSplit == Next => Elsewhere \/ HandleAdvanceScenario \/ AdvanceNothing
BY Zenon DEF Next, MainThread, Elsewhere

\* Every variable keeps its type: in particular every message that scenario.rs, test.rs
\* and unitmanager.rs put on the control channel names units of the right kind, and the
\* step of a running scenario is always an index of its test sequence, so the lookups of
\* advance() (scenario.rs:573, 619) never go out of bounds.
THEOREM TypeCorrect == Spec => [](TypeOK /\ StepInRange)
\* The message taken and those the handler sends keep the channels typed.
<1>HandledTypes.
    ASSUME TypeOK, queue # <<>>, NEW sent \in Seq(Message), Handled(sent)
    PROVE  /\ queue' \in Seq(Message) /\ out' \in Seq(Message)
           /\ library' \in Libraries /\ requests' \in 0..MaxRequests
           /\ panicked' \in {"no", "index", "duration", "borrow", "unwrap"}
  BY <1>HandledTypes, HeadTailProperties, Zenon DEF TypeOK, Handled
\* A handler that sends nothing.
<1>HandledNothing.
    ASSUME TypeOK, queue # <<>>, Handled(<<>>)
    PROVE  /\ queue' \in Seq(Message) /\ out' \in Seq(Message)
           /\ library' \in Libraries /\ requests' \in 0..MaxRequests
           /\ panicked' \in {"no", "index", "duration", "borrow", "unwrap"}
  <2>. USE <1>HandledNothing
  <2>1. <<>> \in Seq(Message)
    BY EmptySeq, Zenon
  <2>. QED
    BY <2>1, <1>HandledTypes, Zenon
\* Stopping programs changes nothing but a flag of threads.
<1>TerminatedTypes.
    ASSUME TypeOK, NEW S
    PROVE  Terminated(S) \subseteq Thread
  <2>. USE <1>TerminatedTypes
  <2>1. ASSUME NEW th \in threads PROVE th \in Thread /\ [th EXCEPT !.killed = TRUE] \in Thread
    <3>1. th \in Thread
      BY Zenon DEF TypeOK
    <3>. QED
      BY <3>1, Zenon DEF Thread
  <2>. QED
    BY <2>1, Zenon DEF Terminated
\* send_finished_once sends at most one report and notes it.
<1>FinishedTypes.
    ASSUME TypeOK, NEW t \in Test, NEW r \in Result, NEW run \in Nat
    PROVE  /\ FinishedOnce(t, r) \in Seq(Message)
           /\ MarkFinished(t, r, run) => /\ result_arc' \in [Test -> Result \cup {None}]
                                         /\ reports' \in [Test -> Seq(Nat)]
  <2>. USE <1>FinishedTypes
  <2>1. TestFinished({t}, r) \in Message
    BY MessageTypes, Zenon
  <2>2. FinishedOnce(t, r) \in Seq(Message)
    BY <2>1 DEF FinishedOnce
  <2>3. ASSUME MarkFinished(t, r, run) PROVE result_arc' \in [Test -> Result \cup {None}]
    BY <2>3, Zenon DEF MarkFinished, TypeOK
  <2>4. ASSUME MarkFinished(t, r, run) PROVE reports' \in [Test -> Seq(Nat)]
    <3>1. reports[t] \in Seq(Nat) /\ Append(reports[t], run) \in Seq(Nat)
      BY AppendProperties, Zenon DEF TypeOK
    <3>. QED
      BY <2>4, <3>1, Zenon DEF MarkFinished, TypeOK
  <2>. QED
    BY <2>2, <2>3, <2>4, Zenon
\* The senders.
<1>TypeSenders.
    ASSUME TypeOK,
           \/ \E r \in Requests : Request(r)
           \/ TestThreads
           \/ \E s \in Scenario, r \in Result : SupportExits(s, r)
           \/ Send
    PROVE  TypeOK'
  <2>. USE <1>TypeSenders
  <2>1. ASSUME NEW r \in Requests, Request(r) PROVE TypeOK'
    <3>1. r \in Message
      BY MessageTypes, Zenon
    <3>2. queue' \in Seq(Message)
      BY <2>1, <3>1, AppendProperties, Zenon DEF TypeOK, Request
    <3>3. requests' \in 0..MaxRequests
      BY <2>1, RunAssumption DEF TypeOK, Request
    <3>. QED
      BY <2>1, <3>2, <3>3, Zenon DEF TypeOK, Request, managerVars, testVars, viewVars
  <2>2. ASSUME Send PROVE TypeOK'
    <3>1. queue' \in Seq(Message) /\ out' \in Seq(Message)
      BY <2>2, AppendProperties, HeadTailProperties, Zenon DEF TypeOK, Send
    <3>. QED
      BY <2>2, <3>1, Zenon DEF TypeOK, Send, managerVars, testVars, viewVars
  <2>3. ASSUME NEW s \in Scenario, NEW r \in Result, SupportExits(s, r) PROVE TypeOK'
    <3>1. AdvanceScenario(s, r) \in Message
      BY MessageTypes, Zenon DEF Unit
    <3>2. support' \in [Scenario -> Nat]
      BY <2>3 DEF TypeOK, SupportExits
    <3>3. queue' \in Seq(Message)
      BY <2>3, <3>1, AppendProperties, Zenon DEF TypeOK, SupportExits
    <3>. QED
      BY <2>3, <3>2, <3>3, Zenon DEF TypeOK, SupportExits, managerVars, testVars, viewVars
  <2>4. ASSUME TestThreads PROVE TypeOK'
    <3>1. PICK th \in threads : \/ SimpleAdvances(th)
                                \/ DaemonReady(th)
                                \/ DaemonNotReady(th)
                                \/ DaemonGivesUp(th)
                                \/ \E r \in Result : SimpleExits(th, r) \/ DaemonExits(th, r)
      BY <2>4, Zenon DEF TestThreads
    <3>2. th \in Thread /\ th.test \in Test /\ th.run \in Nat /\ th.result \in Result
      BY Zenon DEF TypeOK, Thread
    <3>3. ASSUME NEW next \in SUBSET Thread, NEW sent \in Seq(Message), ThreadStep(th, next, sent),
                 result_arc' \in [Test -> Result \cup {None}], reports' \in [Test -> Seq(Nat)]
          PROVE  TypeOK'
      BY <3>3, ConcatProperties, Zenon DEF TypeOK, ThreadStep, managerVars, viewVars
    <3>4. \A r \in Result :
             /\ FinishedOnce(th.test, r) \in Seq(Message)
             /\ MarkFinished(th.test, r, th.run) => /\ result_arc' \in [Test -> Result \cup {None}]
                                                    /\ reports' \in [Test -> Seq(Nat)]
      BY <3>2, <1>FinishedTypes, Zenon
    <3>5. \A r \in Result : <<AdvanceScenario(th.test, r)>> \in Seq(Message)
      BY <3>2, MessageTypes DEF Unit
    <3>6. 0 \in Result /\ 1 \in Result
      BY Zenon DEF Result
    <3>7. UNCHANGED <<result_arc, reports>> =>
             result_arc' \in [Test -> Result \cup {None}] /\ reports' \in [Test -> Seq(Nat)]
      BY Zenon DEF TypeOK
    <3>8. \A r \in Result : /\ [th EXCEPT !.pc = "advance", !.result = r] \in Thread
                            /\ [th EXCEPT !.pc = "ready"] \in Thread
                            /\ [th EXCEPT !.pc = "failing", !.killed = TRUE] \in Thread
      BY <3>2, Zenon DEF Thread
    <3>9. CASE SimpleAdvances(th)
      BY <3>2, <3>3, <3>5, <3>7, <3>9, Zenon DEF SimpleAdvances
    <3>10. CASE DaemonReady(th)
      BY <3>3, <3>5, <3>6, <3>7, <3>8, <3>10, Zenon DEF DaemonReady
    <3>11. CASE DaemonNotReady(th)
      BY <3>3, <3>5, <3>6, <3>7, <3>8, <3>11, Zenon DEF DaemonNotReady
    <3>12. CASE DaemonGivesUp(th)
      BY <3>3, <3>4, <3>6, <3>12, Zenon DEF DaemonGivesUp
    <3>13. ASSUME NEW r \in Result, SimpleExits(th, r) PROVE TypeOK'
      BY <3>3, <3>4, <3>8, <3>13, Zenon DEF SimpleExits
    <3>14. ASSUME NEW r \in Result, DaemonExits(th, r) PROVE TypeOK'
      BY <3>3, <3>4, <3>14, Zenon DEF DaemonExits
    <3>. QED
      BY <3>1, <3>9, <3>10, <3>11, <3>12, <3>13, <3>14, Zenon
  <2>. QED
    BY <2>1, <2>2, <2>3, <2>4, Zenon
\* Activating a test.
<1>TypeActivateTest.
    ASSUME TypeOK, queue # <<>>, NEW t \in Test, ActivateTest(t)
    PROVE  TypeOK'
  <2>. USE <1>TypeActivateTest
  <2>1. /\ selected' \subseteq Unit
        /\ UNCHANGED <<library, loaded, current, scenario, support, shown, finish, requests, panicked>>
    BY Zenon DEF ActivateTest, TypeOK, Unit, viewVars
  <2>2. Tail(queue) \in Seq(Message)
    BY HeadTypes, Zenon
  <2>3. CASE queue' = Tail(queue) /\ UNCHANGED <<active, testVars, out>>
    BY <2>1, <2>2, <2>3, Zenon DEF TypeOK, testVars
  <2>4. ASSUME result_arc' = ClearedResult(t), activations' = [activations EXCEPT ![t] = @ + 1]
        PROVE  result_arc' \in [Test -> Result \cup {None}] /\ activations' \in [Test -> Nat]
    BY <2>4, SMTT(30) DEF TypeOK, ClearedResult
  <2>5. ASSUME result_arc' = ClearedResult(t), activations' = [activations EXCEPT ![t] = @ + 1],
               threads' = threads \cup
                  {[test |-> t, run |-> activations[t] + 1, result |-> 0, killed |-> FALSE,
                    pc |-> IF T[t].daemon THEN "starting" ELSE "wait"]},
               active' = active \cup {t}, queue' = Append(Tail(queue), TestStarted(t)),
               UNCHANGED <<reports, out>>
        PROVE  TypeOK'
    <3>1. threads' \subseteq Thread
      <4>1. activations[t] + 1 \in Nat /\ threads \subseteq Thread
        BY DEF TypeOK
      <4>2. (IF T[t].daemon THEN "starting" ELSE "wait") \in {"wait", "advance", "starting", "failing", "ready"}
        BY Zenon
      <4>3. [test |-> t, run |-> activations[t] + 1, result |-> 0, killed |-> FALSE,
             pc |-> IF T[t].daemon THEN "starting" ELSE "wait"] \in Thread
        BY <4>1, <4>2, Zenon DEF Thread, Result
      <4>. QED
        BY <2>5, <4>1, <4>3, Zenon
    <3>2. queue' \in Seq(Message)
      BY <2>2, <2>5, MessageTypes, AppendProperties, Zenon
    <3>. QED
      BY <2>1, <2>4, <2>5, <3>1, <3>2, Zenon DEF TypeOK, Unit
  <2>6. ASSUME result_arc' = ClearedResult(t), activations' = [activations EXCEPT ![t] = @ + 1],
               queue' = Tail(queue),
               out' = <<TestStarted(t), TestFinished({t}, 1), AdvanceScenario(t, 1)>>,
               reports' = [reports EXCEPT ![t] = Append(@, activations[t] + 1)],
               UNCHANGED <<active, threads>>
        PROVE  TypeOK'
    <3>1. out' \in Seq(Message)
      BY <2>6, MessageTypes DEF Result, Unit
    <3>2. reports' \in [Test -> Seq(Nat)]
      BY <2>6, AppendProperties, SMTT(30) DEF TypeOK
    <3>. QED
      BY <2>1, <2>2, <2>4, <2>6, <3>1, <3>2, Zenon DEF TypeOK
  <2>. QED
    BY <2>3, <2>5, <2>6, Zenon DEF ActivateTest
\* The handlers that broadcast, and those that stop and finish.
<1>TypeHandlers.
    ASSUME TypeOK,
           \/ HandleStartTest \/ HandleStopTest
           \/ HandleTestStarted \/ HandleTestFinished \/ HandleSkip \/ HandleScenarioFinished
    PROVE  TypeOK'
  <2>. USE <1>TypeHandlers
  <2>1. CASE HandleStartTest
    BY <2>1, HeadTypes, MessageFields, <1>TypeActivateTest, Zenon DEF HandleStartTest, Handling
  <2>2. CASE HandleStopTest
    <3>. DEFINE u == Head(queue).unit
    <3>1. u \in Unit /\ queue # <<>>
      BY <2>2, HeadTypes, MessageFields, Zenon DEF HandleStopTest, Handling
    <3>2. /\ UNCHANGED <<loaded, current, selected, scenario, activations, support, shown, finish>>
          /\ active' \subseteq Unit
          /\ threads' \subseteq Thread
      BY <2>2, <1>TerminatedTypes, Zenon DEF HandleStopTest, TypeOK, viewVars
    <3>3. CASE /\ u \in Test /\ Handled(FinishedOnce(u, 0)) /\ MarkFinished(u, 0, activations[u])
      <4>1. activations[u] \in Nat /\ 0 \in Result
        BY <3>3, Zenon DEF TypeOK, Result
      <4>2. /\ FinishedOnce(u, 0) \in Seq(Message)
            /\ result_arc' \in [Test -> Result \cup {None}] /\ reports' \in [Test -> Seq(Nat)]
        BY <3>3, <4>1, <1>FinishedTypes, Zenon
      <4>. QED
        BY <3>1, <3>2, <3>3, <4>2, <1>HandledTypes, Zenon DEF TypeOK
    <3>4. CASE Handled(<<>>) /\ UNCHANGED <<result_arc, reports>>
      BY <3>1, <3>2, <3>4, <1>HandledNothing, Zenon DEF TypeOK
    <3>. QED
      BY <2>2, <3>3, <3>4, Zenon DEF HandleStopTest
  <2>3. CASE HandleTestStarted \/ HandleTestFinished \/ HandleSkip
    <3>1. queue # <<>> /\ Handled(<<>>)
      BY <2>3, Zenon DEF HandleTestStarted, HandleTestFinished, HandleSkip, Handling
    <3>2. shown' \in [Test -> {"none", "RUNNING", "PASS", "FAIL", "SKIP"}]
      BY <2>3, Zenon DEF HandleTestStarted, HandleTestFinished, HandleSkip, TypeOK
    <3>3. UNCHANGED <<managerVars, scenario, testVars, support, finish>>
      BY <2>3, Zenon DEF HandleTestStarted, HandleTestFinished, HandleSkip
    <3>. QED
      BY <3>1, <3>2, <3>3, <1>HandledNothing, Zenon DEF TypeOK, managerVars, testVars
  <2>4. CASE HandleScenarioFinished
    <3>1. queue # <<>> /\ Head(queue).code \in Nat
      BY <2>4, HeadTypes, MessageFields, Zenon DEF HandleScenarioFinished, Handling
    <3>2. CASE Panic("unwrap") \/ Panic("borrow")
      BY <3>1, <3>2, HeadTypes, Zenon DEF Panic, TypeOK, managerVars, testVars, viewVars
    <3>3. CASE /\ finish' = Head(queue).code /\ Handled(<<>>)
               /\ UNCHANGED <<managerVars, scenario, testVars, support, shown>>
      BY <3>1, <3>3, <1>HandledNothing, Zenon DEF TypeOK, managerVars, testVars
    <3>. QED
      BY <2>4, <3>2, <3>3, Zenon DEF HandleScenarioFinished
  <2>. QED
    BY <2>1, <2>2, <2>3, <2>4, Zenon
\* Switching scenarios: the reports sent, and what SwitchTo leaves.
<1>SwitchTypes.
    ASSUME TypeOK
    PROVE  /\ StoppedReports \in Seq(Message)
           /\ \A s \in Scenario \cup {None} : SwitchTo(s) =>
                 /\ current' \in Scenario \cup {None} /\ selected' \subseteq Unit
                 /\ threads' \subseteq Thread /\ result_arc' \in [Test -> Result \cup {None}]
                 /\ reports' \in [Test -> Seq(Nat)]
                 /\ UNCHANGED <<activations, support, shown, finish>>
  <2>. USE <1>SwitchTypes
  <2>1. DaemonsStopped \subseteq Test /\ 0 \in Result
    BY Zenon DEF DaemonsStopped, Result
  <2>2. StoppedReports \in Seq(Message)
    <3>1. TestFinished(DaemonsStopped, 0) \in Message
      BY <2>1, MessageTypes, Zenon
    <3>. QED
      BY <3>1, EmptySeq DEF StoppedReports
  <2>3. ASSUME NEW s \in Scenario \cup {None}, SwitchTo(s)
        PROVE  /\ current' \in Scenario \cup {None} /\ selected' \subseteq Unit
               /\ threads' \subseteq Thread /\ result_arc' \in [Test -> Result \cup {None}]
               /\ reports' \in [Test -> Seq(Nat)]
               /\ UNCHANGED <<activations, support, shown, finish>>
    <3>1. Selectable(s) \subseteq Unit
      BY LibraryTypes, Zenon DEF Selectable, Unit
    <3>2. threads' \subseteq Thread
      BY <2>3, <1>TerminatedTypes, Zenon DEF SwitchTo
    <3>3. reports' \in [Test -> Seq(Nat)]
      <4>1. \A t \in Test : Append(reports[t], activations[t]) \in Seq(Nat) /\ reports[t] \in Seq(Nat)
        BY AppendProperties, Zenon DEF TypeOK
      <4>. QED
        BY <2>3, <4>1, Zenon DEF SwitchTo
    <3>4. result_arc' \in [Test -> Result \cup {None}]
      BY <2>1, <2>3, Zenon DEF SwitchTo, TypeOK
    <3>. QED
      BY <2>3, <3>1, <3>2, <3>3, <3>4, Zenon DEF SwitchTo, TypeOK, viewVars
  <2>. QED
    BY <2>2, <2>3, Zenon
\* Selecting, reloading and starting scenarios.
<1>TypeSelection.
    ASSUME TypeOK,
           \/ HandleSelectScenario \/ HandleRescan
           \/ StartRefused \/ StartSelected \/ StartOther \/ StartUnknown \/ StartNamedTest
    PROVE  TypeOK'
  <2>. USE <1>TypeSelection
  <2>1. queue # <<>> /\ Head(queue) \in Message
    BY HeadTypes, Zenon DEF HandleSelectScenario, HandleRescan, StartRefused, StartSelected, StartOther,
       StartUnknown, StartNamedTest, StartAccepted, Handling
  <2>2. StoppedReports \in Seq(Message)
    BY <1>SwitchTypes, Zenon
  <2>3. \A s \in Scenario : [scenario EXCEPT ![s] = FreshScenario] \in [Scenario -> ScenarioObject]
    BY FreshType, Zenon DEF TypeOK
  <2>4. CASE HandleSelectScenario
    <3>. DEFINE s == Head(queue).unit
    <3>1. s \in Scenario
      BY <2>1, <2>4, MessageFields, Zenon DEF HandleSelectScenario, Handling
    <3>2. CASE SwitchTo(s) /\ active' = active \ OldUnits /\ Handled(StoppedReports)
      BY <2>1, <2>2, <2>4, <3>1, <3>2, <1>SwitchTypes, <1>HandledTypes, Zenon DEF HandleSelectScenario, TypeOK
    <3>3. CASE Handled(<<>>) /\ UNCHANGED <<current, selected, active, testVars, support, viewVars>>
      BY <2>1, <2>4, <3>3, <1>HandledNothing, Zenon DEF HandleSelectScenario, TypeOK, testVars, viewVars
    <3>. QED
      BY <2>4, <3>2, <3>3, Zenon DEF HandleSelectScenario
  <2>5. CASE HandleRescan
    <3>. DEFINE s == Head(queue).unit
    <3>1. s \in Scenario
      BY <2>1, <2>5, MessageFields, Zenon DEF HandleRescan, Handling
    <3>2. loaded' \subseteq Scenario /\ scenario' \in [Scenario -> ScenarioObject]
      BY <2>3, <2>5, <3>1, Zenon DEF HandleRescan, TypeOK
    <3>3. ASSUME NEW next \in loaded' \cup {None}, SwitchTo(next), active' = active \ OldUnits,
                 Handled(StoppedReports)
          PROVE  TypeOK'
      <4>1. next \in Scenario \cup {None}
        BY <3>2, Zenon
      <4>. QED
        BY <2>1, <2>2, <3>2, <3>3, <4>1, <1>SwitchTypes, <1>HandledTypes, Zenon DEF TypeOK
    <3>4. CASE Handled(<<>>) /\ UNCHANGED <<current, selected, active, testVars, support, viewVars>>
      BY <2>1, <3>2, <3>4, <1>HandledNothing, Zenon DEF TypeOK, testVars, viewVars
    <3>. QED
      BY <2>5, <3>3, <3>4, Zenon DEF HandleRescan
  <2>6. CASE StartRefused \/ StartUnknown
    BY <2>1, <2>6, <1>HandledNothing, Zenon DEF StartRefused, StartUnknown, TypeOK, managerVars, testVars, viewVars
  <2>7. ASSUME NEW s \in Scenario, NEW sent \in Seq(Message), ActivateScenario(s, sent)
        PROVE  /\ scenario' \in [Scenario -> ScenarioObject]
               /\ queue' \in Seq(Message) /\ out' \in Seq(Message)
               /\ library' \in Libraries /\ requests' \in 0..MaxRequests
               /\ panicked' \in {"no", "index", "duration", "borrow", "unwrap"}
    <3>1. Append(sent, AdvanceScenario(s, 0)) \in Seq(Message)
      BY MessageTypes, AppendProperties, Zenon DEF Unit, Result
    <3>. QED
      BY <2>1, <2>3, <2>7, <3>1, <1>HandledTypes, Zenon DEF ActivateScenario
  <2>8. CASE StartSelected
    <3>1. Named \in Scenario
      BY <2>8, Zenon DEF StartSelected
    <3>2. CASE Handled(<<>>) /\ UNCHANGED <<active, scenario>>
      BY <2>1, <2>8, <3>2, <1>HandledNothing, Zenon DEF StartSelected, TypeOK, testVars, viewVars
    <3>3. CASE active' = active \cup {Named} /\ ActivateScenario(Named, <<>>)
      BY <2>7, <2>8, <3>1, <3>3, EmptySeq, Zenon DEF StartSelected, TypeOK, testVars, viewVars, Unit
    <3>. QED
      BY <2>8, <3>2, <3>3, Zenon DEF StartSelected
  <2>9. CASE StartOther
    <3>1. Named \in Scenario
      BY <2>9, Zenon DEF StartOther, TypeOK
    <3>. QED
      BY <2>2, <2>7, <2>9, <3>1, <1>SwitchTypes, Zenon DEF StartOther, TypeOK, Unit
  <2>10. CASE StartNamedTest
    BY <2>1, <2>10, <1>TypeActivateTest, Zenon DEF StartNamedTest
  <2>. QED
    BY <2>4, <2>5, <2>6, <2>8, <2>9, <2>10, Zenon
\* finish_scenario stops every test and the scenario.
<1>FinishTypes.
    ASSUME TypeOK, NEW s \in Scenario
    PROVE  /\ StopMessages(s) \in Seq(Message)
           /\ \A o \in ScenarioObject : <<ScenarioFinished(s, FinishCode(o))>> \in Seq(Message)
  <2>. USE <1>FinishTypes
  <2>1. TestCount(Desc(s)) \in Nat /\ \A k \in 1..TestCount(Desc(s)) : Desc(s).test_sequence[k] \in Test
    BY LibraryTypes, Zenon
  <2>. DEFINE stops == [k \in 1..TestCount(Desc(s)) |-> StopTest(Desc(s).test_sequence[k])]
  <2>2. stops \in [1..TestCount(Desc(s)) -> Message]
    BY <2>1, MessageTypes, Zenon DEF Unit
  <2>3. stops \in Seq(Message)
    BY <2>1, <2>2, SeqOfFunction, Zenon
  <2>4. <<StopTest(s)>> \in Seq(Message)
    BY MessageTypes DEF Unit
  <2>5. StopMessages(s) \in Seq(Message)
    <3>. HIDE DEF stops
    <3>1. stops \o <<StopTest(s)>> \in Seq(Message)
      BY <2>3, <2>4, ConcatProperties, Zenon
    <3>. QED
      BY <3>1, Zenon DEF StopMessages, stops
  <2>6. ASSUME NEW o \in ScenarioObject PROVE <<ScenarioFinished(s, FinishCode(o))>> \in Seq(Message)
    <3>1. FinishCode(o) \in Nat
      BY DEF FinishCode, ScenarioObject
    <3>. QED
      BY <3>1, MessageTypes
  <2>. QED
    BY <2>5, <2>6, Zenon
\* Handling AdvanceScenario: types are kept and the step stays in range.
<1>TypeAdvance.
    ASSUME TypeOK, StepInRange, HandleAdvanceScenario \/ AdvanceNothing
    PROVE  TypeOK' /\ StepInRange'
  <2>. USE <1>TypeAdvance
  <2>1. CASE AdvanceNothing
    <3>1. queue # <<>> /\ Handled(<<>>) /\ UNCHANGED <<managerVars, scenario, testVars, support, viewVars>>
      BY <2>1, Zenon DEF AdvanceNothing, Handling
    <3>2. TypeOK'
      BY <3>1, <1>HandledNothing, Zenon DEF TypeOK, managerVars, testVars, viewVars
    <3>. QED
      BY <3>1, <3>2, Zenon DEF StepInRange, Desc, Handled
  <2>2. CASE HandleAdvanceScenario
    <3>. DEFINE o == Recorded
                d == Desc(current)
    <3>1. /\ queue # <<>> /\ current \in Scenario
          /\ o \in ScenarioObject /\ o.step = scenario[current].step
          /\ StopLastTest(o) \in Seq(Message)
          /\ \A S \in SUBSET Test : SkipMessages(S) \in Seq(Message)
      BY <2>2, AdvanceTypes, Zenon DEF HandleAdvanceScenario
    <3>2. /\ d.test_sequence \in Seq(Test) /\ TestCount(d) \in Nat
          /\ \A k \in 1..TestCount(d) : d.test_sequence[k] \in Test
      BY <3>1, LibraryTypes, Zenon DEF ScenarioDescription
    <3>. HIDE DEF o, d
    <3>3. ASSUME NEW where \in {"index", "duration"}, Panic(where) PROVE TypeOK' /\ StepInRange'
      BY <3>1, <3>3, HeadTypes, Zenon
         DEF Panic, TypeOK, StepInRange, Desc, managerVars, testVars, viewVars
    <3>4. ASSUME NEW new \in ScenarioObject,
                 new.state = "Running" => new.step \in 1..TestCount(d),
                 scenario' = [scenario EXCEPT ![current] = new],
                 UNCHANGED <<managerVars, testVars, viewVars>>,
                 support' \in [Scenario -> Nat],
                 NEW sent \in Seq(Message), Handled(sent)
          PROVE  TypeOK' /\ StepInRange'
      <4>1. scenario' \in [Scenario -> ScenarioObject]
        BY <3>1, <3>4, Zenon DEF TypeOK
      <4>2. TypeOK'
        BY <3>1, <3>4, <4>1, <1>HandledTypes, Zenon DEF TypeOK, managerVars, testVars, viewVars
      <4>3. \A s \in Scenario : Desc(s)' = Desc(s)
        BY <3>4, Zenon DEF Handled, Desc
      <4>4. \A s \in Scenario : scenario'[s] = IF s = current THEN new ELSE scenario[s]
        BY <3>1, <3>4, Zenon DEF TypeOK
      <4>5. StepInRange'
        BY <3>4, <4>3, <4>4, Zenon DEF StepInRange, d
      <4>. QED
        BY <4>2, <4>5, Zenon
    <3>5. ASSUME NEW sent \in Seq(Message), RunSupportCommand(sent)
          PROVE  /\ support' \in [Scenario -> Nat]
                 /\ \E all \in Seq(Message) : Handled(all)
      <4>1. Append(sent, AdvanceScenario(current, 1)) \in Seq(Message)
        BY <3>1, MessageTypes, AppendProperties, Zenon DEF Unit, Result
      <4>2. CASE support' = [support EXCEPT ![current] = @ + 1] /\ Handled(sent)
        BY <3>1, <4>2 DEF TypeOK
      <4>3. CASE UNCHANGED support /\ Handled(Append(sent, AdvanceScenario(current, 1)))
        BY <4>1, <4>3, Zenon DEF TypeOK
      <4>. QED
        BY <3>5, <4>2, <4>3, Zenon DEF RunSupportCommand
    <3>6. ASSUME NEW over \in ScenarioObject, NEW sent \in Seq(Message), Finish(over, sent),
                 UNCHANGED <<managerVars, testVars, viewVars>>
          PROVE  TypeOK' /\ StepInRange'
      <4>1. [over EXCEPT !.state = "ScenarioFinished"] \in ScenarioObject
            /\ [over EXCEPT !.state = "ScenarioFinished"].state = "ScenarioFinished"
        BY Zenon DEF ScenarioObject, Phase
      <4>2. sent \o StopMessages(current) \o <<ScenarioFinished(current, FinishCode(over))>> \in Seq(Message)
        BY <3>1, <1>FinishTypes, ConcatProperties, Zenon
      <4>3. support' \in [Scenario -> Nat]
        BY <3>6, Zenon DEF Finish, TypeOK
      <4>. QED
        BY <3>4, <3>6, <4>1, <4>2, <4>3, Zenon DEF Finish
    <3>7. CASE AdvanceToExecStart(o)
      <4>1. [o EXCEPT !.state = "PreStart"] \in ScenarioObject /\ [o EXCEPT !.state = "PreStart"].state = "PreStart"
        BY <3>1, Zenon DEF ScenarioObject, Phase
      <4>. QED
        BY <3>4, <3>5, <3>7, <4>1, EmptySeq, Zenon DEF AdvanceToExecStart
    <3>8. CASE AdvanceWithoutTests(o)
      BY <3>3, <3>8, Zenon DEF AdvanceWithoutTests
    <3>9. CASE AdvanceToEnd(o)
      BY <3>1, <3>6, <3>9, EmptySeq, Zenon DEF AdvanceToEnd
    <3>10. ASSUME NEW late \in LateSteps(d, o), AdvancePastTests(o, late)
           PROVE  TypeOK' /\ StepInRange'
      <4>. DEFINE skipped == SkippedBefore(d, T, o, late, TestCount(d) + 1)
                  sent == StopLastTest(o) \o SkipMessages(skipped)
                  over == [Skipping(o, skipped) EXCEPT
                             !.timed_out = @ \/ \E k \in StepsTried(d, o) : k >= late]
      <4>1. skipped \subseteq Test
        BY <3>1, <3>2, SkippedType, Zenon
      <4>2. sent \in Seq(Message)
        BY <3>1, <4>1, ConcatProperties, Zenon
      <4>3. over \in ScenarioObject
        <5>1. Skipping(o, skipped) \in ScenarioObject
          BY <3>1, SkippingType, Zenon
        <5>2. (Skipping(o, skipped).timed_out \/ \E k \in StepsTried(d, o) : k >= late) \in BOOLEAN
          BY Zenon
        <5>. HIDE DEF skipped
        <5>. QED
          BY <5>1, <5>2, Zenon DEF ScenarioObject
      <4>4. PostPhase(d, o) \in Phase /\ PostPhase(d, o) # "Running"
        BY Zenon DEF PostPhase, Phase
      <4>5. /\ [over EXCEPT !.state = PostPhase(d, o)] \in ScenarioObject
            /\ [over EXCEPT !.state = PostPhase(d, o)].state # "Running"
        <5>. HIDE DEF over
        <5>. QED
          BY <4>3, <4>4, Zenon DEF ScenarioObject
      <4>6. /\ UNCHANGED <<managerVars, testVars, viewVars>>
            /\ \/ /\ scenario' = [scenario EXCEPT ![current] = [over EXCEPT !.state = PostPhase(d, o)]]
                  /\ RunSupportCommand(sent)
               \/ Finish(over, sent)
        BY <3>10, Zenon DEF AdvancePastTests, d
      <4>. HIDE DEF over, sent
      <4>. QED
        BY <3>4, <3>5, <3>6, <4>2, <4>3, <4>5, <4>6, Zenon
    <3>11. ASSUME NEW late \in LateSteps(d, o), NEW next \in 1..TestCount(d), AdvanceToTest(o, late, next)
           PROVE  TypeOK' /\ StepInRange'
      <4>. DEFINE skipped == SkippedBefore(d, T, o, late, next)
                  new == [Skipping(o, skipped) EXCEPT !.state = "Running", !.step = next]
                  sent == StopLastTest(o) \o SkipMessages(skipped) \o <<StartTest(d.test_sequence[next])>>
      <4>1. skipped \subseteq Test
        BY <3>1, <3>2, SkippedType, Zenon
      <4>2. sent \in Seq(Message)
        <5>1. <<StartTest(d.test_sequence[next])>> \in Seq(Message)
          BY <3>2, MessageTypes
        <5>. QED
          BY <3>1, <4>1, <5>1, ConcatProperties, Zenon
      <4>3. new \in ScenarioObject /\ new.step \in 1..TestCount(d)
        <5>1. Skipping(o, skipped) \in ScenarioObject
          BY <3>1, SkippingType, Zenon
        <5>2. next \in Nat
          BY <3>2
        <5>. HIDE DEF skipped
        <5>. QED
          BY <5>1, <5>2, Zenon DEF ScenarioObject, Phase
      <4>4. \/ Panic("duration")
            \/ /\ scenario' = [scenario EXCEPT ![current] = new]
               /\ Handled(sent)
               /\ UNCHANGED <<managerVars, testVars, support, viewVars>>
        BY <3>11, Zenon DEF AdvanceToTest, d
      <4>5. support' = support => support' \in [Scenario -> Nat]
        BY Zenon DEF TypeOK
      <4>. HIDE DEF new, sent
      <4>. QED
        BY <3>3, <3>4, <4>2, <4>3, <4>4, <4>5, Zenon
    <3>. QED
      BY <2>2, <3>7, <3>8, <3>9, <3>10, <3>11, Zenon DEF HandleAdvanceScenario, o, d
  <2>. QED
    BY <2>1, <2>2, Zenon
\* Every step keeps the types and the step within the test sequence.
<1>TypeStep.
    ASSUME TypeOK, StepInRange, [Next]_vars
    PROVE  TypeOK' /\ StepInRange'
  <2>. USE <1>TypeStep
  <2>1. CASE Elsewhere
    <3>1. TypeOK'
      BY <2>1, <1>TypeSenders, <1>TypeHandlers, <1>TypeSelection, Zenon DEF Elsewhere
    <3>2. StepInRange'
      BY <2>1, ScenarioElsewhere DEF StepInRange, FreshScenario, Desc
    <3>. QED
      BY <3>1, <3>2, Zenon
  <2>2. CASE HandleAdvanceScenario \/ AdvanceNothing
    BY <2>2, <1>TypeAdvance, Zenon
  <2>3. CASE UNCHANGED vars
    BY <2>3, Zenon DEF vars, managerVars, testVars, viewVars, TypeOK, StepInRange, Desc
  <2>. QED
    BY <2>1, <2>2, <2>3, NextSplit, Zenon
<1>1. Init => TypeOK /\ StepInRange
  <2>1. Init => StepInRange
    BY DEF Init, StepInRange, FreshScenario
  <2>. QED
    BY <2>1, TypeInit, Zenon
<1>2. TypeOK /\ StepInRange /\ [Next]_vars => TypeOK' /\ StepInRange'
  BY <1>TypeStep, Zenon
<1>. QED
  BY <1>1, <1>2, PTL DEF Spec
-----------------------------------------------------------------------------
(***************************************************************************)
(* One scenario is selected, and what is active is selected.               *)
(***************************************************************************)
\* What an activation of a test does to what is active and to the threads.
LEMMA ActivateTestCases ==
    ASSUME NEW t \in Test, ActivateTest(t)
    PROVE  \/ UNCHANGED <<active, threads, activations>>
           \/ /\ t \notin active /\ t \in selected'
              /\ activations' = [activations EXCEPT ![t] = @ + 1]
              /\ \/ UNCHANGED <<active, threads>>
                 \/ /\ active' = active \cup {t}
                    /\ \E new : /\ new.test = t /\ new.run = activations[t] + 1
                                /\ threads' = threads \cup {new}
<1>1. CASE UNCHANGED <<active, testVars, out>>
  BY <1>1, Zenon DEF testVars
<1>. DEFINE new == [test |-> t, run |-> activations[t] + 1, result |-> 0, killed |-> FALSE,
                    pc |-> IF T[t].daemon THEN "starting" ELSE "wait"]
<1>2. CASE t \notin active /\ t \in selected' /\ threads' = threads \cup {new}
           /\ active' = active \cup {t} /\ activations' = [activations EXCEPT ![t] = @ + 1]
  <2>1. new.test = t /\ new.run = activations[t] + 1
    BY Zenon
  <2>. QED
    BY <1>2, <2>1, Zenon
<1>3. CASE t \notin active /\ t \in selected' /\ UNCHANGED <<active, threads>>
           /\ activations' = [activations EXCEPT ![t] = @ + 1]
  BY <1>3, Zenon
<1>. HIDE DEF new
<1>4. \/ UNCHANGED <<active, testVars, out>>
      \/ /\ t \notin active /\ t \in selected' /\ activations' = [activations EXCEPT ![t] = @ + 1]
         /\ threads' = threads \cup {new} /\ active' = active \cup {t}
      \/ /\ t \notin active /\ t \in selected' /\ activations' = [activations EXCEPT ![t] = @ + 1]
         /\ UNCHANGED <<active, threads>>
  BY Zenon DEF ActivateTest, new
<1>. QED
  BY <1>1, <1>2, <1>3, <1>4, Zenon

\* "There Can Only Be One" (unitmanager.rs:327), "These units must also be selected"
\* (unitmanager.rs:223): whatever is asked for, no scenario but the current one is
\* selected, the current one is loaded, and active units are selected.
THEOREM ManagerKeepsOneScenario == Spec => []OneScenario
\* What may be selected with a scenario: itself, and tests.
<1>SelectableUnits.
    ASSUME TypeOK, NEW s \in Scenario
    PROVE  Selectable(s) \cap Scenario = {s}
  BY <1>SelectableUnits, LibraryTypes, RunAssumption DEF Selectable, Unit
\* A switch of scenarios leaves the new one selected and no other.
<1>SwitchKeepsOneScenario.
    ASSUME TypeOK, OneScenario, Alive, NEW s \in Scenario \cup {None}, SwitchTo(s)
    PROVE  /\ current' = s
           /\ selected' \cap Scenario = {s} \ {None}
           /\ active \ OldUnits \subseteq selected'
           /\ s # None => s \in selected'
  <2>. USE <1>SwitchKeepsOneScenario
  <2>1. /\ current' = s
        /\ selected' = (selected \ OldUnits) \cup Selectable(s)
    BY Zenon DEF SwitchTo
  <2>2. selected \cap Scenario = {current} \ {None} /\ active \subseteq selected
    BY Zenon DEF OneScenario
  <2>3. current \in OldUnits
    BY Zenon DEF OldUnits
  <2>4. Selectable(s) \cap Scenario = {s} \ {None} /\ (s # None => s \in Selectable(s))
    <3>1. CASE s = None
      BY <3>1, RunAssumption, Zenon DEF Selectable, Unit
    <3>2. CASE s # None
      BY <3>2, <1>SelectableUnits, Zenon DEF Selectable
    <3>. QED
      BY <3>1, <3>2, Zenon
  <2>. QED
    BY <2>1, <2>2, <2>3, <2>4
\* The steps that change what is selected or active are the requests that select,
\* start or stop units; the others leave the manager's record alone.
<1>OneScenarioStep.
    ASSUME TypeOK, OneScenario, [Next]_vars
    PROVE  OneScenario'
  <2>. USE <1>OneScenarioStep
  <2>. SUFFICES ASSUME Alive' PROVE OneScenario'
    BY Zenon DEF OneScenario
  <2>1. CASE UNCHANGED <<managerVars, panicked>>
    BY <2>1, Zenon DEF OneScenario, Alive, managerVars
  <2>2. CASE UNCHANGED vars
    BY <2>1, <2>2, Zenon DEF vars
  <2>3. ASSUME NEW t \in Test, ActivateTest(t) PROVE OneScenario'
    <3>1. t \notin Scenario
      BY RunAssumption, Zenon
    <3>2. selected' \in {selected, selected \cup {t}} /\ UNCHANGED <<loaded, current, panicked>>
      BY <2>3, Zenon DEF ActivateTest
    <3>3. active' = active \/ (active' = active \cup {t} /\ t \in selected')
      BY <2>3, ActivateTestCases, Zenon
    <3>. QED
      BY <3>1, <3>2, <3>3, Zenon DEF OneScenario, Alive
  <2>4. CASE (\E r \in Requests : Request(r)) \/ Send \/ \E s \in Scenario, r \in Result : SupportExits(s, r)
    BY <2>1, <2>4, Zenon DEF Request, Send, SupportExits
  <2>5. CASE TestThreads
    BY <2>1, <2>5, Zenon DEF TestThreads, SimpleAdvances, DaemonReady, DaemonNotReady, DaemonGivesUp,
       SimpleExits, DaemonExits, ThreadStep
  <2>6. CASE HandleStartTest
    BY <2>3, <2>6, HeadTypes, MessageFields, Zenon DEF HandleStartTest, Handling
  <2>7. CASE StartNamedTest
    BY <2>3, <2>7, Zenon DEF StartNamedTest
  <2>8. CASE HandleStopTest
    BY <2>8, Zenon DEF HandleStopTest, Handled, OneScenario, Alive
  <2>9. CASE \/ HandleTestStarted \/ HandleTestFinished \/ HandleSkip \/ StartRefused \/ StartUnknown
             \/ AdvanceNothing
    BY <2>1, <2>9, Zenon DEF HandleTestStarted, HandleTestFinished, HandleSkip, StartRefused, StartUnknown,
       AdvanceNothing, Handled
  <2>10. ASSUME NEW where \in {"index", "duration", "borrow", "unwrap"}, Panic(where) PROVE FALSE
    BY <2>10, Zenon DEF Panic, Alive
  <2>11. CASE HandleScenarioFinished
    BY <2>1, <2>10, <2>11, Zenon DEF HandleScenarioFinished, Handled
  <2>12. CASE HandleSelectScenario
    <3>. DEFINE s == Head(queue).unit
    <3>1. CASE s \in loaded \ selected /\ SwitchTo(s) /\ active' = active \ OldUnits
      <4>1. s \in Scenario /\ s # None /\ Alive /\ UNCHANGED loaded
        BY <2>12, <3>1, RunAssumption DEF TypeOK, Unit, HandleSelectScenario, Handling
      <4>. QED
        BY <3>1, <4>1, <1>SwitchKeepsOneScenario, Zenon DEF OneScenario
    <3>2. CASE UNCHANGED <<current, selected, active>> /\ Handled(<<>>)
      BY <2>12, <3>2, Zenon DEF HandleSelectScenario, OneScenario, Handled, Alive
    <3>. QED
      BY <2>12, <3>1, <3>2, Zenon DEF HandleSelectScenario
  <2>13. CASE HandleRescan
    <3>. DEFINE s == Head(queue).unit
    <3>1. Alive /\ loaded' \subseteq Scenario /\ loaded' \in {loaded \cup {s}, loaded \ {s}}
      <4>1. s \in Scenario
        BY <2>13, HeadTypes, MessageFields, Zenon DEF HandleRescan, Handling
      <4>. QED
        BY <2>13, <4>1, Zenon DEF HandleRescan, Handling, TypeOK
    <3>2. ASSUME NEW next \in loaded' \cup {None}, next = None <=> loaded' = {}, SwitchTo(next),
                 active' = active \ OldUnits
          PROVE  OneScenario'
      <4>1. next \in Scenario \cup {None} /\ None \notin Scenario
        BY <3>1, RunAssumption DEF Unit
      <4>. QED
        BY <3>1, <3>2, <4>1, <1>SwitchKeepsOneScenario, Zenon DEF OneScenario
    <3>3. CASE current \notin {s, None} /\ UNCHANGED <<current, selected, active>>
      BY <3>1, <3>3, Zenon DEF OneScenario
    <3>. QED
      BY <2>13, <3>2, <3>3, Zenon DEF HandleRescan
  <2>14. CASE StartSelected
    BY <2>14, Zenon DEF StartSelected, StartAccepted, Handling, ActivateScenario, Handled, OneScenario, Alive
  <2>15. CASE StartOther
    <3>1. Named \in Scenario /\ Named # None /\ Alive /\ UNCHANGED loaded /\ Named \in loaded
      BY <2>15, RunAssumption, Zenon DEF StartOther, StartAccepted, Handling, TypeOK, Unit
    <3>. QED
      BY <2>15, <3>1, <1>SwitchKeepsOneScenario, Zenon DEF StartOther, OneScenario
  <2>16. CASE HandleAdvanceScenario
    BY <2>1, <2>10, <2>16, Zenon DEF HandleAdvanceScenario, AdvanceToExecStart, AdvanceWithoutTests,
       AdvanceToEnd, AdvancePastTests, AdvanceToTest, RunSupportCommand, Finish, Handled
  <2>. QED
    BY <2>2, <2>4, <2>5, <2>6, <2>7, <2>8, <2>9, <2>11, <2>12, <2>13, <2>14, <2>15, <2>16, Zenon
       DEF Next, MainThread
<1>1. Init => OneScenario
  <2>1. ASSUME Init PROVE TypeOK /\ current \in Scenario
    BY <2>1, TypeInit, Zenon DEF Init
  <2>2. ASSUME Init PROVE selected \cap Scenario = {current}
    BY <2>1, <2>2, <1>SelectableUnits, Zenon DEF Init
  <2>3. ASSUME Init PROVE current \in loaded /\ active = {}
    BY <2>3, Zenon DEF Init
  <2>4. None \notin Scenario
    BY RunAssumption DEF Unit
  <2>. QED
    BY <2>1, <2>2, <2>3, <2>4, Zenon DEF OneScenario
<1>2. TypeOK /\ OneScenario /\ [Next]_vars => OneScenario'
  BY <1>OneScenarioStep, Zenon
<1>. QED
  BY <1>1, <1>2, TypeCorrect, PTL DEF Spec
-----------------------------------------------------------------------------
(***************************************************************************)
(* No program runs that the manager cannot reach.                          *)
(***************************************************************************)
\* A thread that needs no keeping: it has seen its program exit, or its program
\* has been told to.
Done(th) == th.pc = "advance" \/ th.killed

\* The thread of the last activation of a test that is active.
Kept(th) == th.test \in active /\ th.run = activations[th.test]

\* Every test program that runs is that of the last activation of an active test, or
\* has been told to terminate: activate() is guarded by the active set, and deselecting
\* or deleting a scenario deactivates its tests (unitmanager.rs:338-341, 524-526).
THEOREM ProgramsStayReachable == Spec => []NoOrphans
\* terminate() reaches every kept program of the tests it is called for.
<1>TerminatedOrphans.
    ASSUME TypeOK, NoOrphans, NEW S,
           threads' = Terminated(S \cap active), UNCHANGED activations,
           active \ S \subseteq active'
    PROVE  NoOrphans'
  <2>. USE <1>TerminatedOrphans
  <2>. SUFFICES ASSUME NEW th \in threads' PROVE Done(th) \/ Kept(th)'
    BY Zenon DEF NoOrphans, Done, Kept
  <2>1. PICK old \in threads :
           th = IF old.test \in S \cap active /\ old.run = activations[old.test]
                THEN [old EXCEPT !.killed = TRUE] ELSE old
    BY Zenon DEF Terminated
  <2>2. old \in Thread
    BY Zenon DEF TypeOK
  <2>3. CASE old.test \in S \cap active /\ old.run = activations[old.test]
    BY <2>1, <2>2, <2>3, Zenon DEF Done, Thread
  <2>4. CASE ~(old.test \in S \cap active /\ old.run = activations[old.test])
    <3>1. th = old /\ (Done(old) \/ Kept(old))
      BY <2>1, <2>4, Zenon DEF NoOrphans, Done, Kept
    <3>. QED
      BY <2>4, <3>1, Zenon DEF Kept
  <2>. QED
    BY <2>3, <2>4, Zenon
\* A thread's own step leaves the other threads alone.
<1>ThreadOrphans.
    ASSUME NoOrphans, NEW th \in threads, NEW next, NEW sent, ThreadStep(th, next, sent),
           \A new \in next : Done(new) \/ (Done(th) \/ Kept(th) => Kept(new))
    PROVE  NoOrphans'
  <2>. USE <1>ThreadOrphans
  <2>1. threads' = (threads \ {th}) \cup next /\ UNCHANGED <<active, activations>>
    BY Zenon DEF ThreadStep, managerVars
  <2>2. \A old \in threads : Done(old) \/ Kept(old)
    BY Zenon DEF NoOrphans, Done, Kept
  <2>3. \A new \in threads' : Done(new) \/ Kept(new)
    BY <2>1, <2>2, Zenon
  <2>. QED
    BY <2>1, <2>3, Zenon DEF NoOrphans, Done, Kept
\* The steps that end a program's record, or start a program, keep track of it.
<1>OrphansStep.
    ASSUME TypeOK, NoOrphans, [Next]_vars
    PROVE  NoOrphans'
  <2>. USE <1>OrphansStep
  <2>1. CASE UNCHANGED <<active, threads, activations>>
    BY <2>1, Zenon DEF NoOrphans
  <2>2. CASE UNCHANGED vars
    BY <2>1, <2>2, Zenon DEF vars, managerVars, testVars
  <2>3. ASSUME NEW t \in Test, ActivateTest(t) PROVE NoOrphans'
    <3>1. CASE t \notin active /\ activations' = [activations EXCEPT ![t] = @ + 1]
               /\ UNCHANGED <<active, threads>>
      BY <3>1 DEF NoOrphans, TypeOK
    <3>2. ASSUME NEW new, new.test = t, new.run = activations[t] + 1,
                 threads' = threads \cup {new}, active' = active \cup {t}, t \notin active,
                 activations' = [activations EXCEPT ![t] = @ + 1]
          PROVE  NoOrphans'
      <4>1. activations'[t] = activations[t] + 1
        BY <3>2, Zenon DEF TypeOK
      <4>2. \A old \in threads : Done(old) \/ Kept(old)'
        BY <3>2 DEF NoOrphans, Done, Kept, TypeOK
      <4>. QED
        BY <3>2, <4>1, <4>2, Zenon DEF NoOrphans, Done, Kept
    <3>. QED
      BY <2>1, <2>3, <3>1, <3>2, ActivateTestCases, Zenon
  <2>4. CASE (\E r \in Requests : Request(r)) \/ Send \/ \E s \in Scenario, r \in Result : SupportExits(s, r)
    BY <2>1, <2>4, Zenon DEF Request, Send, SupportExits, managerVars, testVars
  <2>5. CASE TestThreads
    <3>. SUFFICES ASSUME NEW th \in threads, NEW r \in Result,
                         \/ SimpleExits(th, r) \/ SimpleAdvances(th) \/ DaemonReady(th)
                         \/ DaemonNotReady(th) \/ DaemonGivesUp(th) \/ DaemonExits(th, r)
                  PROVE  NoOrphans'
      BY <2>5, Zenon DEF TestThreads, Result
    <3>1. th \in Thread
      BY Zenon DEF TypeOK
    <3>2. CASE SimpleExits(th, r)
      <4>. DEFINE new == [th EXCEPT !.pc = "advance", !.result = r]
      <4>1. Done(new)
        BY <3>1, Zenon DEF Done, Thread
      <4>. QED
        BY <3>2, <4>1, <1>ThreadOrphans DEF SimpleExits
    <3>3. CASE SimpleAdvances(th)
      BY <3>3, <1>ThreadOrphans DEF SimpleAdvances
    <3>4. CASE DaemonReady(th)
      <4>. DEFINE new == [th EXCEPT !.pc = "ready"]
      <4>1. new.killed = th.killed /\ new.test = th.test /\ new.run = th.run
        BY <3>1, Zenon DEF Thread
      <4>2. Done(th) => Done(new)
        BY <3>4, <4>1, Zenon DEF Done, DaemonReady
      <4>3. Kept(th) => Kept(new)
        BY <4>1, Zenon DEF Kept
      <4>4. \A n \in {new} : Done(n) \/ (Done(th) \/ Kept(th) => Kept(n))
        BY <4>2, <4>3, Zenon
      <4>. QED
        BY <3>4, <4>4, <1>ThreadOrphans DEF DaemonReady
    <3>5. CASE DaemonNotReady(th)
      <4>. DEFINE new == [th EXCEPT !.pc = "failing", !.killed = TRUE]
      <4>1. Done(new)
        BY <3>1, Zenon DEF Done, Thread
      <4>. QED
        BY <3>5, <4>1, <1>ThreadOrphans DEF DaemonNotReady
    <3>6. CASE DaemonGivesUp(th)
      BY <3>6, <1>ThreadOrphans DEF DaemonGivesUp
    <3>7. CASE DaemonExits(th, r)
      BY <3>7, <1>ThreadOrphans DEF DaemonExits
    <3>. QED
      BY <3>2, <3>3, <3>4, <3>5, <3>6, <3>7, Zenon
  <2>6. CASE HandleStartTest
    BY <2>3, <2>6, HeadTypes, MessageFields, Zenon DEF HandleStartTest, Handling
  <2>7. CASE StartNamedTest
    BY <2>3, <2>7, Zenon DEF StartNamedTest
  <2>8. CASE HandleStopTest
    <3>. DEFINE u == Head(queue).unit
    <3>1. /\ UNCHANGED activations /\ active' = active \ {u}
          /\ threads' = IF u \in active THEN Terminated({u}) ELSE threads
      BY <2>8, Zenon DEF HandleStopTest
    <3>2. CASE u \in active
      <4>1. {u} \cap active = {u}
        BY <3>2, Zenon
      <4>. QED
        BY <3>1, <3>2, <4>1, <1>TerminatedOrphans, Zenon
    <3>3. CASE u \notin active
      BY <2>1, <3>1, <3>3, Zenon
    <3>. QED
      BY <3>2, <3>3, Zenon
  <2>9. ASSUME NEW where, Panic(where) PROVE NoOrphans'
    BY <2>1, <2>9, Zenon DEF Panic, managerVars, testVars
  <2>10. CASE \/ HandleTestStarted \/ HandleTestFinished \/ HandleSkip \/ StartRefused
              \/ StartUnknown \/ StartSelected \/ AdvanceNothing \/ HandleScenarioFinished
    <3>1. CASE StartSelected
      BY <3>1, Zenon DEF StartSelected, testVars, NoOrphans
    <3>2. CASE HandleScenarioFinished
      BY <2>1, <2>9, <3>2, Zenon DEF HandleScenarioFinished, managerVars, testVars
    <3>. QED
      BY <2>1, <2>10, <3>1, <3>2, Zenon DEF HandleTestStarted, HandleTestFinished, HandleSkip,
         StartRefused, StartUnknown, AdvanceNothing, managerVars, testVars
  <2>11. CASE HandleSelectScenario \/ HandleRescan \/ StartOther
    <3>1. ASSUME NEW s, SwitchTo(s), active \ OldUnits \subseteq active' PROVE NoOrphans'
      BY <3>1, <1>TerminatedOrphans, Zenon DEF SwitchTo
    <3>2. CASE UNCHANGED <<active, testVars>>
      BY <2>1, <3>2, Zenon DEF testVars
    <3>. QED
      BY <2>11, <3>1, <3>2, Zenon DEF HandleSelectScenario, HandleRescan, StartOther
  <2>12. CASE HandleAdvanceScenario
    BY <2>1, <2>9, <2>12, Zenon DEF HandleAdvanceScenario, AdvanceToExecStart, AdvanceWithoutTests,
       AdvanceToEnd, AdvancePastTests, AdvanceToTest, RunSupportCommand, Finish, managerVars, testVars
  <2>. QED
    BY <2>2, <2>4, <2>5, <2>6, <2>7, <2>8, <2>10, <2>11, <2>12, Zenon DEF Next, MainThread
<1>1. Init => NoOrphans
  BY Zenon DEF Init, NoOrphans
<1>2. TypeOK /\ NoOrphans /\ [Next]_vars => NoOrphans'
  BY <1>OrphansStep, Zenon
<1>. QED
  BY <1>1, <1>2, TypeCorrect, PTL DEF Spec

-----------------------------------------------------------------------------
(***************************************************************************)
(* The verdicts of a run: they stay, and a run without failures has passed *)
(* its tests.                                                              *)
(*                                                                         *)
(* d is a scenario's description, o its object, TT the descriptions of the *)
(* tests.  The lemmas are about the operators of ScenarioOrder alone; only *)
(* the last ones speak of the specification.                               *)
(***************************************************************************)
\* The sequence of tests, as the dependency resolver gives it.
Ordered(d, TT) ==
    /\ TestCount(d) \in Nat
    /\ \A k \in 1..TestCount(d) : d.test_sequence[k] \in Test
    /\ IsTestOrder(d, TT)

PendingFrom(d, o, first) ==
    \A k \in first..TestCount(d) : o.test_states[d.test_sequence[k]] = "Pending"

PassedUpTo(d, o, last) ==
    \A k \in 1..last : o.test_states[d.test_sequence[k]] = "Pass"

\* A failed ExecStart was counted.
CommandCounted(o) == o.exec_start_state = "Fail" => o.failures # 0

\* Objects with the same failed tests, ExecStart verdict and count of failures.
SameFailures(o, new) ==
    /\ new.failures = o.failures /\ new.exec_start_state = o.exec_start_state
    /\ \A t \in Test : new.test_states[t] = "Fail" <=> o.test_states[t] = "Fail"

\* Before its first test a scenario has no verdicts; the test at the step of a running
\* one and those after it have none, and without failures those before it have passed;
\* a run that is over without failures has passed all, unless it was cut short.
ObjectInv(d, o) ==
    /\ o.state \in {"Idle", "PreStart"} =>
          o.step = 0 /\ o.exec_start_state = "Pending" /\ PendingFrom(d, o, 1)
    /\ o.state = "Running" =>
          /\ o.step \in 1..TestCount(d)
          /\ PendingFrom(d, o, o.step)
          /\ o.failures = 0 => PassedUpTo(d, o, o.step - 1)
    /\ CommandCounted(o)
    /\ /\ o.state \in {"PostSuccess", "PostFailure", "ScenarioFinished"}
       /\ o.failures = 0 /\ ~o.timed_out /\ d.stop_after_failure_count # 0
       => PassedUpTo(d, o, TestCount(d))

\* What holds after a result was recorded, with the last step left behind.
RecordedInv(d, o) ==
    /\ CommandCounted(o)
    /\ LeavesForTests(d, o) => /\ PendingFrom(d, o, LastStepLeft(o) + 1)
                               /\ o.failures = 0 => PassedUpTo(d, o, LastStepLeft(o))

\* Verdicts that were given are kept.
KeepsVerdicts(o, new) ==
    \A t \in Test : o.test_states[t] = "Pending" \/ new.test_states[t] = o.test_states[t]
-----------------------------------------------------------------------------
(***************************************************************************)
(* Recording a result.                                                     *)
(***************************************************************************)
\* The fields of the object after a result was recorded.
LEMMA RecordFields ==
    ASSUME NEW d, NEW o \in ScenarioObject, NEW r \in Result
    PROVE  LET new == RecordResult(d, o, r) IN
           /\ new \in ScenarioObject
           /\ new.state = o.state /\ new.step = o.step /\ new.timed_out = o.timed_out
           /\ new.failures = IF o.state \in {"Running", "PreStart"} /\ r # 0
                             THEN o.failures + 1 ELSE o.failures
           /\ new.exec_start_state = IF o.state = "PreStart" THEN Verdict(r)
                                     ELSE o.exec_start_state
           /\ \A t \in Test : new.test_states[t] =
                 IF o.state = "Running" /\ t = d.test_sequence[o.step] THEN Verdict(r)
                 ELSE o.test_states[t]
           /\ o.state \notin {"Running", "PreStart"} => new = o
<1>1. RecordResult(d, o, r) \in ScenarioObject
  BY RecordType, Zenon
<1>2. o.test_states \in [Test -> TestState]
  BY Zenon DEF ScenarioObject
<1>3. o.state \notin {"Running", "PreStart"} => RecordResult(d, o, r) = o
  BY Zenon DEF RecordResult, ScenarioObject
<1>. QED
  BY <1>1, <1>2, <1>3, Zenon DEF RecordResult, ScenarioObject

\* A result is recorded where there was no verdict, and counted if it is a failure.
LEMMA RecordKeeps ==
    ASSUME NEW d, NEW TT, Ordered(d, TT), NEW o \in ScenarioObject, NEW r \in Result,
           ObjectInv(d, o)
    PROVE  /\ RecordedInv(d, RecordResult(d, o, r))
           /\ KeepsVerdicts(o, RecordResult(d, o, r))
<1>. DEFINE new == RecordResult(d, o, r)
<1>1. /\ new.state = o.state /\ new.step = o.step
      /\ new.failures = IF o.state \in {"Running", "PreStart"} /\ r # 0
                        THEN o.failures + 1 ELSE o.failures
      /\ new.exec_start_state = IF o.state = "PreStart" THEN Verdict(r)
                                ELSE o.exec_start_state
      /\ \A t \in Test : new.test_states[t] =
            IF o.state = "Running" /\ t = d.test_sequence[o.step] THEN Verdict(r)
            ELSE o.test_states[t]
      /\ o.state \notin {"Running", "PreStart"} => new = o
  BY RecordFields
<1>2. o.failures \in Nat /\ o.step \in Nat /\ TestCount(d) \in Nat
  BY Zenon DEF ScenarioObject, Ordered
<1>3. TestsOf(d) \subseteq Test
  BY Zenon DEF TestsOf, Ordered
<1>. HIDE DEF new
<1>4. CASE o.state = "Running"
  <2>. DEFINE t == d.test_sequence[o.step]
  <2>1. /\ o.step \in 1..TestCount(d) /\ t \in Test /\ t \in TestsOf(d)
        /\ o.test_states[t] = "Pending"
    BY <1>2, <1>4 DEF ObjectInv, PendingFrom, Ordered, TestsOf
  <2>2. KeepsVerdicts(o, new)
    BY <1>1, <2>1, Zenon DEF KeepsVerdicts
  <2>3. \A k \in 1..TestCount(d) : k # o.step =>
           new.test_states[d.test_sequence[k]] = o.test_states[d.test_sequence[k]]
    BY <1>1, <2>1, Zenon DEF Ordered, IsTestOrder
  <2>4. PendingFrom(d, new, o.step + 1)
    BY <1>2, <1>4, <2>1, <2>3 DEF ObjectInv, PendingFrom
  <2>5. new.failures = 0 => PassedUpTo(d, new, o.step)
    <3>1. SUFFICES ASSUME new.failures = 0, NEW k \in 1..o.step
                   PROVE  new.test_states[d.test_sequence[k]] = "Pass"
      BY Zenon DEF PassedUpTo
    <3>2. r = 0 /\ o.failures = 0
      BY <1>1, <1>2, <1>4, <3>1
    <3>3. CASE k = o.step
      BY <1>1, <1>4, <2>1, <3>2, <3>3, Zenon DEF Verdict
    <3>4. CASE k # o.step
      BY <1>2, <1>4, <2>1, <2>3, <3>2, <3>4, SMTT(30) DEF ObjectInv, PassedUpTo
    <3>. QED
      BY <3>3, <3>4, Zenon
  <2>6. CommandCounted(new)
    BY <1>1, <1>2, <1>4, SMTT(30) DEF ObjectInv, CommandCounted
  <2>. QED
    BY <1>1, <1>4, <2>2, <2>4, <2>5, <2>6, Zenon DEF RecordedInv, LastStepLeft, new
<1>5. CASE o.state = "PreStart"
  <2>1. \A t \in Test : new.test_states[t] = o.test_states[t]
    BY <1>1, <1>5, Zenon
  <2>3. CommandCounted(new)
    BY <1>1, <1>2, <1>5 DEF CommandCounted, Verdict
  <2>4. PendingFrom(d, new, 1)
    BY <1>2, <1>5, <2>1, Zenon DEF ObjectInv, PendingFrom, Ordered
  <2>5. PassedUpTo(d, new, 0)
    BY SMTT(30) DEF PassedUpTo
  <2>. QED
    BY <1>1, <1>5, <2>1, <2>3, <2>4, <2>5 DEF RecordedInv, LastStepLeft, KeepsVerdicts, new
<1>6. CASE o.state \notin {"Running", "PreStart"}
  <2>1. new = o
    BY <1>1, <1>6, Zenon
  <2>2. LeavesForTests(d, o) => PendingFrom(d, o, 1) /\ LastStepLeft(o) = 0
    BY <1>6, Zenon DEF LeavesForTests, LastStepLeft, ObjectInv
  <2>3. PassedUpTo(d, o, 0)
    BY DEF PassedUpTo
  <2>. QED
    BY <2>1, <2>2, <2>3 DEF RecordedInv, KeepsVerdicts, ObjectInv, new
<1>. QED
  BY <1>4, <1>5, <1>6, Zenon
-----------------------------------------------------------------------------
(***************************************************************************)
(* Choosing the next step.                                                 *)
(***************************************************************************)
\* The fields of the object after tests were marked as skipped.
LEMMA SkippingFields ==
    ASSUME NEW o \in ScenarioObject, NEW S
    PROVE  LET new == Skipping(o, S) IN
           /\ new \in ScenarioObject
           /\ new.state = o.state /\ new.step = o.step /\ new.timed_out = o.timed_out
           /\ new.failures = o.failures /\ new.exec_start_state = o.exec_start_state
           /\ \A t \in Test : new.test_states[t] = IF t \in S THEN "Skip" ELSE o.test_states[t]
<1>1. Skipping(o, S) \in ScenarioObject
  BY SkippingType, Zenon
<1>. QED
  BY <1>1, Zenon DEF Skipping, ScenarioObject

\* Only tests without a verdict are skipped.
LEMMA SkippedPending ==
    ASSUME NEW d, NEW TT, NEW o, NEW late, NEW next,
           NEW t \in SkippedBefore(d, TT, o, late, next)
    PROVE  o.test_states[t] = "Pending"
BY Zenon DEF SkippedBefore, MayRun

\* The phases and the object when the tests are over (AdvancePastTests).
OverPhase == {"PostSuccess", "PostFailure", "ScenarioFinished"}

Over(d, TT, o, late, phase) ==
    [[Skipping(o, SkippedBefore(d, TT, o, late, TestCount(d) + 1)) EXCEPT
        !.timed_out = @ \/ \E k \in StepsTried(d, o) : k >= late] EXCEPT
           !.state = phase]

-----------------------------------------------------------------------------
(***************************************************************************)
(* The specification.                                                      *)
(***************************************************************************)
VerdictInv == \A s \in Scenario : ObjectInv(Desc(s), scenario[s])

\* How a step may change a scenario object.
GoesForward(o, new) ==
    /\ KeepsVerdicts(o, new)
    /\ new.step >= o.step
    /\ o.state = "ScenarioFinished" => new = o

\* The failures of a scenario stay, or are those after a result was recorded.
GainsFailure(s) ==
    \/ scenario'[s] = scenario[s]
    \/ \E r \in Result : SameFailures(RecordResult(Desc(s), scenario[s], r), scenario'[s])

\* The libraries hold test orders.
LEMMA LibraryOrdered ==
    ASSUME TypeOK, NEW s \in Scenario
    PROVE  /\ Ordered(Desc(s), T)
           /\ Desc(s).stop_after_failure_count \in Nat \cup {None}
<1>1. library \in Libraries
  BY Zenon DEF TypeOK
<1>2. IsTestOrder(Desc(s), T)
  BY <1>1, RunAssumption DEF Desc, T
<1>. QED
  BY <1>2, LibraryTypes, Zenon DEF Ordered, ScenarioDescription

\* A scenario that was just loaded or activated has no verdicts.
LEMMA FreshInv ==
    ASSUME NEW d, TestCount(d) \in Nat, \A k \in 1..TestCount(d) : d.test_sequence[k] \in Test
    PROVE  ObjectInv(d, FreshScenario)
<1>1. \A t \in Test : FreshScenario.test_states[t] = "Pending"
  BY Zenon DEF FreshScenario
<1>5. PendingFrom(d, FreshScenario, 1)
  BY <1>1, Zenon DEF PendingFrom
<1>. QED
  BY <1>5, Zenon DEF ObjectInv, CommandCounted, FreshScenario

\* Every step leaves a scenario, resets it, or moves it forward as the invariant allows.
LEMMA VerdictStep ==
    ASSUME TypeOK, StepInRange, VerdictInv, [Next]_vars
    PROVE  /\ VerdictInv'
           /\ library' = library
           /\ \A s \in Scenario : \/ scenario'[s] = FreshScenario
                                  \/ /\ GoesForward(scenario[s], scenario'[s])
                                     /\ GainsFailure(s)
\* When all tests before step k have passed, those that test k requires have.
<1>EarlierPassed.
    ASSUME NEW d, NEW TT, Ordered(d, TT), NEW o, NEW k \in 1..TestCount(d),
           PassedUpTo(d, o, k - 1)
    PROVE  AllDependenciesSucceeded(d, TT, o, d.test_sequence[k])
  <2>. USE <1>EarlierPassed
  <2>. DEFINE Earlier == {d.test_sequence[j] : j \in 1..(k - 1)}
  <2>1. TestCount(d) \in Nat /\ k \in Nat
    BY DEF Ordered
  <2>2. ASSUME NEW i \in 1..k
        PROVE  InspectedParents(d, TT, d.test_sequence[i]) \subseteq Earlier
    <3>1. SUFFICES ASSUME NEW n \in 1..Len(TT[d.test_sequence[i]].requires),
                          \A j \in 1..n : TT[d.test_sequence[i]].requires[j] \notin d.assumptions
                   PROVE  TT[d.test_sequence[i]].requires[n] \in Earlier
      BY Zenon DEF InspectedParents
    <3>2. i \in 1..TestCount(d)
      BY <2>1
    <3>3. n \in 1..n
      OBVIOUS
    <3>4. PICK j \in 1..(i - 1) : d.test_sequence[j] = TT[d.test_sequence[i]].requires[n]
      BY <3>1, <3>2, <3>3, Zenon DEF Ordered, IsTestOrder
    <3>5. j \in 1..(k - 1)
      BY <2>1, <2>2
    <3>. QED
      BY <3>4, <3>5, Zenon
  <2>3. Earlier \in SUBSET Test
    BY <2>1 DEF Ordered
  <2>4. InspectedParents(d, TT, d.test_sequence[k]) \subseteq Earlier
    BY <2>1, <2>2
  <2>5. ASSUME NEW u \in Earlier
        PROVE  o.test_states[u] = "Pass" /\ InspectedParents(d, TT, u) \subseteq Earlier
    BY <2>1, <2>2 DEF PassedUpTo
  <2>. QED
    BY <2>3, <2>4, <2>5, Zenon DEF AllDependenciesSucceeded
\* Without failures the step after the last one is okay, unless it is late.
<1>FollowingStepOkay.
    ASSUME NEW d, NEW TT, Ordered(d, TT), NEW o \in ScenarioObject, NEW late \in Int,
           RecordedInv(d, o), LeavesForTests(d, o), o.failures = 0,
           LastStepLeft(o) + 1 \in StepsTried(d, o), LastStepLeft(o) + 1 < late
    PROVE  LastStepLeft(o) + 1 \in StepsOkay(d, TT, o, late)
  <2>. USE <1>FollowingStepOkay
  <2>. DEFINE k == LastStepLeft(o) + 1
  <2>1. LastStepLeft(o) \in Nat /\ TestCount(d) \in Nat
    BY Zenon DEF LastStepLeft, ScenarioObject, Ordered
  <2>2. k \in 1..TestCount(d)
    BY <2>1 DEF StepsTried
  <2>3. o.exec_start_state # "Fail"
    BY Zenon DEF RecordedInv, CommandCounted
  <2>4. MayRun(d, o, k, late)
    BY <2>1, <2>2, <2>3 DEF MayRun, RecordedInv, PendingFrom
  <2>5. PassedUpTo(d, o, k - 1)
    BY <2>1 DEF RecordedInv
  <2>6. AllDependenciesSucceeded(d, TT, o, d.test_sequence[k])
    BY <2>2, <2>5, <1>EarlierPassed, Zenon
  <2>. QED
    BY <2>4, <2>6, Zenon DEF StepsOkay, StepOkay
\* Going on to a test: those passed over had no verdict, and without failures none is
\* passed over.
<1>ToTestKeeps.
    ASSUME NEW d, NEW TT, Ordered(d, TT), NEW o \in ScenarioObject,
           NEW late \in Int, NEW next \in StepsOkay(d, TT, o, late),
           \A k \in StepsOkay(d, TT, o, late) : next <= k,
           RecordedInv(d, o), LeavesForTests(d, o)
    PROVE  LET new == [Skipping(o, SkippedBefore(d, TT, o, late, next)) EXCEPT
                         !.state = "Running", !.step = next]
           IN  /\ ObjectInv(d, new)
               /\ KeepsVerdicts(o, new) /\ SameFailures(o, new)
               /\ new.step > LastStepLeft(o)
  <2>. USE <1>ToTestKeeps
  <2>. DEFINE S == SkippedBefore(d, TT, o, late, next)
              base == Skipping(o, S)
              new == [base EXCEPT !.state = "Running", !.step = next]
  <2>1. /\ base \in ScenarioObject
        /\ base.failures = o.failures /\ base.exec_start_state = o.exec_start_state
        /\ \A t \in Test : base.test_states[t] = IF t \in S THEN "Skip" ELSE o.test_states[t]
    BY SkippingFields
  <2>2. LastStepLeft(o) \in Nat /\ TestCount(d) \in Nat
    BY Zenon DEF LastStepLeft, ScenarioObject, Ordered
  <2>3. next \in 1..TestCount(d) /\ next \in Nat /\ next > LastStepLeft(o) /\ next < late
    BY <2>2 DEF StepsOkay, StepsTried, StepOkay, MayRun
  <2>. HIDE DEF base
  <2>4. /\ new.state = "Running" /\ new.step = next
        /\ new.failures = o.failures /\ new.exec_start_state = o.exec_start_state
        /\ \A t \in Test : new.test_states[t] = IF t \in S THEN "Skip" ELSE o.test_states[t]
    BY <2>1, Zenon DEF ScenarioObject
  <2>. HIDE DEF new
  <2>5. \A t \in S : o.test_states[t] = "Pending"
    BY SkippedPending
  <2>6. TestsOf(d) \subseteq Test
    BY Zenon DEF TestsOf, Ordered
  <2>7. SameFailures(o, new)
    BY <2>4, <2>5, Zenon DEF SameFailures
  <2>8. CommandCounted(new)
    BY <2>4, Zenon DEF RecordedInv, CommandCounted
  <2>9. KeepsVerdicts(o, new)
    BY <2>4, <2>5, Zenon DEF KeepsVerdicts
  <2>10. PendingFrom(d, new, next)
    <3>1. SUFFICES ASSUME NEW k \in next..TestCount(d)
                   PROVE  new.test_states[d.test_sequence[k]] = "Pending"
      BY Zenon DEF PendingFrom
    <3>2. k \in 1..TestCount(d) /\ k \in (LastStepLeft(o) + 1)..TestCount(d)
          /\ d.test_sequence[k] \in Test
      BY <2>2, <2>3, SMTT(30) DEF Ordered
    <3>3. d.test_sequence[k] \notin S
      <4>1. SUFFICES ASSUME NEW j \in StepsTried(d, o), j < next,
                            d.test_sequence[j] = d.test_sequence[k]
                     PROVE  FALSE
        BY Zenon DEF SkippedBefore
      <4>2. j \in 1..TestCount(d)
        BY <2>2 DEF StepsTried
      <4>3. j = k
        BY <3>2, <4>1, <4>2, Zenon DEF Ordered, IsTestOrder
      <4>. QED
        BY <2>3, <4>1, <4>3
    <3>. QED
      BY <2>4, <3>2, <3>3, Zenon DEF RecordedInv, PendingFrom
  <2>11. ASSUME o.failures = 0
         PROVE  PassedUpTo(d, new, next - 1)
    <3>1. next = LastStepLeft(o) + 1
      <4>1. LastStepLeft(o) + 1 \in StepsTried(d, o)
        <5>1. next \in StepsTried(d, o)
          BY Zenon DEF StepsOkay
        <5>2. FailuresReached(d, o) => LastStepLeft(o) + 1 = 1
          BY <2>2, <2>3, <5>1 DEF StepsTried
        <5>. QED
          BY <2>2, <2>3, <5>2 DEF StepsTried
      <4>2. LastStepLeft(o) + 1 \in StepsOkay(d, TT, o, late)
        BY <2>2, <2>3, <2>11, <4>1, <1>FollowingStepOkay
      <4>3. next <= LastStepLeft(o) + 1
        BY <4>2, Zenon
      <4>. QED
        BY <2>2, <2>3, <4>3
    <3>2. SUFFICES ASSUME NEW k \in 1..LastStepLeft(o)
                   PROVE  new.test_states[d.test_sequence[k]] = "Pass"
      BY <2>2, <3>1, SMTT(30) DEF PassedUpTo
    <3>3. o.test_states[d.test_sequence[k]] = "Pass" /\ d.test_sequence[k] \in Test
      BY <2>2, <2>3, <2>11 DEF RecordedInv, PassedUpTo, Ordered
    <3>. QED
      BY <2>4, <2>5, <3>3, Zenon
  <2>12. ObjectInv(d, new)
    BY <2>3, <2>4, <2>8, <2>10, <2>11, Zenon DEF ObjectInv
  <2>. QED
    BY <2>3, <2>4, <2>7, <2>9, <2>12, Zenon DEF new, base
\* No test is left: without failures all have passed, or the Timeout is over, or
\* StopAfterFailureCount is 0.
<1>PastTestsKeeps.
    ASSUME NEW d, NEW TT, Ordered(d, TT), NEW o \in ScenarioObject, NEW late \in Int,
           StepsOkay(d, TT, o, late) = {}, RecordedInv(d, o), LeavesForTests(d, o),
           d.stop_after_failure_count \in Nat \cup {None},
           NEW phase \in OverPhase
    PROVE  /\ ObjectInv(d, Over(d, TT, o, late, phase))
           /\ KeepsVerdicts(o, Over(d, TT, o, late, phase))
           /\ SameFailures(o, Over(d, TT, o, late, phase))
           /\ Over(d, TT, o, late, phase).step = o.step
  <2>. USE <1>PastTestsKeeps
  <2>. DEFINE S == SkippedBefore(d, TT, o, late, TestCount(d) + 1)
              base == Skipping(o, S)
              over == [base EXCEPT !.timed_out = @ \/ \E k \in StepsTried(d, o) : k >= late]
              new == Over(d, TT, o, late, phase)
  <2>0. new = [over EXCEPT !.state = phase]
    BY Zenon DEF Over
  <2>1. /\ base \in ScenarioObject
        /\ base.step = o.step
        /\ base.failures = o.failures /\ base.exec_start_state = o.exec_start_state
        /\ \A t \in Test : base.test_states[t] = IF t \in S THEN "Skip" ELSE o.test_states[t]
    BY SkippingFields
  <2>2. LastStepLeft(o) \in Nat /\ TestCount(d) \in Nat
    BY Zenon DEF LastStepLeft, ScenarioObject, Ordered
  <2>. HIDE DEF base
  <2>3. /\ new.state = phase /\ new.step = o.step
        /\ new.failures = o.failures /\ new.exec_start_state = o.exec_start_state
        /\ new.test_states = base.test_states
        /\ (\E k \in StepsTried(d, o) : k >= late) => new.timed_out
    BY <2>0, <2>1, Zenon DEF ScenarioObject
  <2>. HIDE DEF new
  <2>4. \A t \in Test : new.test_states[t] = IF t \in S THEN "Skip" ELSE o.test_states[t]
    BY <2>1, <2>3, Zenon
  <2>5. \A t \in S : o.test_states[t] = "Pending"
    BY SkippedPending
  <2>6. TestsOf(d) \subseteq Test
    BY Zenon DEF TestsOf, Ordered
  <2>7. SameFailures(o, new)
    BY <2>3, <2>4, <2>5, Zenon DEF SameFailures
  <2>8. CommandCounted(new)
    BY <2>3, Zenon DEF RecordedInv, CommandCounted
  <2>9. KeepsVerdicts(o, new)
    BY <2>4, <2>5, Zenon DEF KeepsVerdicts
  <2>10. ASSUME o.failures = 0, ~new.timed_out, d.stop_after_failure_count # 0
         PROVE  PassedUpTo(d, new, TestCount(d))
    <3>1. ~FailuresReached(d, o)
      BY <2>10 DEF FailuresReached
    <3>2. TestCount(d) <= LastStepLeft(o)
      <4>1. SUFFICES ASSUME LastStepLeft(o) < TestCount(d) PROVE FALSE
        BY <2>2
      <4>2. LastStepLeft(o) + 1 \in StepsTried(d, o)
        BY <2>2, <3>1, <4>1, SMTT(30) DEF StepsTried
      <4>3. LastStepLeft(o) + 1 < late
        BY <2>2, <2>3, <2>10, <4>2
      <4>. QED
        BY <2>10, <4>2, <4>3, <1>FollowingStepOkay, Zenon
    <3>3. SUFFICES ASSUME NEW k \in 1..TestCount(d)
                   PROVE  new.test_states[d.test_sequence[k]] = "Pass"
      BY Zenon DEF PassedUpTo
    <3>4. o.test_states[d.test_sequence[k]] = "Pass" /\ d.test_sequence[k] \in Test
      BY <2>2, <2>10, <3>2 DEF RecordedInv, PassedUpTo, Ordered
    <3>. QED
      BY <2>4, <2>5, <3>4, Zenon
  <2>11. ObjectInv(d, new)
    BY <2>3, <2>8, <2>10, Zenon DEF ObjectInv, OverPhase
  <2>. QED
    BY <2>3, <2>7, <2>9, <2>11, Zenon DEF new
\* Advancing a scenario replaces its object by one that the invariant allows.
<1>AdvanceObject.
    ASSUME TypeOK, StepInRange, VerdictInv, HandleAdvanceScenario
    PROVE  /\ library' = library
           /\ \/ scenario' = scenario
              \/ \E new : /\ scenario' = [scenario EXCEPT ![current] = new]
                          /\ ObjectInv(Desc(current), new)
                          /\ GoesForward(scenario[current], new)
                          /\ SameFailures(Recorded, new)
  <2>. USE <1>AdvanceObject
  <2>. DEFINE o == Recorded
              d == Desc(current)
              old == scenario[current]
  <2>1. /\ current \in Scenario /\ Head(queue).result \in Result /\ old \in ScenarioObject
    <3>1. Handling("AdvanceScenario") /\ current # None
      BY Zenon DEF HandleAdvanceScenario
    <3>. QED
      BY <3>1, AdvanceTypes, HeadTypes, MessageFields, Zenon DEF Handling, TypeOK
  <2>2. Ordered(d, T) /\ d.stop_after_failure_count \in Nat \cup {None} /\ ObjectInv(d, old)
    BY <2>1, LibraryOrdered, Zenon DEF VerdictInv
  <2>3. /\ o \in ScenarioObject
        /\ o.state = old.state /\ o.step = old.step
        /\ old.state \notin {"Running", "PreStart"} => o = old
    <3>1. o = RecordResult(d, old, Head(queue).result)
      BY Zenon DEF Recorded
    <3>. HIDE DEF o, d, old
    <3>2. o \in ScenarioObject /\ o.state = old.state /\ o.step = old.step
      BY <2>1, <3>1, RecordType, Zenon
    <3>3. ASSUME old.state \notin {"Running", "PreStart"} PROVE o = old
      BY <2>1, <3>1, <3>3, Zenon DEF RecordResult, ScenarioObject
    <3>. QED
      BY <3>2, <3>3, Zenon
  <2>4. RecordedInv(d, o) /\ KeepsVerdicts(old, o)
    BY <2>1, <2>2, RecordKeeps, Zenon DEF Recorded
  <2>5. old.step \in Nat /\ o.step \in Nat /\ TestCount(d) \in Nat
    BY <2>1, <2>2, <2>3, Zenon DEF ScenarioObject, Ordered
  <2>6. ASSUME NEW new, KeepsVerdicts(o, new) PROVE KeepsVerdicts(old, new)
    BY <2>4, <2>6, Zenon DEF KeepsVerdicts
  <2>7. library' = library
    BY Zenon DEF HandleAdvanceScenario, AdvanceToExecStart, AdvanceToTest, AdvancePastTests,
       AdvanceWithoutTests, AdvanceToEnd, Finish, RunSupportCommand, Handled, Panic
  <2>. HIDE DEF o, d, old
  <2>8. CASE AdvanceToExecStart(o)
    <3>. DEFINE new == [o EXCEPT !.state = "PreStart"]
    <3>1. o = old /\ old.state = "Idle"
      BY <2>3, <2>8, Zenon DEF AdvanceToExecStart
    <3>2. /\ new.state = "PreStart" /\ new.step = o.step /\ new.failures = o.failures
          /\ new.exec_start_state = o.exec_start_state /\ new.test_states = o.test_states
      BY <2>3, Zenon DEF ScenarioObject
    <3>3. scenario' = [scenario EXCEPT ![current] = new]
      BY <2>8, Zenon DEF AdvanceToExecStart
    <3>. HIDE DEF new
    <3>4. ObjectInv(d, new)
      BY <2>2, <3>1, <3>2, Zenon DEF ObjectInv, PendingFrom, CommandCounted
    <3>5. GoesForward(old, new) /\ SameFailures(o, new)
      BY <2>5, <3>1, <3>2 DEF GoesForward, KeepsVerdicts, SameFailures
    <3>. QED
      BY <2>7, <3>3, <3>4, <3>5, Zenon DEF d, old, o
  <2>9. CASE AdvanceWithoutTests(o)
    BY <2>7, <2>9, Zenon DEF AdvanceWithoutTests, Panic
  <2>10. CASE AdvanceToEnd(o)
    <3>. DEFINE new == [o EXCEPT !.state = "ScenarioFinished"]
    <3>1. o = old /\ old.state \in {"PostSuccess", "PostFailure", "ScenarioFinished"}
      BY <2>3, <2>10, Zenon DEF AdvanceToEnd
    <3>2. /\ new.state = "ScenarioFinished" /\ new.step = o.step /\ new.failures = o.failures
          /\ new.exec_start_state = o.exec_start_state /\ new.test_states = o.test_states
          /\ new.timed_out = o.timed_out
          /\ o.state = "ScenarioFinished" => new = o
      BY <2>3, Zenon DEF ScenarioObject
    <3>3. scenario' = [scenario EXCEPT ![current] = new]
      BY <2>10, Zenon DEF AdvanceToEnd, Finish
    <3>. HIDE DEF new
    <3>4. ObjectInv(d, new)
      BY <2>2, <3>1, <3>2, Zenon DEF ObjectInv, PassedUpTo, CommandCounted
    <3>5. GoesForward(old, new) /\ SameFailures(o, new)
      BY <2>5, <3>1, <3>2 DEF GoesForward, KeepsVerdicts, SameFailures
    <3>. QED
      BY <2>7, <3>3, <3>4, <3>5, Zenon DEF d, old, o
  <2>11. ASSUME NEW late \in LateSteps(d, o), AdvancePastTests(o, late)
         PROVE  \E new : /\ scenario' = [scenario EXCEPT ![current] = new]
                         /\ ObjectInv(d, new) /\ GoesForward(old, new)
                            /\ SameFailures(o, new)
    <3>1. LeavesForTests(d, o) /\ StepsOkay(d, T, o, late) = {} /\ late \in Int
      BY <2>5, <2>11 DEF AdvancePastTests, LateSteps, d
    <3>2. ASSUME NEW phase \in OverPhase
          PROVE  /\ ObjectInv(d, Over(d, T, o, late, phase))
                 /\ GoesForward(old, Over(d, T, o, late, phase))
                 /\ SameFailures(o, Over(d, T, o, late, phase))
      <4>. DEFINE new == Over(d, T, o, late, phase)
      <4>1. ObjectInv(d, new) /\ KeepsVerdicts(o, new) /\ SameFailures(o, new) /\ new.step = o.step
        BY <2>2, <2>3, <2>4, <3>1, <1>PastTestsKeeps
      <4>2. old.state # "ScenarioFinished"
        BY <2>3, <3>1, Zenon DEF LeavesForTests
      <4>. HIDE DEF new
      <4>3. GoesForward(old, new)
        BY <2>3, <2>5, <2>6, <4>1, <4>2 DEF GoesForward
      <4>. QED
        BY <4>1, <4>3, Zenon DEF new
    <3>3. PostPhase(d, o) \in OverPhase /\ "ScenarioFinished" \in OverPhase
      BY Zenon DEF PostPhase, OverPhase
    <3>4. \/ scenario' = [scenario EXCEPT ![current] = Over(d, T, o, late, PostPhase(d, o))]
          \/ scenario' = [scenario EXCEPT ![current] = Over(d, T, o, late, "ScenarioFinished")]
      BY <2>11, Zenon DEF AdvancePastTests, Finish, d, Over
    <3>. QED
      BY <3>2, <3>3, <3>4, Zenon
  <2>12. ASSUME NEW late \in LateSteps(d, o), NEW next \in 1..TestCount(d),
                AdvanceToTest(o, late, next)
         PROVE  \/ scenario' = scenario
                \/ \E new : /\ scenario' = [scenario EXCEPT ![current] = new]
                            /\ ObjectInv(d, new) /\ GoesForward(old, new)
                            /\ SameFailures(o, new)
    <3>. DEFINE new == [Skipping(o, SkippedBefore(d, T, o, late, next)) EXCEPT
                          !.state = "Running", !.step = next]
    <3>1. /\ LeavesForTests(d, o) /\ next \in StepsOkay(d, T, o, late) /\ late \in Int
          /\ \A k \in StepsOkay(d, T, o, late) : next <= k
      BY <2>5, <2>12 DEF AdvanceToTest, LateSteps, d
    <3>2. /\ ObjectInv(d, new) /\ KeepsVerdicts(o, new) /\ SameFailures(o, new)
          /\ new.step > LastStepLeft(o)
      BY <2>2, <2>3, <2>4, <3>1, <1>ToTestKeeps, Zenon
    <3>3. new.step = next
      <4>1. Skipping(o, SkippedBefore(d, T, o, late, next)) \in ScenarioObject
        BY <2>3, SkippingType, Zenon
      <4>. QED
        BY <4>1, Zenon DEF ScenarioObject
    <3>4. scenario' = scenario \/ scenario' = [scenario EXCEPT ![current] = new]
      BY <2>12, Zenon DEF AdvanceToTest, Panic, d
    <3>. HIDE DEF new
    <3>5. new.step >= old.step
      <4>1. CASE o.state = "Running"
        BY <2>3, <2>5, <3>2, <3>3, <4>1, SMTT(30) DEF LastStepLeft
      <4>2. CASE o.state # "Running"
        BY <2>2, <2>3, <2>5, <3>1, <3>3, <4>2 DEF LeavesForTests, ObjectInv
      <4>. QED
        BY <4>1, <4>2, Zenon
    <3>6. old.state # "ScenarioFinished"
      BY <2>3, <3>1, Zenon DEF LeavesForTests
    <3>. QED
      BY <2>6, <3>2, <3>4, <3>5, <3>6, Zenon DEF GoesForward
  <2>. QED
    BY <2>7, <2>8, <2>9, <2>10, <2>11, <2>12, Zenon DEF HandleAdvanceScenario, o, d, old
<1>1. \A s \in Scenario : scenario[s] \in ScenarioObject
  BY Zenon DEF TypeOK
<1>2. \A s \in Scenario : GoesForward(scenario[s], scenario[s])
  BY <1>1 DEF GoesForward, KeepsVerdicts, ScenarioObject
<1>3. \A s \in Scenario : ObjectInv(Desc(s), FreshScenario)
  BY LibraryTypes, FreshInv, Zenon
<1>4. CASE Elsewhere
  <2>1. library' = library /\ \A s \in Scenario : scenario'[s] \in {scenario[s], FreshScenario}
    BY <1>4, ScenarioElsewhere, Zenon
  <2>2. \A s \in Scenario : Desc(s)' = Desc(s)
    BY <2>1, Zenon DEF Desc
  <2>3. VerdictInv'
    BY <1>3, <2>1, <2>2, Zenon DEF VerdictInv
  <2>. QED
    BY <1>2, <2>1, <2>3, Zenon DEF GainsFailure
<1>5. CASE HandleAdvanceScenario
  <2>1. /\ library' = library
        /\ \/ scenario' = scenario
           \/ \E new : /\ scenario' = [scenario EXCEPT ![current] = new]
                       /\ ObjectInv(Desc(current), new)
                       /\ GoesForward(scenario[current], new)
                       /\ SameFailures(Recorded, new)
    BY <1>5, <1>AdvanceObject, Zenon
  <2>0. Head(queue).result \in Result
    BY <1>5, HeadTypes, MessageFields, Zenon DEF HandleAdvanceScenario, Handling
  <2>2. \A s \in Scenario : Desc(s)' = Desc(s)
    BY <2>1, Zenon DEF Desc
  <2>3. \A s \in Scenario : /\ ObjectInv(Desc(s), scenario'[s])
                            /\ GoesForward(scenario[s], scenario'[s])
                            /\ GainsFailure(s)
    <3>1. CASE scenario' = scenario
      BY <1>2, <3>1, Zenon DEF VerdictInv, GainsFailure
    <3>2. ASSUME NEW new, scenario' = [scenario EXCEPT ![current] = new],
                 ObjectInv(Desc(current), new), GoesForward(scenario[current], new),
                 SameFailures(Recorded, new)
          PROVE  \A s \in Scenario : /\ ObjectInv(Desc(s), scenario'[s])
                                     /\ GoesForward(scenario[s], scenario'[s])
                                     /\ GainsFailure(s)
      <4>. SUFFICES ASSUME NEW s \in Scenario
                    PROVE  /\ ObjectInv(Desc(s), scenario'[s])
                           /\ GoesForward(scenario[s], scenario'[s])
                           /\ GainsFailure(s)
        BY Zenon
      <4>1. scenario'[s] = IF s = current THEN new ELSE scenario[s]
        BY <3>2, Zenon DEF TypeOK
      <4>. QED
        BY <1>2, <2>0, <3>2, <4>1, Zenon DEF VerdictInv, GainsFailure, Recorded
    <3>. QED
      BY <2>1, <3>1, <3>2, Zenon
  <2>4. VerdictInv'
    BY <2>2, <2>3, Zenon DEF VerdictInv
  <2>. QED
    BY <2>1, <2>3, <2>4, Zenon
<1>6. CASE AdvanceNothing \/ UNCHANGED vars
  <2>1. library' = library /\ scenario' = scenario
    BY <1>6, Zenon DEF AdvanceNothing, Handled, vars, managerVars
  <2>2. \A s \in Scenario : Desc(s)' = Desc(s)
    BY <2>1, Zenon DEF Desc
  <2>3. VerdictInv'
    BY <2>1, <2>2, Zenon DEF VerdictInv
  <2>. QED
    BY <1>2, <2>1, <2>3, Zenon DEF GainsFailure
<1>. QED
  BY <1>4, <1>5, <1>6, NextSplit, Zenon

\* The verdicts of every run agree with its place, its count of failures and its phase:
\* advance() and find_next_state() (scenario.rs:567-772) keep them so, whatever results
\* and requests arrive in between.
THEOREM VerdictInvariant == Spec => []VerdictInv
<1>1. Init => VerdictInv
  <2>. SUFFICES ASSUME Init PROVE VerdictInv
    BY Zenon
  <2>1. TypeOK
    BY TypeInit, Zenon
  <2>2. \A s \in Scenario : scenario[s] = FreshScenario
    BY Zenon DEF Init
  <2>. QED
    BY <2>1, <2>2, LibraryTypes, FreshInv, Zenon DEF VerdictInv
<1>2. TypeOK /\ StepInRange /\ VerdictInv /\ [Next]_vars => VerdictInv'
  BY VerdictStep, Zenon
<1>. QED
  BY <1>1, <1>2, TypeCorrect, PTL DEF Spec

\* A scenario's step never goes back, a verdict is never withdrawn and a finished
\* scenario stays as it is, until it is activated anew (scenario.rs:514-548, 567-643).
THEOREM RunsGoForward == Spec => RunGoesForward
<1>1. TypeOK /\ StepInRange /\ VerdictInv /\ [Next]_vars
      => [\A s \in Scenario :
             \/ scenario'[s] = FreshScenario
             \/ /\ \A t \in Test : \/ scenario[s].test_states[t] = "Pending"
                                   \/ scenario'[s].test_states[t] = scenario[s].test_states[t]
                /\ scenario'[s].step >= scenario[s].step
                /\ scenario[s].state = "ScenarioFinished" => scenario'[s] = scenario[s]]_vars
  BY VerdictStep, Zenon DEF GoesForward, KeepsVerdicts
<1>. QED
  BY <1>1, TypeCorrect, VerdictInvariant, PTL DEF Spec, RunGoesForward

\* A scenario that finished with 200 (scenario.rs:888) has recorded a pass for each of its tests,
\* unless its Timeout or a StopAfterFailureCount of 0 cut the run short.
THEOREM SuccessIsEarned == Spec => []SuccessMeansAllPassed
<1>1. TypeOK /\ VerdictInv => SuccessMeansAllPassed
  <2>. SUFFICES ASSUME TypeOK, VerdictInv, NEW s \in Scenario,
                       scenario[s].state = "ScenarioFinished", FinishCode(scenario[s]) = 200,
                       ~scenario[s].timed_out, Desc(s).stop_after_failure_count # 0
                PROVE  \A t \in TestsOf(Desc(s)) : scenario[s].test_states[t] = "Pass"
    BY DEF SuccessMeansAllPassed
  <2>1. scenario[s].failures \in Nat
    BY SMTT(30) DEF TypeOK, ScenarioObject
  <2>2. scenario[s].failures = 0
    BY <2>1 DEF FinishCode
  <2>3. PassedUpTo(Desc(s), scenario[s], TestCount(Desc(s)))
    BY <2>2, Zenon DEF VerdictInv, ObjectInv
  <2>. QED
    BY <2>3 DEF PassedUpTo, TestsOf
<1>. QED
  BY <1>1, TypeCorrect, VerdictInvariant, PTL

-----------------------------------------------------------------------------
(***************************************************************************)
(* Sequences: more facts that are cited below.                             *)
(***************************************************************************)
\* Nothing was sent, or nothing is queued.
LEMMA ConcatEmptySeq ==
    ASSUME NEW S, NEW s \in Seq(S)
    PROVE  s \o <<>> = s /\ <<>> \o s = s
OBVIOUS

\* Queueing one message is queueing a sequence of one.
LEMMA AppendIsConcat ==
    ASSUME NEW S, NEW s \in Seq(S), NEW x \in S
    PROVE  Append(s, x) = s \o <<x>>
OBVIOUS

\* Concatenation may be grouped either way.
LEMMA ConcatAssociative ==
    ASSUME NEW S, NEW s \in Seq(S), NEW t \in Seq(S), NEW u \in Seq(S)
    PROVE  (s \o t) \o u = s \o (t \o u)
BY SMTT(30)

(***************************************************************************)
(* Messages on their way.  q holds the messages of p from the first one    *)
(* on, in their order, and messages of `new' between and after them.       *)
(***************************************************************************)
Carried(p, q, first, new) ==
    \E f \in [1..Len(q) -> Nat] :
       /\ \A j \in 1..Len(q) : f[j] = 0 => q[j] \in new
       /\ \A j \in 1..Len(q) : f[j] # 0 => f[j] \in first..Len(p) /\ q[j] = p[f[j]]
       /\ \A j, k \in 1..Len(q) : j < k /\ f[j] # 0 /\ f[k] # 0 => f[j] < f[k]
       /\ \A i \in first..Len(p) : \E j \in 1..Len(q) : f[j] = i

\* Nothing is taken and nothing added.
LEMMA CarriedSame ==
    ASSUME NEW p \in Seq(Message)
    PROVE  Carried(p, p, 1, {})
<1>. DEFINE f == [j \in 1..Len(p) |-> j]
<1>1. Len(p) \in Nat
  BY LenProperties, Zenon
<1>2. f \in [1..Len(p) -> Nat] /\ \A j \in 1..Len(p) : f[j] = j
  OBVIOUS
<1>. HIDE DEF f
<1>. QED
  BY <1>1, <1>2 DEF Carried

\* A message is inserted, after those of a and before those of b.
LEMMA CarriedInsert ==
    ASSUME NEW a \in Seq(Message), NEW b \in Seq(Message), NEW m \in Message
    PROVE  /\ Carried(a \o b, Append(a, m) \o b, 1, {m})
           /\ Len(Append(a, m) \o b) = Len(a) + Len(b) + 1
           /\ (Append(a, m) \o b)[Len(a) + 1] = m
           /\ \A j \in 1..Len(a) : (Append(a, m) \o b)[j] = a[j]
           /\ \A j \in 1..Len(b) : (Append(a, m) \o b)[Len(a) + 1 + j] = b[j]
<1>. DEFINE p == a \o b
            q == Append(a, m) \o b
            f == [j \in 1..Len(q) |-> IF j <= Len(a) THEN j ELSE IF j = Len(a) + 1 THEN 0 ELSE j - 1]
<1>1. Len(a) \in Nat /\ Len(b) \in Nat
  BY LenProperties, Zenon
<1>2. /\ Len(p) = Len(a) + Len(b)
      /\ \A i \in 1..Len(p) : p[i] = IF i <= Len(a) THEN a[i] ELSE b[i - Len(a)]
  BY ConcatProperties, Zenon
<1>3. /\ Append(a, m) \in Seq(Message) /\ Len(Append(a, m)) = Len(a) + 1
      /\ \A i \in 1..Len(a) : Append(a, m)[i] = a[i]
      /\ Append(a, m)[Len(a) + 1] = m
  BY AppendProperties
<1>. DEFINE am == Append(a, m)
<1>4. /\ Len(q) = Len(am) + Len(b)
      /\ \A i \in 1..Len(q) : q[i] = IF i <= Len(am) THEN am[i] ELSE b[i - Len(am)]
  BY <1>3, ConcatProperties
<1>. HIDE DEF p, q, am
<1>5. /\ Len(q) = Len(a) + Len(b) + 1
      /\ q[Len(a) + 1] = m
      /\ \A j \in 1..Len(a) : q[j] = a[j]
      /\ \A j \in 1..Len(b) : q[Len(a) + 1 + j] = b[j]
  BY <1>1, <1>3, <1>4, SMTT(30) DEF am
<1>6. /\ f \in [1..Len(q) -> Nat]
      /\ \A j \in 1..Len(q) : f[j] = IF j <= Len(a) THEN j ELSE IF j = Len(a) + 1 THEN 0 ELSE j - 1
  BY <1>1, <1>5
<1>. HIDE DEF f
<1>7. \A j \in 1..Len(q) : f[j] = 0 => q[j] \in {m}
  BY <1>1, <1>5, <1>6, SMTT(30)
<1>8. ASSUME NEW j \in 1..Len(q), f[j] # 0 PROVE f[j] \in 1..Len(p) /\ q[j] = p[f[j]]
  <2>1. CASE j <= Len(a)
    BY <1>1, <1>2, <1>5, <1>6, <2>1, SMTT(30)
  <2>2. CASE j > Len(a) + 1
    <3>1. f[j] = j - 1 /\ j - 1 \in 1..Len(p) /\ j - 1 > Len(a) /\ j - 1 - Len(a) \in 1..Len(b)
      BY <1>1, <1>2, <1>5, <1>6, <2>2
    <3>2. q[j] = b[j - 1 - Len(a)]
      <4>1. j = Len(a) + 1 + (j - 1 - Len(a))
        BY <1>1
      <4>. QED
        BY <1>5, <3>1, <4>1, Zenon
    <3>. QED
      BY <1>1, <1>2, <3>1, <3>2, SMTT(30)
  <2>. QED
    BY <1>1, <1>6, <1>8, <2>1, <2>2, SMTT(30)
<1>9. \A j, k \in 1..Len(q) : j < k /\ f[j] # 0 /\ f[k] # 0 => f[j] < f[k]
  BY <1>1, <1>5, <1>6
<1>10. ASSUME NEW i \in 1..Len(p) PROVE \E j \in 1..Len(q) : f[j] = i
  <2>1. CASE i <= Len(a)
    BY <1>1, <1>2, <1>5, <1>6, <2>1, SMTT(30)
  <2>2. CASE i > Len(a)
    <3>1. i + 1 \in 1..Len(q) /\ f[i + 1] = i
      BY <1>1, <1>2, <1>5, <1>6, <2>2
    <3>. QED
      BY <3>1, Zenon
  <2>. QED
    BY <1>1, <2>1, <2>2
<1>11. Carried(p, q, 1, {m})
  BY <1>6, <1>7, <1>8, <1>9, <1>10, Zenon DEF Carried
<1>. QED
  BY <1>5, <1>11, Zenon DEF p, q

\* The first message is taken, and messages are added at the end.
LEMMA CarriedTaken ==
    ASSUME NEW p \in Seq(Message), p # <<>>, NEW sent \in Seq(Message)
    PROVE  /\ Carried(p, Tail(p) \o sent, 2, {sent[k] : k \in 1..Len(sent)})
           /\ Len(p) \in Nat \ {0} /\ p[1] = Head(p)
           /\ Len(Tail(p) \o sent) = Len(p) - 1 + Len(sent)
           /\ \A j \in 1..(Len(p) - 1) : (Tail(p) \o sent)[j] = p[j + 1]
           /\ \A j \in 1..Len(sent) : (Tail(p) \o sent)[Len(p) - 1 + j] = sent[j]
<1>. DEFINE q == Tail(p) \o sent
            tail == Tail(p)
            f == [j \in 1..Len(q) |-> IF j < Len(p) THEN j + 1 ELSE 0]
            new == {sent[k] : k \in 1..Len(sent)}
<1>1. Len(p) \in Nat \ {0} /\ Len(sent) \in Nat /\ p[1] = Head(p)
  BY LenProperties, EmptySeq
<1>2. /\ tail \in Seq(Message) /\ Len(tail) = Len(p) - 1
      /\ \A i \in 1..Len(tail) : tail[i] = p[i + 1]
  BY HeadTailProperties, Zenon
<1>3. /\ Len(q) = Len(tail) + Len(sent)
      /\ \A i \in 1..Len(q) : q[i] = IF i <= Len(tail) THEN tail[i] ELSE sent[i - Len(tail)]
  BY <1>2, ConcatProperties
<1>. HIDE DEF q, tail
<1>4. /\ Len(q) = Len(p) - 1 + Len(sent)
      /\ \A j \in 1..(Len(p) - 1) : q[j] = p[j + 1]
      /\ \A j \in 1..Len(sent) : q[Len(p) - 1 + j] = sent[j]
  <2>1. Len(q) = Len(p) - 1 + Len(sent) /\ \A j \in 1..(Len(p) - 1) : q[j] = p[j + 1]
    BY <1>1, <1>2, <1>3
  <2>2. ASSUME NEW j \in 1..Len(sent) PROVE q[Len(p) - 1 + j] = sent[j]
    <3>1. /\ Len(p) - 1 + j \in 1..Len(q) /\ ~(Len(p) - 1 + j <= Len(tail))
          /\ Len(p) - 1 + j - Len(tail) = j
      BY <1>1, <1>2, <1>3, SMTT(30)
    <3>. QED
      BY <1>3, <3>1, SMTT(30)
  <2>. QED
    BY <2>1, <2>2, Zenon
<1>5. /\ f \in [1..Len(q) -> Nat]
      /\ \A j \in 1..Len(q) : f[j] = IF j < Len(p) THEN j + 1 ELSE 0
  BY <1>1, <1>4
<1>. HIDE DEF f
<1>6. ASSUME NEW j \in 1..Len(q), f[j] = 0 PROVE q[j] \in new
  <2>1. j >= Len(p) /\ j - (Len(p) - 1) \in 1..Len(sent) /\ j = Len(p) - 1 + (j - (Len(p) - 1))
    BY <1>1, <1>4, <1>5, <1>6
  <2>2. q[j] = sent[j - (Len(p) - 1)]
    BY <1>4, <2>1, Zenon
  <2>. QED
    BY <2>1, <2>2, Zenon
<1>7. \A j \in 1..Len(q) : f[j] # 0 => f[j] \in 2..Len(p) /\ q[j] = p[f[j]]
  BY <1>1, <1>4, <1>5, SMTT(30)
<1>8. \A j, k \in 1..Len(q) : j < k /\ f[j] # 0 /\ f[k] # 0 => f[j] < f[k]
  BY <1>1, <1>4, <1>5
<1>9. ASSUME NEW i \in 2..Len(p) PROVE \E j \in 1..Len(q) : f[j] = i
  <2>1. i - 1 \in 1..Len(q) /\ f[i - 1] = i
    BY <1>1, <1>4, <1>5
  <2>. QED
    BY <2>1, Zenon
<1>. HIDE DEF new
<1>10. Carried(p, q, 2, new)
  BY <1>5, <1>6, <1>7, <1>8, <1>9, Zenon DEF Carried
<1>. QED
  BY <1>1, <1>4, <1>10, Zenon DEF q, new

\* Where a message of q comes from, and where one of p is: before it are those that were
\* before it, and new ones.
LEMMA CarriedFrom ==
    ASSUME NEW p, NEW q, NEW first, NEW new, Carried(p, q, first, new), NEW j \in 1..Len(q)
    PROVE  q[j] \in new \/ \E h \in first..Len(p) : q[j] = p[h]
BY Zenon DEF Carried

\* Message i of p is message j of q: what was before it, and only that, still is before
\* it, but for messages of `new', and what was after it still is after it.
Placed(p, q, first, new, i, j) ==
    /\ q[j] = p[i]
    /\ \A k \in 1..Len(q) : k < j => q[k] \in new \/ \E h \in first..(i - 1) : q[k] = p[h]
    /\ \A k \in 1..Len(q) : k > j => q[k] \in new \/ \E h \in (i + 1)..Len(p) : q[k] = p[h]
    /\ \A h \in first..(i - 1) : \E k \in 1..(j - 1) : q[k] = p[h]

\* A message that is carried over keeps its place among the others.
LEMMA CarriedPlace ==
    ASSUME NEW p \in Seq(Message), NEW q \in Seq(Message), NEW first \in {1, 2}, NEW new,
           Carried(p, q, first, new), NEW i \in first..Len(p)
    PROVE  \E j \in 1..Len(q) : Placed(p, q, first, new, i, j)
<1>1. PICK f \in [1..Len(q) -> Nat] :
       /\ \A j \in 1..Len(q) : f[j] = 0 => q[j] \in new
       /\ \A j \in 1..Len(q) : f[j] # 0 => f[j] \in first..Len(p) /\ q[j] = p[f[j]]
       /\ \A j, k \in 1..Len(q) : j < k /\ f[j] # 0 /\ f[k] # 0 => f[j] < f[k]
       /\ \A h \in first..Len(p) : \E j \in 1..Len(q) : f[j] = h
  BY Zenon DEF Carried
<1>2. Len(p) \in Nat /\ Len(q) \in Nat
  BY LenProperties, Zenon
<1>3. PICK j \in 1..Len(q) : f[j] = i
  BY <1>1, Zenon
<1>4. q[j] = p[i] /\ f[j] # 0
  BY <1>1, <1>2, <1>3, SMTT(30)
<1>5. ASSUME NEW k \in 1..Len(q), k < j, q[k] \notin new
      PROVE  \E h \in first..(i - 1) : q[k] = p[h]
  <2>1. f[k] # 0 /\ f[k] \in first..Len(p) /\ q[k] = p[f[k]]
    BY <1>1, <1>5, Zenon
  <2>2. f[k] < f[j]
    BY <1>1, <1>4, <1>5, <2>1, Zenon
  <2>3. f[k] \in first..(i - 1)
    BY <1>2, <1>3, <2>1, <2>2
  <2>. QED
    BY <2>1, <2>3, Zenon
<1>6. ASSUME NEW k \in 1..Len(q), k > j, q[k] \notin new
      PROVE  \E h \in (i + 1)..Len(p) : q[k] = p[h]
  <2>1. f[k] # 0 /\ f[k] \in first..Len(p) /\ q[k] = p[f[k]]
    BY <1>1, <1>6, Zenon
  <2>2. f[j] < f[k]
    BY <1>1, <1>2, <1>4, <1>6, <2>1, Zenon
  <2>3. f[k] \in (i + 1)..Len(p)
    BY <1>2, <1>3, <2>1, <2>2
  <2>. QED
    BY <2>1, <2>3, Zenon
<1>7. ASSUME NEW h \in first..(i - 1) PROVE \E k \in 1..(j - 1) : q[k] = p[h]
  <2>1. h \in first..Len(p)
    BY <1>2
  <2>2. PICK k \in 1..Len(q) : f[k] = h
    BY <1>1, <2>1, Zenon
  <2>3. f[k] # 0 /\ q[k] = p[h]
    BY <1>1, <1>2, <2>2, SMTT(30)
  <2>4. k # j /\ ~(j < k)
    <3>1. j < k => f[j] < f[k]
      BY <1>1, <1>4, <2>3, Zenon
    <3>2. f[k] < f[j] /\ f[j] \in Nat /\ f[k] \in Nat
      BY <1>2, <1>3, <2>2
    <3>. QED
      BY <3>1, <3>2
  <2>5. k \in 1..(j - 1)
    BY <1>2, <2>4
  <2>. QED
    BY <2>3, <2>5, Zenon
<1>8. Placed(p, q, first, new, i, j)
  BY <1>4, <1>5, <1>6, <1>7, Zenon DEF Placed
<1>. QED
  BY <1>8, Zenon
-----------------------------------------------------------------------------
(***************************************************************************)
(* Messages on their way.                                                  *)
(***************************************************************************)
\* What other theorems establish of every state.
Known == TypeOK /\ StepInRange /\ VerdictInv /\ OneScenario

\* The messages a run sends, and the requests, which the main thread never sends.
RunMessage == {m \in Message : m.what \notin {"StartScenario", "Scenario", "Rescan"}}

\* What the constructors of run messages build.
LEMMA RunMessages ==
    /\ \A u \in Unit, r \in Result : AdvanceScenario(u, r) \in RunMessage
    /\ \A t \in Test : StartTest(t) \in RunMessage /\ TestStarted(t) \in RunMessage
    /\ \A u \in Unit : StopTest(u) \in RunMessage
    /\ \A S \in SUBSET Test, r \in Result : TestFinished(S, r) \in RunMessage
    /\ \A S \in SUBSET Test : Skip(S) \in RunMessage
    /\ \A s \in Scenario, c \in Nat : ScenarioFinished(s, c) \in RunMessage
<1>. USE MessageTypes DEF RunMessage
<1>1. \A u \in Unit, r \in Result : AdvanceScenario(u, r) \in RunMessage
  BY Zenon DEF AdvanceScenario
<1>2. \A t \in Test : StartTest(t) \in RunMessage /\ TestStarted(t) \in RunMessage
  BY Zenon DEF StartTest, TestStarted
<1>3. \A u \in Unit : StopTest(u) \in RunMessage
  BY Zenon DEF StopTest
<1>4. \A S \in SUBSET Test, r \in Result : TestFinished(S, r) \in RunMessage
  BY Zenon DEF TestFinished
<1>5. \A S \in SUBSET Test : Skip(S) \in RunMessage
  BY Zenon DEF Skip
<1>6. \A s \in Scenario, c \in Nat : ScenarioFinished(s, c) \in RunMessage
  BY Zenon DEF ScenarioFinished
<1>. QED
  BY <1>1, <1>2, <1>3, <1>4, <1>5, <1>6, Zenon

\* How the messages on their way change.
LEMMA PendingTypes ==
    ASSUME TypeOK
    PROVE  /\ Pending \in Seq(Message) /\ Len(Pending) \in Nat
           /\ Len(Pending) = Len(queue) + Len(out) /\ Len(queue) \in Nat /\ Len(out) \in Nat
           /\ \A j \in 1..Len(queue) : Pending[j] = queue[j]
           /\ \A j \in 1..Len(out) : Pending[Len(queue) + j] = out[j]
<1>1. queue \in Seq(Message) /\ out \in Seq(Message)
  BY Zenon DEF TypeOK
<1>2. Len(queue) \in Nat /\ Len(out) \in Nat
  BY <1>1, LenProperties, Zenon
<1>3. /\ Pending \in Seq(Message) /\ Len(Pending) = Len(queue) + Len(out)
      /\ \A i \in 1..Len(queue) + Len(out) :
            Pending[i] = IF i <= Len(queue) THEN queue[i] ELSE out[i - Len(queue)]
  BY <1>1, ConcatProperties, Zenon DEF Pending
<1>4. ASSUME NEW j \in 1..Len(out) PROVE Pending[Len(queue) + j] = out[j]
  <2>1. Len(queue) + j \in 1..Len(queue) + Len(out) /\ ~(Len(queue) + j <= Len(queue))
        /\ Len(queue) + j - Len(queue) = j
    BY <1>2
  <2>. QED
    BY <1>3, <2>1
<1>. QED
  BY <1>2, <1>3, <1>4

\* Sending moves a message, and changes nothing in what is on its way.
LEMMA PendingSend ==
    ASSUME TypeOK, Send
    PROVE  Pending' = Pending
<1>1. queue \in Seq(Message) /\ out \in Seq(Message) /\ out # <<>>
  BY Zenon DEF TypeOK, Send
<1>2. Head(out) \in Message /\ Tail(out) \in Seq(Message) /\ out = <<Head(out)>> \o Tail(out)
  BY <1>1
<1>3. Append(queue, Head(out)) = queue \o <<Head(out)>>
  BY <1>1, <1>2, AppendIsConcat, Zenon
<1>. DEFINE h == <<Head(out)>>
            t == Tail(out)
<1>4. h \in Seq(Message) /\ t \in Seq(Message) /\ out = h \o t /\ Append(queue, Head(out)) = queue \o h
  BY <1>2, <1>3
<1>. HIDE DEF h, t
<1>5. (queue \o h) \o t = queue \o (h \o t)
  <2>. DEFINE q == queue
  <2>1. q \in Seq(Message) /\ h \in Seq(Message) /\ t \in Seq(Message)
    BY <1>1, <1>4, Zenon
  <2>. HIDE DEF q
  <2>2. (q \o h) \o t = q \o (h \o t)
    BY ONLY <2>1, SMTT(30)
  <2>. QED
    BY <2>2, Zenon DEF q
<1>. QED
  BY <1>4, <1>5, Zenon DEF Pending, Send, t

\* Another thread's message comes in behind the queue and before what the main thread
\* has yet to send.
LEMMA PendingInsert ==
    ASSUME TypeOK, NEW m \in Message, queue' = Append(queue, m), out' = out
    PROVE  /\ Carried(Pending, Pending', 1, {m})
           /\ Len(Pending') = Len(Pending) + 1
           /\ Pending'[Len(queue) + 1] = m
           /\ \A j \in 1..Len(queue) : Pending'[j] = Pending[j]
           /\ \A j \in 1..Len(out) : Pending'[Len(queue) + 1 + j] = out[j]
<1>1. queue \in Seq(Message) /\ out \in Seq(Message)
  BY Zenon DEF TypeOK
<1>2. Pending = queue \o out /\ Pending' = Append(queue, m) \o out
  BY Zenon DEF Pending
<1>3. /\ Carried(queue \o out, Append(queue, m) \o out, 1, {m})
      /\ Len(Append(queue, m) \o out) = Len(queue) + Len(out) + 1
      /\ (Append(queue, m) \o out)[Len(queue) + 1] = m
      /\ \A j \in 1..Len(queue) : (Append(queue, m) \o out)[j] = queue[j]
      /\ \A j \in 1..Len(out) : (Append(queue, m) \o out)[Len(queue) + 1 + j] = out[j]
  BY <1>1, CarriedInsert, Zenon
<1>4. Len(Pending) = Len(queue) + Len(out) /\ \A j \in 1..Len(queue) : Pending[j] = queue[j]
  BY PendingTypes, Zenon
<1>. QED
  BY <1>2, <1>3, <1>4, Zenon

\* The first message is taken, and what its handler sends comes last.
LEMMA PendingTaken ==
    ASSUME TypeOK, queue # <<>>, out = <<>>, NEW sent \in Seq(Message),
           queue' = Tail(queue), out' = sent
    PROVE  /\ Carried(Pending, Pending', 2, {sent[k] : k \in 1..Len(sent)})
           /\ Pending = queue /\ Len(queue) \in Nat \ {0} /\ queue[1] = Head(queue)
           /\ Len(Pending') = Len(queue) - 1 + Len(sent)
           /\ \A j \in 1..(Len(queue) - 1) : Pending'[j] = queue[j + 1]
           /\ \A j \in 1..Len(sent) : Pending'[Len(queue) - 1 + j] = sent[j]
<1>1. queue \in Seq(Message)
  BY Zenon DEF TypeOK
<1>2. Pending = queue /\ Pending' = Tail(queue) \o sent
  BY <1>1, ConcatEmptySeq, Zenon DEF Pending
<1>. QED
  BY <1>1, <1>2, CarriedTaken, Zenon
-----------------------------------------------------------------------------
(***************************************************************************)
(* What handling an AdvanceScenario comes to: the tests in S are skipped,  *)
(* the object becomes `new', and the run goes on to a test, to a support   *)
(* command or to its end.                                                  *)
(***************************************************************************)
Before(S) == StopLastTest(Recorded) \o SkipMessages(S)

GoesToTest(S, new) ==
    /\ new.state = "Running" /\ Recorded.state \in {"Idle", "PreStart", "Running"}
    /\ new.step \in 1..TestCount(Desc(current)) /\ new.step > LastStepLeft(Recorded)
    /\ Handled(Before(S) \o <<StartTest(Desc(current).test_sequence[new.step])>>)
    /\ UNCHANGED support

GoesToCommand(S, new) ==
    /\ new.state \in {"PreStart", "PostSuccess", "PostFailure"}
    /\ new.state = "PreStart" => Recorded.state = "Idle"
    /\ RunSupportCommand(Before(S))

GoesToEnd(S, new) ==
    /\ new.state = "ScenarioFinished"
    /\ Handled(Before(S) \o StopMessages(current) \o <<ScenarioFinished(current, FinishCode(new))>>)
    /\ UNCHANGED support

SkipsAndKeeps(S, new) ==
    /\ S \subseteq Test /\ \A t \in S : Recorded.test_states[t] = "Pending"
    /\ new \in ScenarioObject
    /\ \A t \in Test : new.test_states[t] = IF t \in S THEN "Skip" ELSE Recorded.test_states[t]
    /\ new.exec_start_state = Recorded.exec_start_state /\ new.failures = Recorded.failures

AdvancedTo(S, new) ==
    /\ SkipsAndKeeps(S, new)
    /\ scenario' = [scenario EXCEPT ![current] = new]
    /\ UNCHANGED <<managerVars, testVars, viewVars>>
    /\ GoesToTest(S, new) \/ GoesToCommand(S, new) \/ GoesToEnd(S, new)

\* Without a test to stop and tests to skip nothing is sent before.
LEMMA NothingBefore ==
    ASSUME Recorded.state # "Running"
    PROVE  Before({}) = <<>>
<1>1. StopLastTest(Recorded) = <<>> /\ SkipMessages({}) = <<>>
  BY Zenon DEF StopLastTest, SkipMessages
<1>. QED
  BY <1>1, ConcatEmptySeq, EmptySeq, Zenon DEF Before

\* Handling an AdvanceScenario without a panic is one of these.
LEMMA AdvanceOutcome ==
    ASSUME Known, HandleAdvanceScenario, ~Panic("index"), ~Panic("duration")
    PROVE  \E S, new : AdvancedTo(S, new)
<1>. DEFINE o == Recorded
            d == Desc(current)
<1>1. TypeOK /\ Handling("AdvanceScenario") /\ current # None
  BY Zenon DEF Known, HandleAdvanceScenario
<1>2. current \in Scenario /\ o \in ScenarioObject
  BY <1>1, AdvanceTypes, Zenon DEF Known
<1>3. /\ TestCount(d) \in Nat /\ \A k \in 1..TestCount(d) : d.test_sequence[k] \in Test
  BY <1>1, <1>2, LibraryTypes, Zenon
<1>5. /\ o.step \in Nat /\ o.test_states \in [Test -> TestState] /\ o.timed_out \in BOOLEAN
      /\ LastStepLeft(o) \in Nat
  BY <1>2, Zenon DEF ScenarioObject, LastStepLeft
<1>. HIDE DEF o, d
<1>6. CASE AdvanceToExecStart(o)
  <2>. DEFINE new == [o EXCEPT !.state = "PreStart"]
  <2>1. /\ new \in ScenarioObject /\ new.state = "PreStart" /\ new.test_states = o.test_states
        /\ new.exec_start_state = o.exec_start_state /\ new.failures = o.failures
    BY <1>2, Zenon DEF ScenarioObject, Phase
  <2>2. /\ scenario' = [scenario EXCEPT ![current] = new] /\ UNCHANGED <<managerVars, testVars, viewVars>>
        /\ RunSupportCommand(<<>>) /\ o.state = "Idle"
    BY <1>6, Zenon DEF AdvanceToExecStart
  <2>. HIDE DEF new
  <2>3. SkipsAndKeeps({}, new)
    BY <2>1, Zenon DEF SkipsAndKeeps, o
  <2>4. Before({}) = <<>>
    BY <2>2, NothingBefore, Zenon DEF o
  <2>5. GoesToCommand({}, new)
    BY <2>1, <2>2, <2>4, Zenon DEF GoesToCommand, o
  <2>6. AdvancedTo({}, new)
    BY <2>2, <2>3, <2>5, Zenon DEF AdvancedTo
  <2>. QED
    BY <2>6, Zenon
<1>7. CASE AdvanceToEnd(o)
  <2>. DEFINE new == [o EXCEPT !.state = "ScenarioFinished"]
  <2>1. /\ new \in ScenarioObject /\ new.state = "ScenarioFinished" /\ new.test_states = o.test_states
        /\ new.exec_start_state = o.exec_start_state /\ new.failures = o.failures
    BY <1>2, Zenon DEF ScenarioObject, Phase
  <2>2. /\ scenario' = [scenario EXCEPT ![current] = new] /\ UNCHANGED <<managerVars, testVars, viewVars>>
        /\ Handled(<<>> \o StopMessages(current) \o <<ScenarioFinished(current, FinishCode(o))>>)
        /\ UNCHANGED support /\ o.state # "Running"
    BY <1>7, Zenon DEF AdvanceToEnd, Finish
  <2>. HIDE DEF new
  <2>3. SkipsAndKeeps({}, new)
    BY <2>1, Zenon DEF SkipsAndKeeps, o
  <2>4. Before({}) = <<>>
    BY <2>2, NothingBefore, Zenon DEF o
  <2>5. FinishCode(new) = FinishCode(o)
    BY <2>1, Zenon DEF FinishCode
  <2>6. GoesToEnd({}, new)
    BY <2>1, <2>2, <2>4, <2>5, Zenon DEF GoesToEnd
  <2>7. AdvancedTo({}, new)
    BY <2>2, <2>3, <2>6, Zenon DEF AdvancedTo
  <2>. QED
    BY <2>7, Zenon
<1>8. ASSUME NEW late \in LateSteps(d, o), AdvancePastTests(o, late)
      PROVE  \E S, new : AdvancedTo(S, new)
  <2>. DEFINE S == SkippedBefore(d, T, o, late, TestCount(d) + 1)
              timed == Skipping(o, S).timed_out \/ \E k \in StepsTried(d, o) : k >= late
              over == [Skipping(o, S) EXCEPT !.timed_out = timed]
              post == [over EXCEPT !.state = PostPhase(d, o)]
              end == [over EXCEPT !.state = "ScenarioFinished"]
  <2>1. S \subseteq Test /\ \A t \in S : o.test_states[t] = "Pending"
    <3>1. S \subseteq Test
      BY <1>2, <1>3, SkippedType, Zenon
    <3>2. \A t \in S : o.test_states[t] = "Pending"
      BY SkippedPending
    <3>. QED
      BY <3>1, <3>2, Zenon
  <2>2. \/ /\ scenario' = [scenario EXCEPT ![current] = post]
           /\ RunSupportCommand(Before(S))
        \/ /\ scenario' = [scenario EXCEPT ![current] = end]
           /\ Handled(Before(S) \o StopMessages(current) \o <<ScenarioFinished(current, FinishCode(over))>>)
           /\ UNCHANGED support
    BY <1>8, Zenon DEF AdvancePastTests, Finish, Before, d, o
  <2>3. UNCHANGED <<managerVars, testVars, viewVars>>
    BY <1>8, Zenon DEF AdvancePastTests
  <2>4. timed \in BOOLEAN /\ PostPhase(d, o) \in {"PostSuccess", "PostFailure"}
    BY Zenon DEF PostPhase
  <2>. HIDE DEF S, timed
  <2>5. /\ Skipping(o, S) \in ScenarioObject
        /\ Skipping(o, S).failures = o.failures /\ Skipping(o, S).exec_start_state = o.exec_start_state
        /\ \A t \in Test : Skipping(o, S).test_states[t] = IF t \in S THEN "Skip" ELSE o.test_states[t]
    BY <1>2, SkippingFields
  <2>6. /\ over \in ScenarioObject /\ over.failures = Skipping(o, S).failures
        /\ over.exec_start_state = Skipping(o, S).exec_start_state
        /\ over.test_states = Skipping(o, S).test_states
    BY <2>4, <2>5, Zenon DEF ScenarioObject
  <2>. HIDE DEF over
  <2>7. ASSUME NEW phase \in {"PostSuccess", "PostFailure", "ScenarioFinished"},
               NEW new, new = [over EXCEPT !.state = phase]
        PROVE  SkipsAndKeeps(S, new) /\ new.state = phase /\ FinishCode(new) = FinishCode(over)
    <3>1. /\ new \in ScenarioObject /\ new.state = phase /\ new.test_states = over.test_states
          /\ new.exec_start_state = over.exec_start_state /\ new.failures = over.failures
      BY <2>6, <2>7, Zenon DEF ScenarioObject, Phase
    <3>. QED
      BY <2>1, <2>5, <2>6, <3>1, Zenon DEF SkipsAndKeeps, FinishCode, o
  <2>8. SkipsAndKeeps(S, post) /\ post.state \in {"PostSuccess", "PostFailure"}
    BY <2>4, <2>7, Zenon
  <2>9. SkipsAndKeeps(S, end) /\ end.state = "ScenarioFinished" /\ FinishCode(end) = FinishCode(over)
    BY <2>7, Zenon
  <2>. HIDE DEF post, end
  <2>10. AdvancedTo(S, post) \/ AdvancedTo(S, end)
    BY <2>2, <2>3, <2>8, <2>9, Zenon DEF AdvancedTo, GoesToCommand, GoesToEnd
  <2>. QED
    BY <2>10, Zenon
<1>9. ASSUME NEW late \in LateSteps(d, o), NEW next \in 1..TestCount(d), AdvanceToTest(o, late, next)
      PROVE  \E S, new : AdvancedTo(S, new)
  <2>. DEFINE S == SkippedBefore(d, T, o, late, next)
              new == [Skipping(o, S) EXCEPT !.state = "Running", !.step = next]
  <2>1. S \subseteq Test /\ \A t \in S : o.test_states[t] = "Pending"
    <3>1. S \subseteq Test
      BY <1>2, <1>3, SkippedType, Zenon
    <3>2. \A t \in S : o.test_states[t] = "Pending"
      BY SkippedPending
    <3>. QED
      BY <3>1, <3>2, Zenon
  <2>2. /\ scenario' = [scenario EXCEPT ![current] = new]
        /\ Handled(Before(S) \o <<StartTest(d.test_sequence[next])>>)
        /\ UNCHANGED <<managerVars, testVars, support, viewVars>>
    BY <1>9, Zenon DEF AdvanceToTest, Before, d, o
  <2>3. next > LastStepLeft(o) /\ o.state \in {"Idle", "PreStart", "Running"}
    BY <1>3, <1>5, <1>9, SMTT(30) DEF AdvanceToTest, StepsOkay, StepsTried, LeavesForTests, d
  <2>. HIDE DEF S
  <2>4. /\ Skipping(o, S) \in ScenarioObject
        /\ Skipping(o, S).failures = o.failures /\ Skipping(o, S).exec_start_state = o.exec_start_state
        /\ \A t \in Test : Skipping(o, S).test_states[t] = IF t \in S THEN "Skip" ELSE o.test_states[t]
    BY <1>2, SkippingFields
  <2>5. /\ new \in ScenarioObject /\ new.state = "Running" /\ new.step = next
        /\ new.failures = Skipping(o, S).failures
        /\ new.exec_start_state = Skipping(o, S).exec_start_state
        /\ new.test_states = Skipping(o, S).test_states
    <3>. DEFINE sk == Skipping(o, S)
    <3>1. sk \in ScenarioObject /\ next \in Nat
      BY <1>3, <2>4
    <3>. HIDE DEF sk
    <3>2. LET n == [sk EXCEPT !.state = "Running", !.step = next]
          IN  /\ n \in ScenarioObject /\ n.state = "Running" /\ n.step = next
              /\ n.failures = sk.failures /\ n.exec_start_state = sk.exec_start_state
              /\ n.test_states = sk.test_states
      BY <3>1, Zenon DEF ScenarioObject, Phase
    <3>. QED
      BY <3>2, Zenon DEF sk
  <2>. HIDE DEF new
  <2>6. SkipsAndKeeps(S, new)
    BY <2>1, <2>4, <2>5, Zenon DEF SkipsAndKeeps, o
  <2>7. GoesToTest(S, new)
    BY <2>2, <2>3, <2>5, Zenon DEF GoesToTest, o, d
  <2>8. AdvancedTo(S, new)
    BY <2>2, <2>6, <2>7, Zenon DEF AdvancedTo
  <2>. QED
    BY <2>8, Zenon
<1>10. ~AdvanceWithoutTests(o)
  BY Zenon DEF AdvanceWithoutTests
<1>. QED
  BY <1>6, <1>7, <1>8, <1>9, <1>10, Zenon DEF HandleAdvanceScenario, o, d

\* What is sent before: the StopTest of a test, and the skips.
LEMMA BeforeFacts ==
    ASSUME Known, Handling("AdvanceScenario"), current # None, NEW S \in SUBSET Test
    PROVE  /\ Before(S) \in Seq({StopTest(t) : t \in Test} \cup {Skip(S)})
           /\ Before(S) \in Seq(RunMessage)
           /\ S # {} => \E j \in 1..Len(Before(S)) : Before(S)[j] = Skip(S)
<1>. DEFINE M == {StopTest(t) : t \in Test} \cup {Skip(S)}
<1>1. current \in Scenario /\ TypeOK
  BY Zenon DEF Known, TypeOK
<1>2. /\ Recorded.state = "Running" => Recorded.step \in 1..TestCount(Desc(current))
  BY <1>1, AdvanceTypes, Zenon DEF Known, StepInRange
<1>3. StopLastTest(Recorded) \in Seq(M)
  <2>1. CASE Recorded.state = "Running"
    <3>1. Desc(current).test_sequence[Recorded.step] \in Test
      BY <1>1, <1>2, <2>1, LibraryTypes, Zenon
    <3>2. StopTest(Desc(current).test_sequence[Recorded.step]) \in M
      BY <3>1, Zenon
    <3>. HIDE DEF M
    <3>. QED
      BY <3>2, EmptySeq DEF StopLastTest
  <2>2. CASE Recorded.state # "Running"
    BY <2>2, EmptySeq, Zenon DEF StopLastTest
  <2>. QED
    BY <2>1, <2>2, Zenon
<1>4. SkipMessages(S) \in Seq(M)
  <2>1. Skip(S) \in M
    BY Zenon
  <2>. HIDE DEF M
  <2>. QED
    BY <2>1, EmptySeq DEF SkipMessages
<1>5. Before(S) \in Seq(M)
  <2>. HIDE DEF M
  <2>. QED
    BY <1>3, <1>4, ConcatProperties, Zenon DEF Before
<1>6. M \subseteq RunMessage
  BY RunMessages, Zenon DEF Unit
<1>7. Before(S) \in Seq(RunMessage)
  <2>. HIDE DEF M
  <2>. QED
    BY <1>5, <1>6, SeqMonotonic, Zenon
<1>8. ASSUME S # {} PROVE \E j \in 1..Len(Before(S)) : Before(S)[j] = Skip(S)
  <2>. DEFINE stop == StopLastTest(Recorded)
              skip == SkipMessages(S)
  <2>1. skip = <<Skip(S)>>
    BY <1>8, Zenon DEF SkipMessages
  <2>2. Len(skip) = 1 /\ skip[1] = Skip(S) /\ Len(stop) \in Nat
    BY <1>3, <2>1, LenProperties, SMTT(30)
  <2>. HIDE DEF M, stop, skip
  <2>3. /\ Len(stop \o skip) = Len(stop) + 1
        /\ (stop \o skip)[Len(stop) + 1] = Skip(S)
    BY <1>3, <1>4, <2>2, ConcatProperties DEF stop, skip
  <2>. QED
    BY <2>2, <2>3 DEF Before, stop, skip
<1>. QED
  BY <1>5, <1>7, <1>8, Zenon

\* What finish_scenario sends: the tests are stopped, then the scenario.
LEMMA StopMessagesFacts ==
    ASSUME TypeOK, NEW s \in Scenario
    PROVE  LET n == TestCount(Desc(s)) IN
           /\ n \in Nat
           /\ StopMessages(s) \in Seq(RunMessage) /\ Len(StopMessages(s)) = n + 1
           /\ \A k \in 1..n : StopMessages(s)[k] = StopTest(Desc(s).test_sequence[k])
           /\ StopMessages(s)[n + 1] = StopTest(s)
<1>. DEFINE n == TestCount(Desc(s))
            stops == [k \in 1..n |-> StopTest(Desc(s).test_sequence[k])]
            last == <<StopTest(s)>>
<1>1. n \in Nat /\ \A k \in 1..n : Desc(s).test_sequence[k] \in Test
  BY LibraryTypes, Zenon
<1>2. stops \in [1..n -> RunMessage]
  BY <1>1, RunMessages, Zenon DEF Unit
<1>3. stops \in Seq(RunMessage) /\ Len(stops) = n
  <2>. HIDE DEF stops, n
  <2>1. stops \in Seq(RunMessage)
    BY <1>1, <1>2, SeqOfFunction, Zenon
  <2>2. DOMAIN stops = 1..n /\ DOMAIN stops = 1..Len(stops) /\ Len(stops) \in Nat
    BY <1>2, <2>1, LenProperties, Zenon
  <2>. QED
    BY <1>1, <2>1, <2>2
<1>4. last \in Seq(RunMessage) /\ Len(last) = 1 /\ last[1] = StopTest(s)
  BY RunMessages DEF Unit
<1>5. \A k \in 1..n : stops[k] = StopTest(Desc(s).test_sequence[k])
  BY Zenon
<1>6. StopMessages(s) = stops \o last
  BY Zenon DEF StopMessages
<1>. HIDE DEF stops, last, n
<1>7. /\ stops \o last \in Seq(RunMessage) /\ Len(stops \o last) = n + 1
      /\ \A i \in 1..(n + 1) : (stops \o last)[i] = IF i <= n THEN stops[i] ELSE last[i - n]
  <2>1. /\ stops \o last \in Seq(RunMessage) /\ Len(stops \o last) = Len(stops) + Len(last)
        /\ \A i \in 1..Len(stops) + Len(last) :
              (stops \o last)[i] = IF i <= Len(stops) THEN stops[i] ELSE last[i - Len(stops)]
    BY <1>3, <1>4, ConcatProperties, Zenon
  <2>. QED
    BY <1>3, <1>4, <2>1, Zenon
<1>8. /\ \A k \in 1..n : StopMessages(s)[k] = StopTest(Desc(s).test_sequence[k])
      /\ StopMessages(s)[n + 1] = StopTest(s)
  BY <1>1, <1>4, <1>5, <1>6, <1>7, SMTT(30)
<1>. QED
  BY <1>1, <1>6, <1>7, <1>8, Zenon DEF n

\* What is sent before the next driver does not drive.
LEMMA BeforeDrivesNothing ==
    ASSUME Known, current \in Scenario, Handling("AdvanceScenario"), NEW S \in SUBSET Test
    PROVE  /\ Before(S) \in Seq(Message) /\ Len(Before(S)) \in Nat
           /\ \A j \in 1..Len(Before(S)) : ~Drives(Before(S)[j])
<1>. DEFINE M == {StopTest(t) : t \in Test} \cup {Skip(S)}
<1>1. current \in Scenario /\ current # None /\ current \notin Test
  BY RunAssumption DEF Unit
<1>2. Before(S) \in Seq(M) /\ Before(S) \in Seq(RunMessage)
  BY <1>1, BeforeFacts, Zenon
<1>3. \A m \in M : ~Drives(m)
  BY <1>1 DEF Drives, StopTest, Skip
<1>4. RunMessage \subseteq Message
  BY Zenon DEF RunMessage
<1>. HIDE DEF M
<1>5. Before(S) \in Seq(Message)
  BY <1>2, <1>4, SeqMonotonic, Zenon
<1>. QED
  BY <1>2, <1>3, <1>5, LenProperties, Zenon

\* A sequence with one more element.
LEMMA OneMore ==
    ASSUME NEW X, NEW s \in Seq(X), NEW m \in X
    PROVE  /\ s \o <<m>> \in Seq(X) /\ Len(s \o <<m>>) = Len(s) + 1 /\ Len(s) \in Nat
           /\ (s \o <<m>>)[Len(s) + 1] = m
           /\ \A j \in 1..Len(s) : (s \o <<m>>)[j] = s[j]
           /\ \A j \in 1..Len(s \o <<m>>) : j \in 1..Len(s) \/ j = Len(s) + 1
<1>1. s \o <<m>> = Append(s, m)
  BY AppendIsConcat, Zenon
<1>2. /\ Append(s, m) \in Seq(X) /\ Len(Append(s, m)) = Len(s) + 1 /\ Len(s) \in Nat
      /\ Append(s, m)[Len(s) + 1] = m
      /\ \A j \in 1..Len(s) : Append(s, m)[j] = s[j]
  BY AppendProperties, LenProperties
<1>3. \A j \in 1..(Len(s) + 1) : j \in 1..Len(s) \/ j = Len(s) + 1
  BY <1>2
<1>. QED
  BY <1>1, <1>2, <1>3, Zenon

\* The places of what is sent at the end of a run.
EndPlaces(b, stops, n, f, sent) ==
    /\ sent \in Seq(Message) /\ Len(b) \in Nat /\ Len(sent) = Len(b) + n + 2
    /\ \A j \in 1..Len(b) : sent[j] = b[j]
    /\ \A j \in 1..(n + 1) : sent[Len(b) + j] = stops[j]
    /\ sent[Len(b) + n + 2] = f
    /\ \A j \in 1..Len(sent) : \/ j \in 1..Len(b)
                               \/ \E k \in 1..(n + 1) : j = Len(b) + k
                               \/ j = Len(b) + n + 2

\* What is sent before, the StopTest messages and the code are in these places.
LEMMA EndSent ==
    ASSUME NEW b \in Seq(Message), NEW stops \in Seq(Message), NEW n \in Nat, Len(stops) = n + 1,
           NEW f \in Message
    PROVE  EndPlaces(b, stops, n, f, b \o stops \o <<f>>)
<1>. DEFINE bs == b \o stops
            sent == bs \o <<f>>
<1>1. Len(b) \in Nat
  BY LenProperties, Zenon
<1>2. /\ bs \in Seq(Message) /\ Len(bs) = Len(b) + Len(stops)
      /\ \A i \in 1..Len(b) + Len(stops) : bs[i] = IF i <= Len(b) THEN b[i] ELSE stops[i - Len(b)]
  BY ConcatProperties, Zenon
<1>. HIDE DEF bs
<1>3. /\ sent \in Seq(Message) /\ Len(sent) = Len(bs) + 1 /\ sent[Len(bs) + 1] = f
      /\ \A j \in 1..Len(bs) : sent[j] = bs[j]
  BY <1>2, OneMore
<1>. HIDE DEF sent
<1>4. Len(bs) = Len(b) + n + 1 /\ Len(sent) = Len(b) + n + 2 /\ sent[Len(b) + n + 2] = f
  BY <1>1, <1>2, <1>3
<1>5. ASSUME NEW j \in 1..Len(b) PROVE sent[j] = b[j]
  <2>1. j \in 1..Len(b) + Len(stops) /\ j <= Len(b) /\ j \in 1..Len(bs)
    BY <1>1, <1>4
  <2>. QED
    BY <1>2, <1>3, <2>1, Zenon
<1>6. ASSUME NEW j \in 1..(n + 1) PROVE sent[Len(b) + j] = stops[j]
  <2>1. /\ Len(b) + j \in 1..Len(b) + Len(stops) /\ ~(Len(b) + j <= Len(b))
        /\ Len(b) + j \in 1..Len(bs) /\ Len(b) + j - Len(b) = j
    BY <1>1, <1>4
  <2>2. bs[Len(b) + j] = stops[Len(b) + j - Len(b)]
    BY <1>2, <2>1
  <2>. QED
    BY <1>3, <2>1, <2>2, Zenon
<1>7. ASSUME NEW j \in 1..Len(sent)
      PROVE  j \in 1..Len(b) \/ (\E k \in 1..(n + 1) : j = Len(b) + k) \/ j = Len(b) + n + 2
  <2>1. j \notin 1..Len(b) /\ j # Len(b) + n + 2 => j - Len(b) \in 1..(n + 1) /\ j = Len(b) + (j - Len(b))
    BY <1>1, <1>4
  <2>. QED
    BY <2>1, Zenon
<1>. QED
  BY <1>1, <1>3, <1>4, <1>5, <1>6, <1>7, Zenon DEF EndPlaces, sent, bs

\* All that is told by an advancing scenario is which tests it skips, and it is stopped
\* before it is finished.
TellsSkips(S, sent) ==
    /\ sent \in Seq(Message)
    /\ \A k \in 1..Len(sent) :
          \/ sent[k] = Skip(S)
          \/ sent[k].what \in {"StopTest", "StartTest", "ScenarioFinished"}
          \/ sent[k].what = "AdvanceScenario" /\ sent[k].from = current
    /\ \A k \in 1..Len(sent) :
          sent[k].what = "ScenarioFinished" => \E j \in 1..(k - 1) : sent[j] = StopTest(current)
    /\ S # {} => \E k \in 1..Len(sent) : sent[k] = Skip(S)

\* Whatever it goes to.
LEMMA AdvanceTells ==
    ASSUME Known, current \in Scenario, Handling("AdvanceScenario"), NEW S, NEW new, AdvancedTo(S, new)
    PROVE  \E sent : Handled(sent) /\ TellsSkips(S, sent)
<1>. DEFINE b == Before(S)
            d == Desc(current)
            n == TestCount(d)
<1>1. /\ TypeOK /\ current \in Scenario /\ current # None /\ S \in SUBSET Test
      /\ GoesToTest(S, new) \/ GoesToCommand(S, new) \/ GoesToEnd(S, new)
  BY RunAssumption DEF Known, AdvancedTo, SkipsAndKeeps, Unit
<1>2. /\ b \in Seq({StopTest(t) : t \in Test} \cup {Skip(S)})
      /\ S # {} => \E j \in 1..Len(b) : b[j] = Skip(S)
  BY <1>1, BeforeFacts, Zenon
<1>3. b \in Seq(Message) /\ Len(b) \in Nat
  BY <1>1, BeforeDrivesNothing, Zenon
<1>4. \A j \in 1..Len(b) : b[j] = Skip(S) \/ b[j].what = "StopTest"
  <2>1. \A j \in 1..Len(b) : b[j] \in {StopTest(t) : t \in Test} \cup {Skip(S)}
    BY <1>2, ElementOfSeq, Zenon
  <2>. QED
    BY <2>1 DEF StopTest
<1>. HIDE DEF b
<1>9. \A j \in 1..Len(b) : b[j].what # "ScenarioFinished"
  BY <1>4 DEF Skip
<1>5. ASSUME NEW m \in Message,
             m.what = "StartTest" \/ (m.what = "AdvanceScenario" /\ m.from = current)
      PROVE  TellsSkips(S, b \o <<m>>)
  <2>. DEFINE sent == b \o <<m>>
  <2>1. /\ sent \in Seq(Message) /\ Len(sent) = Len(b) + 1
        /\ sent[Len(b) + 1] = m
        /\ \A j \in 1..Len(b) : sent[j] = b[j]
        /\ \A j \in 1..Len(sent) : j \in 1..Len(b) \/ j = Len(b) + 1
    BY <1>3, OneMore
  <2>. HIDE DEF sent
  <2>2. \A k \in 1..Len(sent) :
           \/ sent[k] = Skip(S)
           \/ sent[k].what \in {"StopTest", "StartTest", "ScenarioFinished"}
           \/ sent[k].what = "AdvanceScenario" /\ sent[k].from = current
    BY <1>4, <1>5, <2>1, Zenon
  <2>3. \A j \in 1..Len(b) : j \in 1..Len(sent)
    BY <1>3, <2>1
  <2>4. S # {} => \E k \in 1..Len(sent) : sent[k] = Skip(S)
    BY <1>2, <2>1, <2>3, Zenon
  <2>6. \A k \in 1..Len(sent) : sent[k].what # "ScenarioFinished"
    BY <1>5, <1>9, <2>1, Zenon
  <2>5. TellsSkips(S, sent)
    BY <2>1, <2>2, <2>4, <2>6, Zenon DEF TellsSkips
  <2>. QED
    BY <2>5, Zenon DEF sent
<1>6. CASE GoesToTest(S, new)
  <2>. DEFINE m == StartTest(d.test_sequence[new.step])
  <2>1. new.step \in 1..n /\ Handled(b \o <<m>>)
    BY <1>6, Zenon DEF GoesToTest, b
  <2>2. d.test_sequence[new.step] \in Test
    BY <1>1, <2>1, LibraryTypes, Zenon
  <2>3. m \in Message /\ m.what = "StartTest"
    BY <2>2, MessageTypes, Zenon DEF StartTest
  <2>. HIDE DEF m
  <2>4. TellsSkips(S, b \o <<m>>)
    BY <1>5, <2>3, Zenon
  <2>. QED
    BY <2>1, <2>4, Zenon
<1>7. CASE GoesToCommand(S, new)
  <2>. DEFINE m == AdvanceScenario(current, 1)
  <2>1. Handled(b) \/ Handled(Append(b, m))
    BY <1>7, Zenon DEF GoesToCommand, RunSupportCommand, b
  <2>2. m \in Message /\ m.what = "AdvanceScenario" /\ m.from = current
    BY <1>1, MessageTypes, Zenon DEF AdvanceScenario, Unit, Result
  <2>. HIDE DEF m
  <2>3. Append(b, m) = b \o <<m>>
    BY <1>3, <2>2, AppendIsConcat, Zenon
  <2>4. TellsSkips(S, b)
    BY <1>2, <1>3, <1>4, <1>9, Zenon DEF TellsSkips
  <2>. QED
    BY <1>5, <2>1, <2>2, <2>3, <2>4, Zenon
<1>8. CASE GoesToEnd(S, new)
  <2>. DEFINE stops == StopMessages(current)
              f == ScenarioFinished(current, FinishCode(new))
              sent == b \o stops \o <<f>>
  <2>1. Handled(sent)
    BY <1>8, Zenon DEF GoesToEnd, b
  <2>2. /\ n \in Nat /\ stops \in Seq(RunMessage) /\ Len(stops) = n + 1
        /\ \A k \in 1..n : stops[k] = StopTest(d.test_sequence[k])
        /\ stops[n + 1] = StopTest(current)
    BY <1>1, StopMessagesFacts, Zenon
  <2>3. f \in Message /\ f.what = "ScenarioFinished"
    <3>1. new.failures \in Nat
      BY Zenon DEF AdvancedTo, SkipsAndKeeps, ScenarioObject
    <3>2. FinishCode(new) \in Nat
      BY <3>1, SMTT(30) DEF FinishCode
    <3>. QED
      BY <1>1, <3>2, MessageTypes, Zenon DEF ScenarioFinished
  <2>4. stops \in Seq(Message)
    <3>1. RunMessage \subseteq Message
      BY Zenon DEF RunMessage
    <3>. QED
      BY <2>2, <3>1
  <2>5. \A k \in 1..(n + 1) : stops[k].what = "StopTest"
    <3>1. \A k \in 1..(n + 1) : k \in 1..n \/ k = n + 1
      BY <2>2
    <3>2. \A u : StopTest(u).what = "StopTest"
      BY Zenon DEF StopTest
    <3>. HIDE DEF stops, n
    <3>. QED
      BY <2>2, <3>1, <3>2, Zenon
  <2>. HIDE DEF stops, f, n
  <2>6. EndPlaces(b, stops, n, f, sent)
    BY <1>3, <2>2, <2>3, <2>4, EndSent, Zenon
  <2>. HIDE DEF sent
  <2>7. ASSUME NEW k \in 1..Len(sent)
        PROVE  sent[k] = Skip(S) \/ sent[k].what \in {"StopTest", "StartTest", "ScenarioFinished"}
    <3>1. CASE k \in 1..Len(b)
      BY <1>4, <2>6, <3>1, Zenon DEF EndPlaces
    <3>2. CASE \E j \in 1..(n + 1) : k = Len(b) + j
      BY <2>5, <2>6, <3>2, Zenon DEF EndPlaces
    <3>3. CASE k = Len(b) + n + 2
      BY <2>3, <2>6, <3>3, Zenon DEF EndPlaces
    <3>. QED
      BY <2>6, <3>1, <3>2, <3>3, Zenon DEF EndPlaces
  <2>8. \A j \in 1..Len(b) : j \in 1..Len(sent) /\ sent[j] = b[j]
    BY <1>3, <2>2, <2>6 DEF EndPlaces
  <2>9. S # {} => \E k \in 1..Len(sent) : sent[k] = Skip(S)
    BY <1>2, <2>8, Zenon
  <2>10. sent \in Seq(Message)
    BY <2>6, Zenon DEF EndPlaces
  <2>12. ASSUME NEW k \in 1..Len(sent), sent[k].what = "ScenarioFinished"
         PROVE  \E j \in 1..(k - 1) : sent[j] = StopTest(current)
    <3>1. ~(k \in 1..Len(b))
      BY <1>9, <2>8, <2>12, Zenon
    <3>2. ~(\E j \in 1..(n + 1) : k = Len(b) + j)
      BY <2>5, <2>6, <2>12, Zenon DEF EndPlaces
    <3>3. k = Len(b) + n + 2
      BY <2>6, <3>1, <3>2, Zenon DEF EndPlaces
    <3>4. Len(b) + (n + 1) \in 1..(k - 1) /\ n + 1 \in 1..(n + 1)
      BY <1>3, <2>2, <3>3
    <3>5. sent[Len(b) + (n + 1)] = StopTest(current)
      BY <2>2, <2>6, <3>4, Zenon DEF EndPlaces
    <3>. QED
      BY <3>4, <3>5, Zenon
  <2>11. TellsSkips(S, sent)
    BY <2>7, <2>9, <2>10, <2>12, Zenon DEF TellsSkips
  <2>. QED
    BY <2>1, <2>11, Zenon
<1>. QED
  BY <1>1, <1>6, <1>7, <1>8, Zenon

\* What is known of every state, and of every step to come.
LEMMA KnownInvariant == Spec => []Known
<1>1. TypeOK /\ StepInRange /\ VerdictInv /\ OneScenario => Known
  BY Zenon DEF Known
<1>. QED
  BY <1>1, TypeCorrect, VerdictInvariant, ManagerKeepsOneScenario, PTL
-----------------------------------------------------------------------------
(***************************************************************************)
(* What the first request can lead to, however many scenarios there are.   *)
(***************************************************************************)
Asked == {"StartScenario", "Scenario", "Rescan"}

\* No request has been handled yet, and nothing else can be.
Untouched ==
    /\ threads = {} /\ \A s \in Scenario : support[s] = 0
    /\ out = <<>> /\ Len(queue) = requests
    /\ \A i \in 1..Len(queue) : queue[i].what \in Asked

\* No other request follows, and a scenario that is finished is stopped before that is
\* handled.
EndsInOrder ==
    /\ requests = 1
    /\ \A i \in 1..Len(Pending) :
          /\ Pending[i].what \notin Asked
          /\ Pending[i].what = "ScenarioFinished" =>
                /\ current # None
                /\ current \in active => \E j \in 1..(i - 1) : Pending[j] = StopTest(current)

FirstRun == Alive /\ requests <= 1 => Untouched \/ EndsInOrder

\* Messages that are neither requests nor the end of a scenario.
Plain == {m \in Message : m.what \notin Asked \cup {"ScenarioFinished"}}

\* A borrow or an unwrap that panics (unitmanager.rs:739-760) takes a second request: the
\* first one alone, whichever it is and however the messages of the run it starts
\* interleave, never kills the main thread that way.
THEOREM FirstRequestNeverPanics == Spec => []PanicNeedsSecondRequest
\* A message that was there has before it what it had, but for the first if that was taken.
<1>CarriedBefore.
    ASSUME NEW p \in Seq(Message), NEW q \in Seq(Message), NEW first \in {1, 2}, NEW new,
           Carried(p, q, first, new), NEW j \in 1..Len(q)
    PROVE  \/ q[j] \in new
           \/ \E i \in first..Len(p) :
                 /\ q[j] = p[i]
                 /\ \A h \in first..(i - 1) : \E k \in 1..(j - 1) : q[k] = p[h]
  <2>. USE <1>CarriedBefore
  <2>1. PICK f \in [1..Len(q) -> Nat] :
           /\ \A k \in 1..Len(q) : f[k] = 0 => q[k] \in new
           /\ \A k \in 1..Len(q) : f[k] # 0 => f[k] \in first..Len(p) /\ q[k] = p[f[k]]
           /\ \A k, l \in 1..Len(q) : k < l /\ f[k] # 0 /\ f[l] # 0 => f[k] < f[l]
           /\ \A i \in first..Len(p) : \E k \in 1..Len(q) : f[k] = i
    BY Zenon DEF Carried
  <2>2. Len(p) \in Nat /\ Len(q) \in Nat
    BY LenProperties, Zenon
  <2>3. SUFFICES ASSUME f[j] # 0
                 PROVE  \A h \in first..(f[j] - 1) : \E k \in 1..(j - 1) : q[k] = p[h]
    BY <2>1, Zenon
  <2>4. f[j] \in first..Len(p) /\ f[j] \in Nat
    BY <2>1, <2>3, Zenon
  <2>. SUFFICES ASSUME NEW h \in first..(f[j] - 1) PROVE \E k \in 1..(j - 1) : q[k] = p[h]
    BY Zenon
  <2>5. h \in first..Len(p) /\ h # 0 /\ h < f[j]
    BY <2>2, <2>4, SMTT(30)
  <2>6. PICK k \in 1..Len(q) : f[k] = h
    BY <2>1, <2>5, Zenon
  <2>7. q[k] = p[h]
    BY <2>1, <2>5, <2>6, Zenon
  <2>8. ~(j < k) /\ j # k
    <3>1. j < k => f[j] < f[k]
      BY <2>1, <2>3, <2>5, <2>6, Zenon
    <3>2. h \in Nat
      BY <2>5, SMTT(30)
    <3>. QED
      BY <2>4, <2>5, <2>6, <3>1, <3>2, SMTT(30)
  <2>9. k \in 1..(j - 1)
    BY <2>2, <2>8
  <2>. QED
    BY <2>7, <2>9, Zenon
\* A thread, a command or the main thread sends: the order is kept.
<1>SentInOrder.
    ASSUME TypeOK, TypeOK', EndsInOrder, NEW new, Carried(Pending, Pending', 1, new),
           \A m \in new : m.what \notin Asked \cup {"ScenarioFinished"},
           UNCHANGED <<current, active, requests>>
    PROVE  EndsInOrder'
  <2>. USE <1>SentInOrder
  <2>. DEFINE p == Pending
              q == Pending'
  <2>1. p \in Seq(Message) /\ q \in Seq(Message)
    BY ConcatProperties, Zenon DEF Pending, TypeOK
  <2>2. ASSUME NEW j \in 1..Len(q)
        PROVE  /\ q[j].what \notin Asked
               /\ q[j].what = "ScenarioFinished" =>
                     /\ current # None
                     /\ current \in active => \E k \in 1..(j - 1) : q[k] = StopTest(current)
    <3>1. \/ q[j] \in new
          \/ \E i \in 1..Len(p) :
                /\ q[j] = p[i]
                /\ \A h \in 1..(i - 1) : \E k \in 1..(j - 1) : q[k] = p[h]
      <4>. HIDE DEF p, q
      <4>1. 1 \in {1, 2} /\ Carried(p, q, 1, new)
        BY Zenon DEF p, q
      <4>. QED
        BY <2>1, <4>1, <1>CarriedBefore, SMTT(30)
    <3>2. CASE q[j] \in new
      BY <3>2, Zenon
    <3>3. ASSUME NEW i \in 1..Len(p), q[j] = p[i],
                 \A h \in 1..(i - 1) : \E k \in 1..(j - 1) : q[k] = p[h]
          PROVE  /\ q[j].what \notin Asked
                 /\ q[j].what = "ScenarioFinished" =>
                       /\ current # None
                       /\ current \in active => \E k \in 1..(j - 1) : q[k] = StopTest(current)
      <4>1. /\ p[i].what \notin Asked
            /\ p[i].what = "ScenarioFinished" =>
                  /\ current # None
                  /\ current \in active => \E h \in 1..(i - 1) : p[h] = StopTest(current)
        BY Zenon DEF EndsInOrder
      <4>. HIDE DEF p, q
      <4>. QED
        BY <3>3, <4>1, Zenon
    <3>. QED
      BY <3>1, <3>2, <3>3, Zenon
  <2>. QED
    BY <2>2, Zenon DEF EndsInOrder
\* A message is handled, and what the handler sends is in order too.
<1>HandledInOrder.
    ASSUME TypeOK, EndsInOrder, out = <<>>, queue # <<>>, NEW sent \in Seq(Message),
           Pending' = Tail(queue) \o sent, UNCHANGED <<current, requests>>,
           current \in active' => current \in active /\ Head(queue) # StopTest(current),
           \A k \in 1..Len(sent) :
              /\ sent[k].what \notin Asked
              /\ sent[k].what = "ScenarioFinished" =>
                    /\ current # None
                    /\ \E j \in 1..(k - 1) : sent[j] = StopTest(current)
    PROVE  EndsInOrder'
  <2>. USE <1>HandledInOrder
  <2>. DEFINE q == Pending'
              n == Len(queue) - 1
  <2>1. /\ Pending = queue /\ queue \in Seq(Message) /\ Len(queue) \in Nat \ {0}
        /\ Tail(queue) \in Seq(Message) /\ Len(Tail(queue)) = n /\ Len(sent) \in Nat
        /\ Head(queue) = queue[1]
    BY ConcatEmptySeq, HeadTailProperties, LenProperties, EmptySeq, SMTT(30) DEF Pending, TypeOK
  <2>2. \A j \in 1..n : Tail(queue)[j] = queue[j + 1]
    BY <2>1, SMTT(30)
  <2>3. /\ Len(q) = Len(Tail(queue)) + Len(sent)
        /\ \A j \in 1..Len(Tail(queue)) + Len(sent) :
              q[j] = IF j <= Len(Tail(queue)) THEN Tail(queue)[j] ELSE sent[j - Len(Tail(queue))]
    BY <2>1, ConcatProperties, SMTT(30)
  <2>4. n \in Nat /\ Len(q) = n + Len(sent)
    BY <2>1, <2>3
  <2>. HIDE DEF q
  <2>5. \A j \in 1..n : q[j] = queue[j + 1]
    <3>1. \A j \in 1..n : j \in 1..Len(Tail(queue)) + Len(sent) /\ j <= Len(Tail(queue))
      BY <2>1, <2>4
    <3>2. \A j \in 1..n : q[j] = Tail(queue)[j]
      BY <2>3, <3>1, Zenon
    <3>. QED
      BY <2>2, <3>2, Zenon
  <2>6. ASSUME NEW k \in 1..Len(sent) PROVE q[n + k] = sent[k] /\ n + k \in 1..Len(q)
    <3>. HIDE DEF n
    <3>1. n + k \in 1..(n + Len(sent)) /\ ~(n + k <= n) /\ (n + k) - n = k
      BY <2>1, <2>4
    <3>. QED
      BY <2>1, <2>3, <2>4, <3>1, Zenon
  <2>7. ASSUME NEW j \in 1..Len(q)
        PROVE  /\ q[j].what \notin Asked
               /\ q[j].what = "ScenarioFinished" =>
                     /\ current # None
                     /\ current \in active' => \E k \in 1..(j - 1) : q[k] = StopTest(current)
    <3>1. CASE j \in 1..n
      <4>1. j + 1 \in 1..Len(queue) /\ q[j] = queue[j + 1]
        BY <2>1, <2>5, <3>1
      <4>2. /\ q[j].what \notin Asked
            /\ q[j].what = "ScenarioFinished" =>
                  /\ current # None
                  /\ current \in active => \E h \in 1..((j + 1) - 1) : queue[h] = StopTest(current)
        BY <2>1, <4>1, Zenon DEF EndsInOrder
      <4>3. ASSUME q[j].what = "ScenarioFinished", current \in active'
            PROVE  \E k \in 1..(j - 1) : q[k] = StopTest(current)
        <5>1. PICK h \in 1..((j + 1) - 1) : queue[h] = StopTest(current)
          BY <4>2, <4>3, Zenon
        <5>2. h # 1
          BY <2>1, <4>3, <5>1, Zenon
        <5>3. h - 1 \in 1..(j - 1) /\ h - 1 \in 1..n /\ (h - 1) + 1 = h
          BY <2>4, <3>1, <5>2
        <5>4. q[h - 1] = queue[h]
          BY <2>5, <5>3, Zenon
        <5>. QED
          BY <5>1, <5>3, <5>4, Zenon
      <4>. QED
        BY <4>2, <4>3, Zenon
    <3>2. CASE j \notin 1..n
      <4>. HIDE DEF n
      <4>1. j - n \in 1..Len(sent) /\ n + (j - n) = j
        BY <2>1, <2>4, <3>2, SMTT(30)
      <4>2. PICK k \in 1..Len(sent) : n + k = j /\ q[j] = sent[k]
        BY <2>6, <4>1, Zenon
      <4>3. ASSUME q[j].what = "ScenarioFinished"
            PROVE  current # None /\ \E l \in 1..(j - 1) : q[l] = StopTest(current)
        <5>1. PICK h \in 1..(k - 1) : sent[h] = StopTest(current)
          BY <4>2, <4>3, Zenon
        <5>2. h \in 1..Len(sent) /\ n + h \in 1..(j - 1)
          BY <2>1, <2>4, <4>2, <5>1, SMTT(30)
        <5>3. q[n + h] = StopTest(current)
          BY <2>6, <5>1, <5>2, Zenon
        <5>. QED
          BY <4>2, <4>3, <5>2, <5>3, Zenon
      <4>. QED
        BY <4>2, <4>3, Zenon
    <3>. QED
      BY <3>1, <3>2, Zenon
  <2>. QED
    BY <2>7, Zenon DEF EndsInOrder, q
\* The messages of tests, of their threads and of a scenario that advances are such.
<1>PlainMessages.
    /\ \A u \in Unit, r \in Result : AdvanceScenario(u, r) \in Plain
    /\ \A S \in SUBSET Test, r \in Result : TestFinished(S, r) \in Plain
    /\ \A t \in Test : TestStarted(t) \in Plain
  BY MessageTypes, Zenon DEF Plain, Asked, AdvanceScenario, TestFinished, TestStarted
\* So are those of send_finished_once and of a switch of scenarios.
<1>PlainReports.
    ASSUME TypeOK
    PROVE  /\ \A t \in Test, r \in Result : FinishedOnce(t, r) \in Seq(Plain)
           /\ StoppedReports \in Seq(Plain)
  <2>. USE <1>PlainReports
  <2>1. ASSUME NEW t \in Test, NEW r \in Result PROVE FinishedOnce(t, r) \in Seq(Plain)
    <3>1. TestFinished({t}, r) \in Plain
      BY <1>PlainMessages, Zenon
    <3>. QED
      BY <3>1, EmptySeq DEF FinishedOnce
  <2>2. StoppedReports \in Seq(Plain)
    <3>1. TestFinished(DaemonsStopped, 0) \in Plain
      BY <1>PlainMessages, Zenon DEF DaemonsStopped, Result
    <3>. QED
      BY <3>1, EmptySeq DEF StoppedReports
  <2>. QED
    BY <2>1, <2>2, Zenon
\* A handler that sends only such messages keeps the order.
<1>PlainInOrder.
    ASSUME TypeOK, EndsInOrder, out = <<>>, queue # <<>>, NEW sent \in Seq(Plain),
           Pending' = Tail(queue) \o sent, UNCHANGED <<current, requests>>,
           current \in active' => current \in active /\ Head(queue) # StopTest(current)
    PROVE  EndsInOrder'
  <2>. USE <1>PlainInOrder
  <2>1. sent \in Seq(Message)
    <3>1. Plain \subseteq Message
      BY Zenon DEF Plain
    <3>. QED
      BY <3>1
  <2>2. \A k \in 1..Len(sent) : sent[k].what \notin Asked /\ sent[k].what # "ScenarioFinished"
    BY ElementOfSeq DEF Plain
  <2>. QED
    BY <2>1, <2>2, <1>HandledInOrder, Zenon
\* activate() for a test: what it adds to the messages on their way.
<1>ActivateTestSends.
    ASSUME TypeOK, out = <<>>, queue # <<>>, NEW t \in Test, ActivateTest(t)
    PROVE  /\ \E sent \in Seq(Plain) : Pending' = Tail(queue) \o sent
           /\ active' \subseteq active \cup {t}
           /\ UNCHANGED <<current, requests, panicked>>
  <2>. USE <1>ActivateTestSends
  <2>. DEFINE m == TestStarted(t)
              f == TestFinished({t}, 1)
              a == AdvanceScenario(t, 1)
              one == <<m>>
              bag == <<m, f, a>>
  <2>1. m \in Plain /\ f \in Plain /\ a \in Plain
    BY <1>PlainMessages, Zenon DEF Unit, Result
  <2>2. /\ \/ queue' = Tail(queue) /\ out' = out
           \/ queue' = Append(Tail(queue), m) /\ out' = out
           \/ queue' = Tail(queue) /\ out' = bag
        /\ active' \subseteq active \cup {t}
        /\ UNCHANGED <<current, requests, panicked>>
    BY Zenon DEF ActivateTest
  <2>. HIDE DEF m, f, a
  <2>3. one \in Seq(Plain) /\ bag \in Seq(Plain) /\ <<>> \in Seq(Plain)
    BY <2>1
  <2>4. Tail(queue) \in Seq(Message) /\ m \in Message
    BY <2>1, HeadTailProperties, Zenon DEF TypeOK, Plain
  <2>5. Append(Tail(queue), m) = Tail(queue) \o one
    BY <2>4, AppendIsConcat, Zenon
  <2>6. Append(Tail(queue), m) \o <<>> = Append(Tail(queue), m)
    <3>1. Append(Tail(queue), m) \in Seq(Message)
      BY <2>4, AppendProperties, Zenon
    <3>. QED
      BY <3>1, ConcatEmptySeq, Zenon
  <2>. HIDE DEF one, bag
  <2>7. \E sent \in Seq(Plain) : Pending' = Tail(queue) \o sent
    <3>1. CASE queue' = Tail(queue) /\ out' = out
      BY <2>3, <3>1, Zenon DEF Pending
    <3>2. CASE queue' = Append(Tail(queue), m) /\ out' = out
      BY <2>3, <2>5, <2>6, <3>2, Zenon DEF Pending
    <3>3. CASE queue' = Tail(queue) /\ out' = bag
      BY <2>3, <3>3, Zenon DEF Pending
    <3>. QED
      BY <2>2, <3>1, <3>2, <3>3, Zenon
  <2>. QED
    BY <2>2, <2>7, Zenon
\* The senders keep the order.
<1>SendersInOrder.
    ASSUME TypeOK, TypeOK', EndsInOrder,
           TestThreads \/ Send \/ \E s \in Scenario, r \in Result : SupportExits(s, r)
    PROVE  EndsInOrder'
  <2>. USE <1>SendersInOrder
  <2>0. queue \in Seq(Message) /\ Pending \in Seq(Message)
    BY PendingTypes, Zenon DEF TypeOK
  <2>1. ASSUME UNCHANGED <<current, active, requests, out>>, queue' = queue PROVE EndsInOrder'
    <3>1. Pending' = Pending
      BY <2>1, Zenon DEF Pending
    <3>2. Carried(Pending, Pending', 1, {})
      BY <2>0, <3>1, CarriedSame, Zenon
    <3>. QED
      BY <2>1, <3>2, <1>SentInOrder
  <2>2. ASSUME UNCHANGED <<current, active, requests, out>>, NEW m \in Plain, queue' = Append(queue, m)
        PROVE  EndsInOrder'
    <3>. DEFINE all == {m}
    <3>1. m \in Message
      BY Zenon DEF Plain
    <3>2. Carried(Pending, Pending', 1, all)
      BY <2>2, <3>1, PendingInsert, Zenon
    <3>3. \A x \in all : x.what \notin Asked \cup {"ScenarioFinished"}
      BY Zenon DEF Plain
    <3>. HIDE DEF all
    <3>. QED
      BY <2>2, <3>2, <3>3, <1>SentInOrder, Zenon
  <2>3. CASE Send
    <3>1. Pending' = Pending /\ UNCHANGED <<current, active, requests>>
      BY <2>3, PendingSend, Zenon DEF Send, managerVars
    <3>2. Carried(Pending, Pending', 1, {})
      BY <2>0, <3>1, CarriedSame, Zenon
    <3>. QED
      BY <3>1, <3>2, <1>SentInOrder
  <2>4. ASSUME NEW s \in Scenario, NEW r \in Result, SupportExits(s, r) PROVE EndsInOrder'
    <3>1. AdvanceScenario(s, r) \in Plain
      BY <1>PlainMessages, Zenon DEF Unit
    <3>2. queue' = Append(queue, AdvanceScenario(s, r)) /\ UNCHANGED <<current, active, requests, out>>
      BY <2>4, Zenon DEF SupportExits, managerVars
    <3>. QED
      BY <2>2, <3>1, <3>2, Zenon
  <2>5. ASSUME NEW th \in threads, NEW r \in Result,
               \/ SimpleExits(th, r) \/ SimpleAdvances(th) \/ DaemonReady(th)
               \/ DaemonNotReady(th) \/ DaemonGivesUp(th) \/ DaemonExits(th, r)
        PROVE  EndsInOrder'
    <3>1. th.test \in Test /\ th.result \in Result /\ th.test \in Unit /\ 0 \in Result /\ 1 \in Result
      BY Zenon DEF TypeOK, Thread, Result, Unit
    <3>2. UNCHANGED <<current, active, requests, out>>
      BY <2>5, Zenon DEF SimpleExits, SimpleAdvances, DaemonReady, DaemonNotReady, DaemonGivesUp, DaemonExits,
                  ThreadStep, managerVars
    <3>3. \E v \in Result : \/ queue' = queue \o FinishedOnce(th.test, v)
                            \/ queue' = queue \o <<AdvanceScenario(th.test, v)>>
      BY <2>5, <3>1, Zenon DEF SimpleExits, SimpleAdvances, DaemonReady, DaemonNotReady, DaemonGivesUp,
                        DaemonExits, ThreadStep
    <3>4. PICK v \in Result : \/ queue' = queue \o FinishedOnce(th.test, v)
                              \/ queue' = queue \o <<AdvanceScenario(th.test, v)>>
      BY <3>3, Zenon
    <3>. DEFINE f == TestFinished({th.test}, v)
                a == AdvanceScenario(th.test, v)
    <3>5. f \in Plain /\ a \in Plain
      BY <3>1, <1>PlainMessages, Zenon
    <3>6. queue' = queue \o <<>> \/ queue' = queue \o <<f>> \/ queue' = queue \o <<a>>
      BY <3>4, Zenon DEF FinishedOnce
    <3>. HIDE DEF f, a
    <3>7. queue' = queue \/ queue' = Append(queue, f) \/ queue' = Append(queue, a)
      BY <2>0, <3>5, <3>6, ConcatEmptySeq, AppendIsConcat, Zenon DEF Plain
    <3>. QED
      BY <2>1, <2>2, <3>2, <3>5, <3>7, Zenon
  <2>6. CASE TestThreads
    <3>. SUFFICES ASSUME NEW th \in threads, NEW r \in Result,
                         \/ SimpleExits(th, r) \/ SimpleAdvances(th) \/ DaemonReady(th)
                         \/ DaemonNotReady(th) \/ DaemonGivesUp(th) \/ DaemonExits(th, r)
                  PROVE  EndsInOrder'
      BY <2>6, Zenon DEF TestThreads, Result
    <3>. QED
      BY <2>5, Zenon
  <2>. QED
    BY <2>3, <2>4, <2>6, Zenon
\* The number of requests never falls.
<1>RequestsGrow.
    ASSUME Next, requests \in Nat
    PROVE  requests' \in {requests, requests + 1}
  <2>. USE <1>RequestsGrow
  <2>1. CASE Elsewhere
    BY <2>1, Zenon DEF Elsewhere, TestThreads, Request, Send, SupportExits, SimpleExits, SimpleAdvances,
       DaemonReady, DaemonNotReady, DaemonGivesUp, DaemonExits, ThreadStep, HandleStartTest,
       HandleStopTest, HandleTestStarted, HandleTestFinished, HandleSkip, HandleScenarioFinished,
       HandleSelectScenario, HandleRescan, StartRefused, StartSelected, StartOther, StartUnknown,
       StartNamedTest, ActivateTest, ActivateScenario, Handled, Panic
  <2>2. CASE HandleAdvanceScenario \/ AdvanceNothing
    BY <2>2, Zenon DEF HandleAdvanceScenario, AdvanceNothing, AdvanceToExecStart, AdvanceWithoutTests,
       AdvanceToEnd, AdvancePastTests, AdvanceToTest, RunSupportCommand, Finish, Handled, Panic
  <2>. QED
    BY <2>1, <2>2, NextSplit, Zenon
\* The handlers of what a run sends keep the order, and find the scenario stopped when
\* it is finished.
<1>HandlersInOrder.
    ASSUME Known, EndsInOrder, Alive,
           \/ HandleStartTest \/ HandleStopTest \/ HandleTestStarted \/ HandleTestFinished
           \/ HandleSkip \/ HandleScenarioFinished \/ HandleAdvanceScenario \/ AdvanceNothing
    PROVE  panicked' \notin {"borrow", "unwrap"} /\ (Alive' => EndsInOrder')
  <2>. USE <1>HandlersInOrder
  <2>1. TypeOK /\ out = <<>> /\ queue # <<>> /\ Head(queue) \in Message /\ panicked = "no"
        /\ requests = 1
    BY HeadTailProperties, Zenon DEF Known, TypeOK, Alive, EndsInOrder, Handling, HandleStartTest,
       HandleStopTest, HandleTestStarted, HandleTestFinished, HandleSkip, HandleScenarioFinished,
       HandleAdvanceScenario, AdvanceNothing
  <2>2. ASSUME NEW sent \in Seq(Plain), Handled(sent), UNCHANGED current,
               current \in active' => current \in active /\ Head(queue) # StopTest(current)
        PROVE  panicked' \notin {"borrow", "unwrap"} /\ EndsInOrder'
    <3>1. Pending' = Tail(queue) \o sent /\ UNCHANGED <<requests, panicked>>
      BY <2>2, Zenon DEF Handled, Pending
    <3>2. EndsInOrder'
      BY <2>1, <2>2, <3>1, <1>PlainInOrder, Zenon
    <3>. QED
      BY <2>1, <3>1, <3>2, Zenon
  <2>3. CASE HandleStartTest
    <3>. DEFINE t == Head(queue).unit
    <3>1. Head(queue).what = "StartTest" /\ t \in Test /\ ActivateTest(t)
      BY <2>1, <2>3, MessageFields, Zenon DEF HandleStartTest, Handling
    <3>2. PICK sent \in Seq(Plain) : Pending' = Tail(queue) \o sent
      BY <2>1, <3>1, <1>ActivateTestSends, Zenon
    <3>3. active' \subseteq active \cup {t} /\ UNCHANGED <<current, requests, panicked>>
      BY <2>1, <3>1, <1>ActivateTestSends, Zenon
    <3>4. current # t /\ Head(queue) # StopTest(current)
      <4>1. current \in Scenario \cup {None} /\ StopTest(current).what = "StopTest"
        BY <2>1, Zenon DEF TypeOK, StopTest
      <4>. QED
        BY <3>1, <4>1, RunAssumption DEF Unit
    <3>5. EndsInOrder'
      BY <2>1, <3>2, <3>3, <3>4, <1>PlainInOrder, Zenon
    <3>. QED
      BY <2>1, <3>3, <3>5, Zenon
  <2>4. CASE HandleStopTest
    <3>. DEFINE u == Head(queue).unit
    <3>1. PICK sent : Handled(sent) /\ (sent = <<>> \/ (u \in Test /\ sent = FinishedOnce(u, 0)))
      BY <2>4, Zenon DEF HandleStopTest
    <3>2. sent \in Seq(Plain)
      BY <2>1, <3>1, <1>PlainReports, EmptySeq, Zenon DEF Result
    <3>3. UNCHANGED current /\ active' = active \ {u} /\ StopTest(current).unit = current
      BY <2>4, Zenon DEF HandleStopTest, StopTest
    <3>. QED
      BY <2>2, <3>1, <3>2, <3>3, Zenon
  <2>5. ASSUME Handled(<<>>), UNCHANGED <<current, active>>, Head(queue).what # "StopTest"
        PROVE  panicked' \notin {"borrow", "unwrap"} /\ EndsInOrder'
    <3>1. <<>> \in Seq(Plain) /\ Head(queue) # StopTest(current)
      BY <2>5, EmptySeq DEF StopTest
    <3>. QED
      BY <2>2, <2>5, <3>1, Zenon
  <2>6. CASE HandleTestStarted \/ HandleTestFinished \/ HandleSkip \/ AdvanceNothing
    BY <2>5, <2>6, Zenon DEF HandleTestStarted, HandleTestFinished, HandleSkip, AdvanceNothing, Handling,
                      managerVars
  <2>7. CASE HandleScenarioFinished
    <3>0. queue \in Seq(Message) /\ queue # <<>> /\ out = <<>> /\ Head(queue).what = "ScenarioFinished"
      BY <2>1, <2>7, Zenon DEF TypeOK, HandleScenarioFinished, Handling
    <3>1. Pending = queue /\ 1 \in 1..Len(queue) /\ queue[1] = Head(queue)
          /\ Head(queue).what = "ScenarioFinished"
      BY <3>0, ConcatEmptySeq, EmptySeq, LenProperties, SMTT(30) DEF Pending
    <3>2. current # None /\ (current \in active => \E j \in 1..(1 - 1) : Pending[j] = StopTest(current))
      BY <3>1, Zenon DEF EndsInOrder
    <3>3. 1..(1 - 1) = {}
      OBVIOUS
    <3>4. Handled(<<>>) /\ UNCHANGED <<current, active>>
      BY <2>7, <3>2, <3>3, Zenon DEF HandleScenarioFinished, managerVars
    <3>. QED
      BY <2>5, <3>1, <3>4, Zenon
  <2>8. CASE HandleAdvanceScenario
    <3>1. CASE Panic("index") \/ Panic("duration")
      BY <3>1, Zenon DEF Panic, Alive
    <3>2. CASE ~Panic("index") /\ ~Panic("duration")
      <4>0. Handling("AdvanceScenario") /\ current \in Scenario /\ current # None
        BY <2>1, <2>8, Zenon DEF HandleAdvanceScenario, TypeOK
      <4>1. PICK S, new : AdvancedTo(S, new)
        BY <2>8, <3>2, AdvanceOutcome, Zenon
      <4>2. PICK sent : Handled(sent) /\ TellsSkips(S, sent)
        BY <4>0, <4>1, AdvanceTells, Zenon
      <4>3. UNCHANGED <<current, active>> /\ Head(queue) # StopTest(current)
        BY <4>0, <4>1 DEF AdvancedTo, managerVars, Handling, StopTest
      <4>4. /\ sent \in Seq(Message) /\ Pending' = Tail(queue) \o sent
            /\ UNCHANGED <<requests, panicked>>
        BY <4>2, Zenon DEF Handled, Pending, TellsSkips
      <4>5. \A k \in 1..Len(sent) :
               /\ sent[k].what \notin Asked
               /\ sent[k].what = "ScenarioFinished" =>
                     /\ current # None
                     /\ \E j \in 1..(k - 1) : sent[j] = StopTest(current)
        BY <4>0, <4>2 DEF TellsSkips, Asked, Skip
      <4>6. EndsInOrder'
        BY <2>1, <4>3, <4>4, <4>5, <1>HandledInOrder, Zenon
      <4>. QED
        BY <2>1, <4>4, <4>6, Zenon
    <3>. QED
      BY <3>1, <3>2, Zenon
  <2>. QED
    BY <2>3, <2>4, <2>6, <2>7, <2>8, Zenon
\* The first request is handled.
<1>FirstInOrder.
    ASSUME TypeOK, Untouched, Alive, requests <= 1,
           \/ HandleSelectScenario \/ HandleRescan \/ StartRefused \/ StartSelected \/ StartOther
           \/ StartUnknown \/ StartNamedTest
    PROVE  panicked' \notin {"borrow", "unwrap"} /\ EndsInOrder'
  <2>. USE <1>FirstInOrder
  <2>1. out = <<>> /\ queue # <<>> /\ Head(queue) \in Message /\ panicked = "no"
    BY HeadTailProperties, Zenon DEF TypeOK, Alive, Handling, HandleSelectScenario, HandleRescan,
       StartRefused, StartSelected, StartOther, StartUnknown, StartNamedTest, StartAccepted
  <2>2. requests = 1 /\ Tail(queue) = <<>>
    <3>1. Len(queue) \in Nat \ {0} /\ Len(queue) = requests /\ queue \in Seq(Message)
      BY <2>1, LenProperties, EmptySeq, Zenon DEF Untouched, TypeOK
    <3>2. Len(queue) = 1
      BY <3>1
    <3>3. Tail(queue) \in Seq(Message) /\ Len(Tail(queue)) = 0
      BY <2>1, <3>1, <3>2, HeadTailProperties, SMTT(30)
    <3>4. Tail(queue) = <<>>
      BY <3>3, EmptySeq, Zenon
    <3>. QED
      BY <3>1, <3>2, <3>4, Zenon
  <2>3. ASSUME NEW sent \in Seq(Plain), Pending' = Tail(queue) \o sent, UNCHANGED <<requests, panicked>>
        PROVE  panicked' \notin {"borrow", "unwrap"} /\ EndsInOrder'
    <3>1. Pending' = sent
      BY <2>2, <2>3, ConcatEmptySeq, Zenon
    <3>2. \A k \in 1..Len(sent) : sent[k].what \notin Asked /\ sent[k].what # "ScenarioFinished"
      BY ElementOfSeq DEF Plain
    <3>3. EndsInOrder'
      BY <2>2, <2>3, <3>1, <3>2, Zenon DEF EndsInOrder
    <3>. QED
      BY <2>1, <2>3, <3>3, Zenon
  <2>4. ASSUME NEW sent \in Seq(Plain), Handled(sent)
        PROVE  panicked' \notin {"borrow", "unwrap"} /\ EndsInOrder'
    <3>1. Pending' = Tail(queue) \o sent /\ UNCHANGED <<requests, panicked>>
      BY <2>4, Zenon DEF Handled, Pending
    <3>. QED
      BY <2>3, <3>1, Zenon
  <2>5. <<>> \in Seq(Plain) /\ StoppedReports \in Seq(Plain)
    BY <1>PlainReports, EmptySeq, Zenon
  <2>6. CASE HandleSelectScenario \/ HandleRescan \/ StartRefused \/ StartUnknown
    BY <2>4, <2>5, <2>6, Zenon DEF HandleSelectScenario, HandleRescan, StartRefused, StartUnknown
  <2>7. CASE StartNamedTest
    <3>1. Named \in Test /\ ActivateTest(Named)
      BY <2>7, Zenon DEF StartNamedTest
    <3>2. PICK sent \in Seq(Plain) : Pending' = Tail(queue) \o sent
      BY <2>1, <3>1, <1>ActivateTestSends, Zenon
    <3>3. UNCHANGED <<requests, panicked>>
      BY <2>1, <3>1, <1>ActivateTestSends, Zenon
    <3>. QED
      BY <2>3, <3>2, <3>3, Zenon
  <2>8. CASE StartSelected \/ StartOther
    <3>. DEFINE m == AdvanceScenario(Named, 0)
    <3>1. Named \in Unit
      BY <2>8, Zenon DEF StartSelected, StartOther, TypeOK, Unit
    <3>2. m \in Plain
      BY <3>1, <1>PlainMessages, Zenon DEF Result
    <3>3. Handled(<<>>) \/ Handled(Append(<<>>, m)) \/ Handled(Append(StoppedReports, m))
      BY <2>8, Zenon DEF StartSelected, StartOther, ActivateScenario
    <3>. HIDE DEF m
    <3>4. Append(<<>>, m) \in Seq(Plain) /\ Append(StoppedReports, m) \in Seq(Plain)
      BY <2>5, <3>2, AppendProperties, Zenon
    <3>. QED
      BY <2>4, <2>5, <3>3, <3>4, Zenon
  <2>. QED
    BY <2>6, <2>7, <2>8, Zenon
\* Every step keeps the first run in order.
<1>FirstRunStep.
    ASSUME Known, TypeOK', FirstRun, PanicNeedsSecondRequest, [Next]_vars
    PROVE  FirstRun' /\ PanicNeedsSecondRequest'
  <2>. USE <1>FirstRunStep
  <2>0. /\ TypeOK /\ requests \in Nat /\ panicked \in {"no", "index", "duration", "borrow", "unwrap"}
        /\ MaxRequests \in Nat
    BY RunAssumption, SMTT(30) DEF Known, TypeOK
  <2>1. CASE UNCHANGED vars
    BY <2>1, Zenon DEF vars, managerVars, testVars, FirstRun, PanicNeedsSecondRequest, Alive, Untouched,
                EndsInOrder, Pending
  <2>2. CASE Next
    <3>1. Alive /\ panicked = "no"
      BY <2>2, Zenon DEF Next, MainThread, TestThreads, Request, Send, SupportExits, SimpleExits, SimpleAdvances,
         DaemonReady, DaemonNotReady, DaemonGivesUp, DaemonExits, ThreadStep, HandleStartTest,
         HandleStopTest, HandleTestStarted, HandleTestFinished, HandleSkip, HandleScenarioFinished,
         HandleSelectScenario, HandleRescan, StartRefused, StartSelected, StartOther, StartUnknown,
         StartNamedTest, StartAccepted, HandleAdvanceScenario, AdvanceNothing, Handling, Alive
    <3>2. CASE \E r \in Requests : Request(r)
      <4>1. PICK r \in Requests : Request(r)
        BY <3>2, Zenon
      <4>2. /\ requests' = requests + 1 /\ queue' = Append(queue, r)
            /\ UNCHANGED <<threads, support, out, panicked>>
        BY <4>1, Zenon DEF Request, testVars
      <4>3. PanicNeedsSecondRequest'
        BY <3>1, <4>2, Zenon DEF PanicNeedsSecondRequest
      <4>4. ASSUME requests' <= 1 PROVE Untouched'
        <5>1. requests = 0 /\ requests' = 1
          BY <2>0, <4>2, <4>4, SMTT(30)
        <5>2. Untouched
          BY <3>1, <5>1 DEF FirstRun, EndsInOrder
        <5>3. Len(queue) = 0 /\ queue \in Seq(Message)
          BY <2>0, <5>1, <5>2, Zenon DEF Untouched, TypeOK
        <5>4. r.what \in Asked /\ r \in Message
          BY MessageTypes, RequestKinds, Zenon DEF Asked
        <5>5. queue = <<>> /\ queue' = <<r>>
          BY <4>2, <5>3
        <5>6. Len(queue') = 1 /\ queue'[1] = r
          BY <5>5, Zenon
        <5>. QED
          BY <4>2, <5>1, <5>2, <5>4, <5>6, SMTT(30) DEF Untouched
      <4>. QED
        BY <4>3, <4>4, Zenon DEF FirstRun
    <3>3. CASE requests > 1
      <4>1. requests' > 1 /\ requests' \in Nat
        BY <2>0, <2>2, <3>3, <1>RequestsGrow, SMTT(30) DEF TypeOK
      <4>. QED
        BY <4>1, SMTT(30) DEF FirstRun, PanicNeedsSecondRequest
    <3>4. CASE ~(requests > 1) /\ Untouched /\ ~\E r \in Requests : Request(r)
      <4>1. requests <= 1
        BY <2>0, <3>4, SMTT(30)
      <4>2. ~TestThreads /\ ~Send /\ ~\E s \in Scenario, r \in Result : SupportExits(s, r)
        BY <3>4 DEF Untouched, TestThreads, Send, SupportExits
      <4>3. queue # <<>> => Head(queue).what \in Asked
        <5>1. queue # <<>> => 1 \in 1..Len(queue) /\ queue[1] = Head(queue)
          BY <2>0, LenProperties, EmptySeq, SMTT(30) DEF TypeOK
        <5>. QED
          BY <3>4, <5>1, Zenon DEF Untouched
      <4>4. /\ ~HandleStartTest /\ ~HandleStopTest /\ ~HandleTestStarted /\ ~HandleTestFinished
            /\ ~HandleSkip /\ ~HandleScenarioFinished /\ ~HandleAdvanceScenario /\ ~AdvanceNothing
        BY <4>3, Zenon DEF HandleStartTest, HandleStopTest, HandleTestStarted, HandleTestFinished, HandleSkip,
           HandleScenarioFinished, HandleAdvanceScenario, AdvanceNothing, Handling, Asked
      <4>5. \/ HandleSelectScenario \/ HandleRescan \/ StartRefused \/ StartSelected \/ StartOther
            \/ StartUnknown \/ StartNamedTest
        BY <2>2, <3>4, <4>2, <4>4, Zenon DEF Next, MainThread
      <4>6. panicked' \notin {"borrow", "unwrap"} /\ EndsInOrder'
        BY <2>0, <3>1, <3>4, <4>1, <4>5, <1>FirstInOrder, Zenon
      <4>. QED
        BY <4>6, Zenon DEF FirstRun, PanicNeedsSecondRequest
    <3>5. CASE ~(requests > 1) /\ EndsInOrder /\ ~\E r \in Requests : Request(r)
      <4>1. queue # <<>> /\ out = <<>> => Head(queue).what \notin Asked
        <5>1. queue # <<>> /\ out = <<>> =>
                 1 \in 1..Len(Pending) /\ Pending[1] = Head(queue)
          BY <2>0, LenProperties, EmptySeq, ConcatEmptySeq, SMTT(30) DEF TypeOK, Pending
        <5>. QED
          BY <3>5, <5>1, Zenon DEF EndsInOrder
      <4>2. /\ ~HandleSelectScenario /\ ~HandleRescan /\ ~StartRefused /\ ~StartSelected
            /\ ~StartOther /\ ~StartUnknown /\ ~StartNamedTest
        BY <4>1, Zenon DEF HandleSelectScenario, HandleRescan, StartRefused, StartSelected, StartOther,
           StartUnknown, StartNamedTest, StartAccepted, Handling, Asked
      <4>3. CASE TestThreads \/ Send \/ \E s \in Scenario, r \in Result : SupportExits(s, r)
        <5>1. EndsInOrder'
          BY <2>0, <3>5, <4>3, <1>SendersInOrder, Zenon
        <5>2. UNCHANGED panicked
          BY <4>3, Zenon DEF TestThreads, Send, SupportExits, SimpleExits, SimpleAdvances, DaemonReady,
             DaemonNotReady, DaemonGivesUp, DaemonExits, ThreadStep
        <5>. QED
          BY <3>1, <5>1, <5>2, Zenon DEF FirstRun, PanicNeedsSecondRequest
      <4>4. CASE \/ HandleStartTest \/ HandleStopTest \/ HandleTestStarted \/ HandleTestFinished
                 \/ HandleSkip \/ HandleScenarioFinished \/ HandleAdvanceScenario \/ AdvanceNothing
        <5>1. panicked' \notin {"borrow", "unwrap"} /\ (Alive' => EndsInOrder')
          BY <3>1, <3>5, <4>4, <1>HandlersInOrder, Zenon
        <5>. QED
          BY <5>1, Zenon DEF FirstRun, PanicNeedsSecondRequest
      <4>. QED
        BY <2>2, <3>5, <4>2, <4>3, <4>4, Zenon DEF Next, MainThread
    <3>6. requests <= 1 \/ requests > 1
      BY <2>0
    <3>7. requests <= 1 => ~(requests > 1)
      BY <2>0
    <3>. QED
      BY <3>1, <3>2, <3>3, <3>4, <3>5, <3>6, <3>7, Zenon DEF FirstRun
  <2>. QED
    BY <2>1, <2>2, Zenon
<1>1. Init => FirstRun /\ PanicNeedsSecondRequest
  <2>. SUFFICES ASSUME Init PROVE FirstRun /\ PanicNeedsSecondRequest
    BY Zenon
  <2>1. /\ threads = {} /\ (\A s \in Scenario : support[s] = 0) /\ out = <<>> /\ queue = <<>>
        /\ requests = 0 /\ panicked = "no"
    BY Zenon DEF Init
  <2>2. Len(queue) = 0 /\ \A i \in 1..Len(queue) : FALSE
    BY <2>1
  <2>3. Untouched
    BY <2>1, <2>2, Zenon DEF Untouched
  <2>. QED
    BY <2>1, <2>3, Zenon DEF FirstRun, PanicNeedsSecondRequest
<1>2. Known /\ TypeOK' /\ FirstRun /\ PanicNeedsSecondRequest /\ [Next]_vars
      => FirstRun' /\ PanicNeedsSecondRequest'
  BY <1>FirstRunStep, Zenon
<1>3. Known => TypeOK
  BY Zenon DEF Known
<1>. QED
  BY <1>1, <1>2, <1>3, KnownInvariant, PTL DEF Spec

-----------------------------------------------------------------------------
(***************************************************************************)
(* A scenario that is loaded alone, and that clients only start.           *)
(***************************************************************************)
\* One scenario, whose tests fit the loaded jigs; clients start it and do nothing else.
Lone ==
    /\ \A s1, s2 \in Scenario : s1 = s2
    /\ Requests \subseteq {StartScenario(u) : u \in Scenario \cup {None}}
    /\ \A lib \in Libraries : \A s \in Scenario :
          \A t \in TestsOf(lib.scenario[s]) : lib.test[t].compatible

\* The lone scenario stays current, and a thread's place tells the kind of its test.
LoneBasics ==
    /\ current \in Scenario
    /\ queue \in Seq(Requests \cup RunMessage)
    /\ out \in Seq(RunMessage)
    /\ \A th \in threads : T[th.test].daemon <=> th.pc \in {"starting", "failing", "ready"}

LoneNext ==
    \/ \E r \in Requests : Request(r)
    \/ TestThreads
    \/ \E r \in Result : SupportExits(current, r)
    \/ Send
    \/ HandleStartTest \/ HandleStopTest
    \/ HandleTestStarted \/ HandleTestFinished \/ HandleSkip \/ HandleScenarioFinished
    \/ StartRefused \/ StartSelected
    \/ HandleAdvanceScenario

\* The head of the queue is a request to start, or sent by a run.
LEMMA LoneHead ==
    ASSUME Lone, LoneBasics, queue # <<>>
    PROVE  \/ Head(queue).what = "StartScenario" /\ Head(queue).unit \in Scenario \cup {None}
           \/ Head(queue).what \notin {"StartScenario", "Scenario", "Rescan"}
<1>1. Head(queue) \in Requests \cup RunMessage
  BY HeadTailProperties, Zenon DEF LoneBasics
<1>2. CASE Head(queue) \in Requests
  BY <1>2 DEF Lone, StartScenario
<1>3. CASE Head(queue) \in RunMessage
  BY <1>3, Zenon DEF RunMessage
<1>. QED
  BY <1>1, <1>2, <1>3, Zenon

\* Nothing is selected in its place, nothing is reloaded, no test is started by name.
LEMMA LoneSteps ==
    ASSUME Lone, Known, LoneBasics, Next
    PROVE  LoneNext
<1>1. current \in Scenario /\ current # None /\ \A s \in Scenario : s = current
  BY RunAssumption DEF Lone, LoneBasics, Unit
<1>2. ~HandleSelectScenario /\ ~HandleRescan
  BY LoneHead, Zenon DEF HandleSelectScenario, HandleRescan, Handling
<1>3. ~AdvanceNothing
  BY <1>1, Zenon DEF AdvanceNothing
<1>4. ASSUME StartAccepted PROVE Named = current /\ current \in selected
  <2>1. Alive /\ queue # <<>> /\ Head(queue).what = "StartScenario"
    BY <1>4, Zenon DEF StartAccepted, Handling
  <2>2. current \in selected
    BY <1>1, <2>1, Zenon DEF Known, OneScenario
  <2>. QED
    BY <1>1, <2>1, <2>2, LoneHead, Zenon DEF Named
<1>5. ~StartOther /\ ~StartUnknown /\ ~StartNamedTest
  BY <1>1, <1>4, RunAssumption, Zenon DEF StartOther, StartUnknown, StartNamedTest
<1>6. (\E s \in Scenario, r \in Result : SupportExits(s, r)) => \E r \in Result : SupportExits(current, r)
  BY <1>1, Zenon
<1>. QED
  BY <1>2, <1>3, <1>5, <1>6, Zenon DEF Next, MainThread, LoneNext

\* Telling a program to terminate changes nothing else of its thread.
Marked(S, th) ==
    IF th.test \in S /\ th.run = activations[th.test] THEN [th EXCEPT !.killed = TRUE] ELSE th

\* A termination changes nothing else of a thread.
LEMMA MarkedFields ==
    ASSUME NEW S, NEW th \in Thread
    PROVE  /\ Marked(S, th).test = th.test /\ Marked(S, th).run = th.run
           /\ Marked(S, th).pc = th.pc /\ Marked(S, th).result = th.result
<1>1. /\ [th EXCEPT !.killed = TRUE].test = th.test /\ [th EXCEPT !.killed = TRUE].run = th.run
      /\ [th EXCEPT !.killed = TRUE].pc = th.pc /\ [th EXCEPT !.killed = TRUE].result = th.result
  BY Zenon DEF Thread
<1>. QED
  BY <1>1, Zenon DEF Marked

\* A lone scenario stays current, and only requests to start it and messages of its runs
\* are ever on their way.
LEMMA BasicsInvariant ==
    ASSUME Lone
    PROVE  Spec => []LoneBasics
\* The messages a handler sends are those of a run.
<1>HandledBasics.
    ASSUME LoneBasics, queue # <<>>, NEW sent \in Seq(RunMessage), Handled(sent)
    PROVE  queue' \in Seq(Requests \cup RunMessage) /\ out' \in Seq(RunMessage)
  BY <1>HandledBasics, HeadTailProperties, Zenon DEF LoneBasics, Handled
\* advance() sends only messages of a run.
<1>AdvancedBasics.
    ASSUME Known, LoneBasics, Handling("AdvanceScenario"), NEW S, NEW new, AdvancedTo(S, new)
    PROVE  queue' \in Seq(Requests \cup RunMessage) /\ out' \in Seq(RunMessage)
  <2>. USE <1>AdvancedBasics
  <2>1. current \in Scenario /\ current # None /\ queue # <<>> /\ TypeOK
    <3>1. current \in Scenario /\ queue # <<>> /\ TypeOK
      BY Zenon DEF Known, LoneBasics, Handling
    <3>2. current # None
      BY <3>1, RunAssumption DEF Unit
    <3>. QED
      BY <3>1, <3>2, Zenon
  <2>2. S \in SUBSET Test /\ new \in ScenarioObject
    BY Zenon DEF AdvancedTo, SkipsAndKeeps
  <2>3. Before(S) \in Seq(RunMessage)
    BY <2>1, <2>2, BeforeFacts, Zenon
  <2>4. CASE GoesToTest(S, new)
    <3>1. Desc(current).test_sequence[new.step] \in Test
      BY <2>1, <2>4, LibraryTypes, Zenon DEF GoesToTest
    <3>2. <<StartTest(Desc(current).test_sequence[new.step])>> \in Seq(RunMessage)
      BY <3>1, RunMessages
    <3>3. Before(S) \o <<StartTest(Desc(current).test_sequence[new.step])>> \in Seq(RunMessage)
      BY <2>3, <3>2, ConcatProperties, Zenon
    <3>. QED
      BY <2>1, <2>4, <3>3, <1>HandledBasics, Zenon DEF GoesToTest
  <2>5. CASE GoesToCommand(S, new)
    <3>1. AdvanceScenario(current, 1) \in RunMessage
      BY <2>1, RunMessages, Zenon DEF Unit, Result
    <3>2. Append(Before(S), AdvanceScenario(current, 1)) \in Seq(RunMessage)
      BY <2>3, <3>1, AppendProperties, Zenon
    <3>. QED
      BY <2>1, <2>3, <2>5, <3>2, <1>HandledBasics, Zenon DEF GoesToCommand, RunSupportCommand
  <2>6. CASE GoesToEnd(S, new)
    <3>1. FinishCode(new) \in Nat
      BY <2>2 DEF FinishCode, ScenarioObject
    <3>2. <<ScenarioFinished(current, FinishCode(new))>> \in Seq(RunMessage)
      BY <2>1, <3>1, RunMessages
    <3>3. StopMessages(current) \in Seq(RunMessage)
      BY <2>1, StopMessagesFacts, Zenon
    <3>4. Before(S) \o StopMessages(current) \o <<ScenarioFinished(current, FinishCode(new))>>
          \in Seq(RunMessage)
      BY <2>3, <3>2, <3>3, ConcatProperties, Zenon
    <3>. QED
      BY <2>1, <2>6, <3>4, <1>HandledBasics, Zenon DEF GoesToEnd
  <2>. QED
    BY <2>4, <2>5, <2>6, Zenon DEF AdvancedTo
\* send_finished_once sends a report or nothing.
<1>FinishedMessages.
    ASSUME NEW t \in Test, NEW r \in Result
    PROVE  FinishedOnce(t, r) \in Seq(RunMessage)
  <2>1. TestFinished({t}, r) \in RunMessage
    BY RunMessages, Zenon
  <2>. QED
    BY <2>1, EmptySeq DEF FinishedOnce
\* A panic takes a message and changes nothing else.
<1>PanicBasics.
    ASSUME LoneBasics, queue # <<>>, NEW where, Panic(where)
    PROVE  LoneBasics'
  <2>. USE <1>PanicBasics
  <2>1. queue' \in Seq(Requests \cup RunMessage)
    BY HeadTailProperties, Zenon DEF LoneBasics, Panic
  <2>. QED
    BY <2>1, Zenon DEF LoneBasics, Panic, managerVars, testVars, T
\* Every step of a lone scenario keeps the basics.
<1>LoneBasicsStep.
    ASSUME Lone, Known, LoneBasics, [Next]_vars
    PROVE  LoneBasics'
  <2>. USE <1>LoneBasicsStep
  <2>0. TypeOK /\ T \in [Test -> TestDescription]
    BY LibraryTypes, Zenon DEF Known
  <2>1. CASE UNCHANGED vars
    BY <2>1, Zenon DEF vars, managerVars, testVars, LoneBasics, T
  <2>2. ASSUME NEW r \in Requests, Request(r) PROVE LoneBasics'
    <3>1. queue' \in Seq(Requests \cup RunMessage)
      BY <2>2, AppendProperties, Zenon DEF LoneBasics, Request
    <3>. QED
      BY <2>2, <3>1, Zenon DEF LoneBasics, Request, managerVars, testVars, T
  <2>3. CASE Send
    <3>1. queue' \in Seq(Requests \cup RunMessage) /\ out' \in Seq(RunMessage)
      BY <2>3, AppendProperties, HeadTailProperties, Zenon DEF LoneBasics, Send
    <3>. QED
      BY <2>3, <3>1, Zenon DEF LoneBasics, Send, managerVars, testVars, T
  <2>4. ASSUME NEW r \in Result, SupportExits(current, r) PROVE LoneBasics'
    <3>1. AdvanceScenario(current, r) \in RunMessage
      BY RunMessages, Zenon DEF LoneBasics, Unit
    <3>2. queue' \in Seq(Requests \cup RunMessage)
      BY <2>4, <3>1, AppendProperties, Zenon DEF LoneBasics, SupportExits
    <3>. QED
      BY <2>4, <3>2, Zenon DEF LoneBasics, SupportExits, managerVars, testVars, T
  <2>5. CASE TestThreads
    <3>. SUFFICES ASSUME NEW th \in threads, NEW r \in Result,
                         \/ SimpleExits(th, r) \/ SimpleAdvances(th) \/ DaemonReady(th)
                         \/ DaemonNotReady(th) \/ DaemonGivesUp(th) \/ DaemonExits(th, r)
                  PROVE  LoneBasics'
      BY <2>5, Zenon DEF TestThreads, Result
    <3>1. th \in Thread /\ th.test \in Test /\ th.result \in Result /\ 0 \in Result /\ 1 \in Result
      BY <2>0, Zenon DEF TypeOK, Thread, Result
    <3>2. ASSUME NEW next, NEW sent \in Seq(RunMessage), ThreadStep(th, next, sent),
                 \A new \in next : /\ new.test = th.test
                                   /\ new.pc \in {"starting", "failing", "ready"} <=>
                                         th.pc \in {"starting", "failing", "ready"}
          PROVE  LoneBasics'
      <4>1. sent \in Seq(Requests \cup RunMessage)
        BY SeqMonotonic, Zenon
      <4>2. queue' \in Seq(Requests \cup RunMessage)
        BY <3>2, <4>1, ConcatProperties, Zenon DEF LoneBasics, ThreadStep
      <4>3. library' = library /\ current' = current /\ out' = out
            /\ threads' = (threads \ {th}) \cup next
        BY <3>2, Zenon DEF ThreadStep, managerVars
      <4>4. \A x \in threads' : T[x.test].daemon <=> x.pc \in {"starting", "failing", "ready"}
        BY <3>2, <4>3, Zenon DEF LoneBasics
      <4>. QED
        BY <4>2, <4>3, <4>4, Zenon DEF LoneBasics, T
    <3>3. \A q \in Result : /\ FinishedOnce(th.test, q) \in Seq(RunMessage)
                            /\ <<AdvanceScenario(th.test, q)>> \in Seq(RunMessage)
      BY <3>1, <1>FinishedMessages, RunMessages DEF Unit
    <3>10. ASSUME NEW sent \in Seq(RunMessage), ThreadStep(th, {}, sent) PROVE LoneBasics'
      <4>. DEFINE none == {}
      <4>1. ThreadStep(th, none, sent)
        BY <3>10, Zenon
      <4>2. \A new \in none : /\ new.test = th.test
                              /\ new.pc \in {"starting", "failing", "ready"} <=>
                                    th.pc \in {"starting", "failing", "ready"}
        BY Zenon
      <4>. HIDE DEF none
      <4>. QED
        BY <3>2, <4>1, <4>2, Zenon
    <3>4. CASE SimpleExits(th, r)
      <4>. DEFINE new == [th EXCEPT !.pc = "advance", !.result = r]
                  next == {new}
      <4>1. new.test = th.test /\ new.pc = "advance" /\ th.pc = "wait"
        BY <3>1, <3>4, Zenon DEF Thread, SimpleExits
      <4>2. ThreadStep(th, next, FinishedOnce(th.test, r))
        BY <3>4, Zenon DEF SimpleExits
      <4>. HIDE DEF new, next
      <4>3. \A x \in next : /\ x.test = th.test
                            /\ x.pc \in {"starting", "failing", "ready"} <=>
                                  th.pc \in {"starting", "failing", "ready"}
        BY <4>1, Zenon DEF next
      <4>. QED
        BY <3>2, <3>3, <4>2, <4>3, Zenon
    <3>5. CASE SimpleAdvances(th)
      <4>. DEFINE sent == <<AdvanceScenario(th.test, th.result)>>
      <4>1. ThreadStep(th, {}, sent) /\ sent \in Seq(RunMessage)
        BY <3>1, <3>3, <3>5, Zenon DEF SimpleAdvances
      <4>. HIDE DEF sent
      <4>. QED
        BY <3>10, <4>1, Zenon
    <3>6. CASE DaemonReady(th)
      <4>. DEFINE new == [th EXCEPT !.pc = "ready"]
                  next == {new}
      <4>1. new.test = th.test /\ new.pc = "ready" /\ th.pc = "starting"
        BY <3>1, <3>6, Zenon DEF Thread, DaemonReady
      <4>. DEFINE sent == <<AdvanceScenario(th.test, 0)>>
      <4>2. ThreadStep(th, next, sent) /\ sent \in Seq(RunMessage)
        BY <3>1, <3>3, <3>6, Zenon DEF DaemonReady
      <4>. HIDE DEF new, next, sent
      <4>3. \A x \in next : /\ x.test = th.test
                            /\ x.pc \in {"starting", "failing", "ready"} <=>
                                  th.pc \in {"starting", "failing", "ready"}
        BY <4>1, Zenon DEF next
      <4>. QED
        BY <3>2, <4>2, <4>3, Zenon
    <3>7. CASE DaemonNotReady(th)
      <4>. DEFINE new == [th EXCEPT !.pc = "failing", !.killed = TRUE]
                  next == {new}
      <4>1. new.test = th.test /\ new.pc = "failing" /\ th.pc = "starting"
        BY <3>1, <3>7, Zenon DEF Thread, DaemonNotReady
      <4>. DEFINE sent == <<AdvanceScenario(th.test, 1)>>
      <4>2. ThreadStep(th, next, sent) /\ sent \in Seq(RunMessage)
        BY <3>1, <3>3, <3>7, Zenon DEF DaemonNotReady
      <4>. HIDE DEF new, next, sent
      <4>3. \A x \in next : /\ x.test = th.test
                            /\ x.pc \in {"starting", "failing", "ready"} <=>
                                  th.pc \in {"starting", "failing", "ready"}
        BY <4>1, Zenon DEF next
      <4>. QED
        BY <3>2, <4>2, <4>3, Zenon
    <3>8. CASE DaemonGivesUp(th)
      <4>1. ThreadStep(th, {}, FinishedOnce(th.test, 1))
        BY <3>8, Zenon DEF DaemonGivesUp
      <4>. QED
        BY <3>1, <3>3, <3>10, <4>1, Zenon
    <3>9. CASE DaemonExits(th, r)
      <4>1. ThreadStep(th, {}, FinishedOnce(th.test, r))
        BY <3>9, Zenon DEF DaemonExits
      <4>. QED
        BY <3>3, <3>10, <4>1, Zenon
    <3>. QED
      BY <3>4, <3>5, <3>6, <3>7, <3>8, <3>9, Zenon
  <2>6. CASE HandleStartTest
    <3>. DEFINE t == Head(queue).unit
                new == [test |-> t, run |-> activations[t] + 1, result |-> 0, killed |-> FALSE,
                        pc |-> IF T[t].daemon THEN "starting" ELSE "wait"]
    <3>1. t \in Test /\ queue # <<>> /\ ActivateTest(t) /\ out = <<>>
      BY <2>0, <2>6, HeadTypes, MessageFields, Zenon DEF HandleStartTest, Handling
    <3>2. /\ UNCHANGED <<library, current>>
          /\ \/ queue' = Tail(queue) /\ UNCHANGED <<threads, out>>
             \/ /\ threads' = threads \cup {new} /\ UNCHANGED out
                /\ queue' = Append(Tail(queue), TestStarted(t))
             \/ /\ UNCHANGED threads /\ queue' = Tail(queue)
                /\ out' = <<TestStarted(t), TestFinished({t}, 1), AdvanceScenario(t, 1)>>
      BY <3>1, Zenon DEF ActivateTest, testVars
    <3>3. new.test = t /\ new.pc = IF T[t].daemon THEN "starting" ELSE "wait"
      BY Zenon
    <3>. HIDE DEF t, new
    <3>4. T[t].daemon <=> new.pc \in {"starting", "failing", "ready"}
      BY <3>3, Zenon
    <3>5. Tail(queue) \in Seq(Requests \cup RunMessage) /\ TestStarted(t) \in Requests \cup RunMessage
      BY <3>1, HeadTailProperties, RunMessages, Zenon DEF LoneBasics
    <3>6. <<TestStarted(t), TestFinished({t}, 1), AdvanceScenario(t, 1)>> \in Seq(RunMessage)
      BY <3>1, RunMessages DEF Result, Unit
    <3>7. queue' \in Seq(Requests \cup RunMessage) /\ out' \in Seq(RunMessage)
      <4>1. Append(Tail(queue), TestStarted(t)) \in Seq(Requests \cup RunMessage)
        BY <3>5, AppendProperties, Zenon
      <4>. QED
        BY <3>2, <3>5, <3>6, <4>1, Zenon DEF LoneBasics
    <3>8. \A th \in threads' : T[th.test].daemon <=> th.pc \in {"starting", "failing", "ready"}
      BY <3>2, <3>3, <3>4, Zenon DEF LoneBasics
    <3>. QED
      BY <3>2, <3>7, <3>8, Zenon DEF LoneBasics, T
  <2>7. CASE HandleStopTest
    <3>. DEFINE u == Head(queue).unit
    <3>1. queue # <<>> /\ UNCHANGED <<current, library>>
      BY <2>7, Zenon DEF HandleStopTest, Handling, Handled
    <3>2. queue' \in Seq(Requests \cup RunMessage) /\ out' \in Seq(RunMessage)
      <4>1. u \in Test => FinishedOnce(u, 0) \in Seq(RunMessage)
        BY <1>FinishedMessages, Zenon DEF Result
      <4>2. <<>> \in Seq(RunMessage)
        BY EmptySeq, Zenon
      <4>. QED
        BY <2>7, <3>1, <4>1, <4>2, <1>HandledBasics, Zenon DEF HandleStopTest
    <3>3. \A th \in threads' : \E old \in threads : th.test = old.test /\ th.pc = old.pc
      <4>1. threads' = threads \/ threads' = {Marked({u}, th) : th \in threads}
        BY <2>7, Zenon DEF HandleStopTest, Terminated, Marked
      <4>2. \A th \in threads : Marked({u}, th).test = th.test /\ Marked({u}, th).pc = th.pc
        BY <2>0, MarkedFields, Zenon DEF TypeOK
      <4>. QED
        BY <4>1, <4>2
    <3>. QED
      BY <3>1, <3>2, <3>3, Zenon DEF LoneBasics, T
  <2>8. CASE \/ HandleTestStarted \/ HandleTestFinished \/ HandleSkip \/ StartRefused
    <3>1. Handled(<<>>) /\ queue # <<>> /\ UNCHANGED <<managerVars, testVars>>
      BY <2>8, Zenon DEF HandleTestStarted, HandleTestFinished, HandleSkip, StartRefused, Handling
    <3>2. queue' \in Seq(Requests \cup RunMessage) /\ out' \in Seq(RunMessage)
      BY <3>1, <1>HandledBasics, EmptySeq, Zenon
    <3>. QED
      BY <3>1, <3>2, Zenon DEF LoneBasics, Handled, managerVars, testVars, T
  <2>9. CASE HandleScenarioFinished
    <3>1. queue # <<>>
      BY <2>9, Zenon DEF HandleScenarioFinished, Handling
    <3>2. CASE Panic("unwrap") \/ Panic("borrow")
      BY <3>1, <3>2, <1>PanicBasics, Zenon
    <3>3. CASE Handled(<<>>) /\ UNCHANGED <<managerVars, testVars>>
      <4>1. queue' \in Seq(Requests \cup RunMessage) /\ out' \in Seq(RunMessage)
        BY <3>1, <3>3, <1>HandledBasics, EmptySeq, Zenon
      <4>. QED
        BY <3>3, <4>1, Zenon DEF LoneBasics, Handled, managerVars, testVars, T
    <3>. QED
      BY <2>9, <3>2, <3>3, Zenon DEF HandleScenarioFinished
  <2>10. CASE StartSelected
    <3>1. queue # <<>> /\ Named \in Scenario /\ UNCHANGED <<library, current, testVars>>
      BY <2>10, Zenon DEF StartSelected, StartAccepted, Handling, ActivateScenario, Handled
    <3>2. Append(<<>>, AdvanceScenario(Named, 0)) \in Seq(RunMessage)
      BY <3>1, RunMessages, AppendProperties, EmptySeq, Zenon DEF Unit, Result
    <3>3. queue' \in Seq(Requests \cup RunMessage) /\ out' \in Seq(RunMessage)
      BY <2>10, <3>1, <3>2, <1>HandledBasics, EmptySeq, Zenon DEF StartSelected, ActivateScenario
    <3>. QED
      BY <3>1, <3>3, Zenon DEF LoneBasics, testVars, T
  <2>11. CASE HandleAdvanceScenario
    <3>1. queue # <<>> /\ Handling("AdvanceScenario")
      BY <2>11, Zenon DEF HandleAdvanceScenario, Handling
    <3>2. CASE Panic("index") \/ Panic("duration")
      BY <3>1, <3>2, <1>PanicBasics, Zenon
    <3>3. ASSUME NEW S, NEW new, AdvancedTo(S, new) PROVE LoneBasics'
      <4>1. queue' \in Seq(Requests \cup RunMessage) /\ out' \in Seq(RunMessage)
        BY <3>1, <3>3, <1>AdvancedBasics, Zenon
      <4>2. UNCHANGED <<library, managerVars, testVars>>
        BY <3>3, Zenon DEF AdvancedTo, GoesToTest, GoesToCommand, GoesToEnd, RunSupportCommand, Handled
      <4>. QED
        BY <4>1, <4>2, Zenon DEF LoneBasics, managerVars, testVars, T
    <3>. QED
      BY <2>11, <3>2, <3>3, AdvanceOutcome, Zenon
  <2>12. Next => LoneNext
    BY LoneSteps, Zenon
  <2>. QED
    BY <2>1, <2>2, <2>3, <2>4, <2>5, <2>6, <2>7, <2>8, <2>9, <2>10, <2>11, <2>12, Zenon DEF LoneNext
<1>1. Init => LoneBasics
  BY EmptySeq DEF Init, LoneBasics
<1>2. Known /\ TypeOK' /\ LoneBasics /\ [Next]_vars => LoneBasics'
  BY <1>LoneBasicsStep, Zenon
<1>3. Known => TypeOK
  BY Zenon DEF Known
<1>. QED
  BY <1>1, <1>2, <1>3, KnownInvariant, PTL DEF Spec
=============================================================================
