-------------------------- MODULE LoneScenarioProofs --------------------------
(***************************************************************************)
(* Theorems about one scenario that is loaded alone and that clients only  *)
(* start, as often and whenever they like (Lone): it waits for one thing   *)
(* at a time and takes results only from the test it runs.                 *)
(*                                                                         *)
(* The argument is about the one thing that drives the run: a message on   *)
(* its way, a test's thread or a support command.  DriverInv says which,   *)
(* and what it must look like for the next step to hand on to exactly one  *)
(* other.                                                                  *)
(***************************************************************************)
EXTENDS ScenarioRunProofs

-----------------------------------------------------------------------------
(***************************************************************************)
(* What drives a run.                                                      *)
(***************************************************************************)
Object == scenario[current]

TestAt == Desc(current).test_sequence[Object.step]

TestsUpTo(d, n) == {d.test_sequence[k] : k \in 1..n}

\* The tests that may be active when a scenario is about to advance.
Reached(d, o) ==
    IF o.state \in {"Idle", "PreStart"} THEN {}
    ELSE IF o.state = "Running" THEN TestsUpTo(d, o.step) ELSE TestsOf(d)

\* A message that changes what clients are told of a test; of a simple test.
About(m, t) ==
    \/ m.what = "TestStarted" /\ m.from = t
    \/ m.what \in {"TestFinished", "Skip"} /\ t \in m.tests

Tells(TT, m) == \E t \in Test : ~TT[t].daemon /\ About(m, t)

NoMessageDrives == \A j \in 1..Len(Pending) : ~Drives(Pending[j])

\* Nothing is active and nothing is on its way that concerns the run.
AtRest ==
    /\ active = {}
    /\ Working = {} /\ support[current] = 0
    /\ NoMessageDrives
    /\ \A j \in 1..Len(Pending) : ~Tells(T, Pending[j])

\* The message that drives: a result from the test at the step, the request to start
\* that test, or the scenario's own StopTest behind those of its active tests.
Advancing(i) ==
    /\ Pending[i].what = "AdvanceScenario"
    /\ Object.state # "ScenarioFinished"
    /\ Object.state = "Running" => Pending[i].from = TestAt
    /\ active \cap Test \subseteq Reached(Desc(current), Object)

Starting(i) ==
    /\ Pending[i].what = "StartTest" /\ Pending[i].unit = TestAt
    /\ Object.state = "Running"
    /\ active \cap Test \subseteq TestsUpTo(Desc(current), Object.step - 1)

Stopping(i) ==
    /\ Pending[i].what = "StopTest"
    /\ Object.state = "ScenarioFinished"
    /\ \A t \in active \cap Test : \E j \in 1..(i - 1) : Pending[j] = StopTest(t)

OnMessage(i) ==
    /\ current \in active
    /\ Working = {} /\ support[current] = 0
    /\ \A j \in 1..Len(Pending) : Drives(Pending[j]) <=> j = i
    /\ \A j \in 1..Len(Pending) : Tells(T, Pending[j]) => j < i
    /\ Advancing(i) \/ Starting(i) \/ Stopping(i)

MessageDrives == \E i \in 1..Len(Pending) : OnMessage(i)

\* The thread of the test at the step drives; nothing the main thread has yet to send
\* is about a simple test.
OnThread(th) ==
    /\ Working = {th}
    /\ th.test = TestAt

ThreadDrives ==
    /\ current \in active
    /\ support[current] = 0
    /\ NoMessageDrives
    /\ \A j \in 1..Len(out) : ~Tells(T, out[j])
    /\ Object.state = "Running"
    /\ active \cap Test \subseteq TestsUpTo(Desc(current), Object.step)
    /\ \E th \in threads : OnThread(th)

\* A support command drives; the main thread has nothing to send about a simple test,
\* unless it is about to start that command.
CommandDrives ==
    /\ current \in active
    /\ Working = {} /\ support[current] = 1
    /\ NoMessageDrives
    /\ Spawning \/ \A j \in 1..Len(out) : ~Tells(T, out[j])
    /\ Object.state \in {"PreStart", "PostSuccess", "PostFailure"}
    /\ active \cap Test \subseteq Reached(Desc(current), Object)

DriverInv == Alive => AtRest \/ MessageDrives \/ ThreadDrives \/ CommandDrives

-----------------------------------------------------------------------------
(***************************************************************************)
(* One driver: the steps that neither are nor send one.                    *)
(***************************************************************************)

\* The drivers stay when the scenario and its commands do, the threads at work do up to
\* a flag, and the messages that come or go neither drive nor tell.
QuietStep(first, new) ==
    /\ Carried(Pending, Pending', first, new)
    /\ \A m \in new : ~Drives(m) /\ ~Tells(T, m)
    /\ first = 2 => /\ ~Drives(Pending[1])
                    /\ \A t \in active' \cap Test : Pending[1] # StopTest(t)
    /\ UNCHANGED <<library, current, scenario, support, panicked>>
    /\ active' \subseteq active /\ (current \in active => current \in active')
    /\ \A j \in 1..Len(out') : Tells(T, out'[j]) => \E k \in 1..Len(out) : out'[j] = out[k]
    /\ Spawning => Spawning' \/ out' = <<>>
    /\ Working = {} => Working' = {}
    /\ \A th \in Working : Working = {th} => \E th2 : Working' = {th2} /\ th2.test = th.test

\* Telling programs to terminate leaves the threads at work where they are.
LEMMA MarkedWorking ==
    ASSUME TypeOK, NEW S, threads' = {Marked(S, th) : th \in threads}
    PROVE  /\ Working = {} => Working' = {}
           /\ \A th \in Working : Working = {th} => \E th2 : Working' = {th2} /\ th2.test = th.test
<1>1. \A th \in threads : Marked(S, th).pc = th.pc /\ Marked(S, th).test = th.test
  BY MarkedFields, Zenon DEF TypeOK
<1>2. Working' = {Marked(S, th) : th \in Working}
  BY <1>1, Zenon DEF Working
<1>3. ASSUME NEW th \in Working, Working = {th}
      PROVE  Working' = {Marked(S, th)} /\ Marked(S, th).test = th.test
  BY <1>1, <1>2, <1>3 DEF Working
<1>. QED
  BY <1>2, <1>3, Zenon

\* Threads that are not told anything are marked for no test.
LEMMA MarkedForNone ==
    ASSUME UNCHANGED threads
    PROVE  threads' = {Marked({}, th) : th \in threads}
BY Zenon DEF Marked

\* send_finished_once for a daemon tells nothing of a simple test.
LEMMA DaemonReport ==
    ASSUME TypeOK, NEW t \in Test, NEW r \in Result, T[t].daemon
    PROVE  /\ FinishedOnce(t, r) \in Seq(Message)
           /\ \A k \in 1..Len(FinishedOnce(t, r)) :
                 ~Drives(FinishedOnce(t, r)[k]) /\ ~Tells(T, FinishedOnce(t, r)[k])
<1>1. TestFinished({t}, r) \in Message
  BY MessageTypes, Zenon
<1>2. ~Drives(TestFinished({t}, r)) /\ ~Tells(T, TestFinished({t}, r))
  BY Zenon DEF Drives, Tells, About, TestFinished
<1>3. CASE result_arc[t] = None
  <2>1. FinishedOnce(t, r) = <<TestFinished({t}, r)>>
    BY <1>3, Zenon DEF FinishedOnce
  <2>. QED
    BY <1>1, <1>2, <2>1
<1>4. CASE result_arc[t] # None
  BY <1>4, EmptySeq DEF FinishedOnce
<1>. QED
  BY <1>3, <1>4, Zenon

\* Stopping a unit tells its program to terminate, and reports at most a daemon.
LEMMA StopTestOutcome ==
    ASSUME TypeOK, HandleStopTest
    PROVE  /\ \E S : threads' = {Marked(S, th) : th \in threads}
           /\ \E sent \in Seq(Message) :
                 Handled(sent) /\ \A k \in 1..Len(sent) : ~Drives(sent[k]) /\ ~Tells(T, sent[k])
<1>. DEFINE u == Head(queue).unit
<1>1. \E S : threads' = {Marked(S, th) : th \in threads}
  <2>1. CASE u \in active
    BY <2>1, Zenon DEF HandleStopTest, Terminated, Marked
  <2>2. CASE u \notin active
    <3>1. UNCHANGED threads
      BY <2>2, Zenon DEF HandleStopTest
    <3>. QED
      BY <3>1, MarkedForNone, Zenon
  <2>. QED
    BY <2>1, <2>2, Zenon
<1>2. CASE u \in active /\ u \in Test /\ T[u].daemon
  <2>1. Handled(FinishedOnce(u, 0)) /\ 0 \in Result
    BY <1>2, Zenon DEF HandleStopTest, Result
  <2>. QED
    BY <1>1, <1>2, <2>1, DaemonReport, Zenon
<1>3. CASE ~(u \in active /\ u \in Test /\ T[u].daemon)
  <2>. DEFINE sent == <<>>
  <2>1. sent \in Seq(Message) /\ Handled(sent) /\ \A k \in 1..Len(sent) : FALSE
    BY <1>3, EmptySeq DEF HandleStopTest
  <2>. HIDE DEF sent
  <2>. QED
    BY <1>1, <2>1, Zenon
<1>. QED
  BY <1>2, <1>3, Zenon

-----------------------------------------------------------------------------
(***************************************************************************)
(* One driver hands on to the next.                                        *)
(***************************************************************************)
\* What a handler sends comes behind messages that neither drive nor tell, if the
\* message it handles is the one that drives, or if nothing drives and nothing tells.
Behind(sent) ==
    /\ Len(queue) \in Nat \ {0} /\ Len(sent) \in Nat
    /\ Pending' \in Seq(Message) /\ Len(Pending') = Len(queue) - 1 + Len(sent)
    /\ \A j \in 1..(Len(queue) - 1) : ~Drives(Pending'[j]) /\ ~Tells(T, Pending'[j])
    /\ \A j \in 1..Len(sent) : Pending'[Len(queue) - 1 + j] = sent[j]

\* Message i is the only one that drives, and nothing behind it tells.
OnlyDriver(i) ==
    /\ i \in 1..Len(Pending)
    /\ \A j \in 1..Len(Pending) : Drives(Pending[j]) <=> j = i
    /\ \A j \in 1..Len(Pending) : Tells(T, Pending[j]) => j < i

\* The places of what was sent, and of what was there.
LEMMA BehindPlaces ==
    ASSUME NEW sent, Behind(sent), NEW j \in 1..Len(Pending')
    PROVE  \/ j \in 1..(Len(queue) - 1) /\ ~Drives(Pending'[j]) /\ ~Tells(T, Pending'[j])
           \/ \E k \in 1..Len(sent) : j = Len(queue) - 1 + k /\ Pending'[j] = sent[k]
<1>1. /\ Len(queue) \in Nat \ {0} /\ Len(sent) \in Nat
      /\ Len(Pending') = Len(queue) - 1 + Len(sent)
  BY Zenon DEF Behind
<1>2. CASE j <= Len(queue) - 1
  BY <1>1, <1>2 DEF Behind
<1>3. CASE ~(j <= Len(queue) - 1)
  <2>1. j - (Len(queue) - 1) \in 1..Len(sent) /\ j = Len(queue) - 1 + (j - (Len(queue) - 1))
    BY <1>1, <1>3
  <2>2. Pending'[Len(queue) - 1 + (j - (Len(queue) - 1))] = sent[j - (Len(queue) - 1)]
    BY <2>1, Zenon DEF Behind
  <2>. QED
    BY <2>1, <2>2, Zenon
<1>. QED
  BY <1>2, <1>3, Zenon

\* The message handled drives: it is at the head.
LEMMA HeadIsDriver ==
    ASSUME TypeOK, DriverInv, Alive, out = <<>>, queue # <<>>, Drives(Head(queue))
    PROVE  OnMessage(1) /\ Pending = queue /\ Pending[1] = Head(queue)
<1>1. Pending = queue /\ Len(queue) \in Nat \ {0} /\ queue[1] = Head(queue)
  BY ConcatEmptySeq, EmptySeq, LenProperties DEF Pending, TypeOK
<1>2. 1 \in 1..Len(Pending) /\ Drives(Pending[1])
  BY <1>1
<1>3. MessageDrives
  BY <1>2, Zenon DEF DriverInv, AtRest, ThreadDrives, CommandDrives, NoMessageDrives
<1>. QED
  BY <1>1, <1>2, <1>3, Zenon DEF MessageDrives, OnMessage

\* Then nothing behind it drives or tells.
LEMMA HeadDrives ==
    ASSUME TypeOK, DriverInv, Alive, out = <<>>, queue # <<>>, Drives(Head(queue)),
           NEW sent \in Seq(Message), Pending' = Tail(queue) \o sent
    PROVE  Behind(sent)
<1>1. OnMessage(1) /\ Pending = queue
  BY HeadIsDriver, Zenon
<1>2. /\ queue \in Seq(Message) /\ Len(queue) \in Nat \ {0} /\ Tail(queue) \in Seq(Message)
      /\ Len(Tail(queue)) = Len(queue) - 1 /\ Len(sent) \in Nat
  BY HeadTailProperties, LenProperties DEF TypeOK
<1>3. \A j \in 1..(Len(queue) - 1) : Tail(queue)[j] = queue[j + 1]
  BY <1>2
<1>4. /\ Pending' \in Seq(Message) /\ Len(Pending') = Len(Tail(queue)) + Len(sent)
      /\ \A j \in 1..Len(Tail(queue)) + Len(sent) :
            Pending'[j] = IF j <= Len(Tail(queue)) THEN Tail(queue)[j] ELSE sent[j - Len(Tail(queue))]
  BY <1>2, ConcatProperties, Zenon
<1>5. ASSUME NEW j \in 1..(Len(queue) - 1) PROVE ~Drives(Pending'[j]) /\ ~Tells(T, Pending'[j])
  <2>1. j + 1 \in 1..Len(Pending) /\ j + 1 # 1 /\ ~(j + 1 < 1)
    BY <1>1, <1>2
  <2>2. ~Drives(Pending[j + 1]) /\ ~Tells(T, Pending[j + 1])
    BY <1>1, <2>1, Zenon DEF OnMessage
  <2>3. Pending'[j] = Tail(queue)[j]
    BY <1>2, <1>4
  <2>. QED
    BY <1>1, <1>3, <2>2, <2>3, Zenon
<1>6. ASSUME NEW j \in 1..Len(sent) PROVE Pending'[Len(queue) - 1 + j] = sent[j]
  <2>1. /\ Len(queue) - 1 + j \in 1..Len(Tail(queue)) + Len(sent)
        /\ ~(Len(queue) - 1 + j <= Len(Tail(queue)))
        /\ Len(queue) - 1 + j - Len(Tail(queue)) = j
    BY <1>2
  <2>. QED
    BY <1>4, <2>1
<1>. QED
  BY <1>2, <1>4, <1>5, <1>6, Zenon DEF Behind

\* The test at the step fits its jigs and is none of those before it.
LEMMA TestAtFacts ==
    ASSUME Lone, Known, current \in Scenario, Object.state = "Running"
    PROVE  /\ Object.step \in 1..TestCount(Desc(current))
           /\ TestAt \in Test /\ T[TestAt].compatible
           /\ TestAt \in TestsUpTo(Desc(current), Object.step)
           /\ TestAt \notin TestsUpTo(Desc(current), Object.step - 1)
           /\ TestsUpTo(Desc(current), Object.step - 1) \subseteq TestsUpTo(Desc(current), Object.step)
<1>1. TypeOK /\ Object.step \in 1..TestCount(Desc(current)) /\ TestCount(Desc(current)) \in Nat
  BY LibraryTypes, Zenon DEF Known, StepInRange, Object
<1>2. TestAt \in Test /\ TestAt \in TestsOf(Desc(current))
  BY <1>1, LibraryTypes, Zenon DEF TestAt, TestsOf
<1>3. T[TestAt].compatible
  BY <1>1, <1>2, Zenon DEF Lone, TypeOK, T, Desc
<1>4. IsTestOrder(Desc(current), T)
  BY <1>1, RunAssumption DEF TypeOK, T, Desc
<1>5. ASSUME NEW k \in 1..(Object.step - 1)
      PROVE  /\ Desc(current).test_sequence[k] # TestAt
             /\ k \in 1..Object.step
  <2>1. k \in 1..TestCount(Desc(current)) /\ k # Object.step /\ k \in 1..Object.step
    BY <1>1
  <2>. QED
    BY <1>1, <1>4, <2>1, Zenon DEF IsTestOrder, TestAt
<1>6. TestAt \in TestsUpTo(Desc(current), Object.step)
  <2>1. Object.step \in 1..Object.step
    BY <1>1
  <2>. QED
    BY <2>1, Zenon DEF TestAt, TestsUpTo
<1>. QED
  BY <1>1, <1>2, <1>3, <1>5, <1>6, Zenon DEF TestsUpTo

\* Where the scenario stands when the result it waits for comes.
LEMMA AdvanceFrom ==
    ASSUME Lone, Known, LoneBasics, DriverInv, Handling("AdvanceScenario")
    PROVE  /\ TypeOK /\ Alive /\ out = <<>> /\ queue # <<>> /\ current \in Scenario /\ current # None
           /\ Drives(Head(queue)) /\ OnMessage(1) /\ Pending[1] = Head(queue) /\ Pending = queue
           /\ Advancing(1) /\ Working = {} /\ support[current] = 0 /\ current \in active
           /\ Recorded.state = Object.state /\ Recorded.step = Object.step
           /\ Recorded.state # "ScenarioFinished"
           /\ active \cap Test \subseteq Reached(Desc(current), Recorded)
           /\ active \cap Test \subseteq TestsOf(Desc(current))
<1>1. /\ TypeOK /\ Alive /\ out = <<>> /\ queue # <<>> /\ current \in Scenario /\ current # None
      /\ Head(queue).what = "AdvanceScenario" /\ Drives(Head(queue))
  BY RunAssumption DEF Known, Handling, LoneBasics, Drives, Unit
<1>2. OnMessage(1) /\ Pending[1] = Head(queue) /\ Pending = queue
  BY <1>1, HeadIsDriver, Zenon
<1>3. Advancing(1) /\ Working = {} /\ support[current] = 0 /\ current \in active
  BY <1>1, <1>2, Zenon DEF OnMessage, Starting, Stopping
<1>4. Recorded.state = Object.state /\ Recorded.step = Object.step
  BY <1>1, AdvanceTypes, Zenon DEF Object, Known
<1>5. /\ Recorded.state # "ScenarioFinished"
      /\ active \cap Test \subseteq Reached(Desc(current), Recorded)
  BY <1>3, <1>4, Zenon DEF Advancing, Reached
<1>6. Reached(Desc(current), Recorded) \subseteq TestsOf(Desc(current))
  <2>1. Recorded.state = "Running" => Recorded.step \in 1..TestCount(Desc(current))
    BY <1>1, <1>4, Zenon DEF Known, StepInRange, Object
  <2>2. TestCount(Desc(current)) \in Nat
    BY <1>1, LibraryTypes, Zenon
  <2>3. Recorded.state = "Running" => \A k \in 1..Recorded.step : k \in 1..TestCount(Desc(current))
    BY <2>1, <2>2
  <2>. QED
    BY <2>3, Zenon DEF Reached, TestsUpTo, TestsOf
<1>. QED
  BY <1>1, <1>2, <1>3, <1>4, <1>5, <1>6, Zenon

\* A thread at work is the driver.
LEMMA WorkerDrives ==
    ASSUME DriverInv, Alive, NEW th \in threads, th.pc \in {"wait", "advance", "starting"}
    PROVE  ThreadDrives /\ Working = {th} /\ th.test = TestAt
<1>1. th \in Working
  BY Zenon DEF Working
<1>2. ThreadDrives
  BY <1>1, Zenon DEF DriverInv, AtRest, MessageDrives, OnMessage, CommandDrives
<1>. QED
  BY <1>1, <1>2, Zenon DEF ThreadDrives, OnThread

\* The test at the step has no verdict yet.
LEMMA TestAtPending ==
    ASSUME Known, current \in Scenario, Object.state = "Running"
    PROVE  Object.test_states[TestAt] = "Pending"
<1>1. /\ Object.step \in 1..TestCount(Desc(current))
      /\ PendingFrom(Desc(current), Object, Object.step)
  BY Zenon DEF Known, VerdictInv, ObjectInv, Object
<1>2. TestCount(Desc(current)) \in Nat
  BY LibraryTypes, Zenon DEF Known
<1>3. Object.step \in Object.step..TestCount(Desc(current))
  BY <1>1, <1>2
<1>. QED
  BY <1>1, <1>3, Zenon DEF PendingFrom, TestAt

\* The result is recorded for the test at the step, and nothing else.
LEMMA RecordedStates ==
    ASSUME Known, Handling("AdvanceScenario"), current \in Scenario, current # None, NEW t \in Test
    PROVE  Recorded.test_states[t] = IF Object.state = "Running" /\ t = TestAt
                                     THEN Verdict(Head(queue).result) ELSE Object.test_states[t]
<1>1. Object \in ScenarioObject /\ Object.test_states \in [Test -> TestState]
  BY Zenon DEF Known, TypeOK, Object, ScenarioObject
<1>. DEFINE states == IF Object.state = "Running"
                      THEN [Object.test_states EXCEPT ![TestAt] = Verdict(Head(queue).result)]
                      ELSE Object.test_states
            base == [Object EXCEPT
                       !.failures = IF Object.state \in {"Running", "PreStart"} /\ Head(queue).result # 0
                                    THEN @ + 1 ELSE @,
                       !.exec_start_state = IF Object.state = "PreStart" THEN Verdict(Head(queue).result) ELSE @,
                       !.test_states = states]
<1>2. Recorded = base
  BY Zenon DEF Recorded, RecordResult, Object, TestAt
<1>3. base.test_states = states
  <2>. HIDE DEF states
  <2>. QED
    BY <1>1, Zenon DEF ScenarioObject
<1>4. states[t] = IF Object.state = "Running" /\ t = TestAt
                  THEN Verdict(Head(queue).result) ELSE Object.test_states[t]
  BY <1>1, Zenon
<1>. QED
  BY <1>2, <1>3, <1>4

\* What is sent before a support command is started ends so.
LEMMA BeforeEndsSo ==
    ASSUME NEW S
    PROVE  Before(S) = <<>> \/ Before(S)[Len(Before(S))].what \in {"StopTest", "Skip"}
<1>. DEFINE a == StopLastTest(Recorded)
            b == SkipMessages(S)
<1>1. a = <<>> \/ \E x : a = <<x>> /\ x.what = "StopTest"
  BY DEF StopLastTest, StopTest
<1>2. b = <<>> \/ \E y : b = <<y>> /\ y.what = "Skip"
  BY DEF SkipMessages, Skip
<1>. HIDE DEF a, b
<1>3. a \o b = <<>> \/ (a \o b)[Len(a \o b)].what \in {"StopTest", "Skip"}
  BY <1>1, <1>2
<1>. QED
  BY <1>3, Zenon DEF Before, a, b

\* A lone scenario has one driver, or rests, in every state.
LEMMA DriverInvariant ==
    ASSUME Lone
    PROVE  Spec => [](LoneBasics /\ DriverInv)
\* A step that does not concern what drives the run leaves it to drive.
<1>QuietKeeps.
    ASSUME TypeOK, TypeOK', DriverInv, Alive, NEW first \in {1, 2}, NEW new, QuietStep(first, new)
    PROVE  DriverInv'
  <2>. USE <1>QuietKeeps
  <2>1. /\ Carried(Pending, Pending', first, new)
        /\ \A m \in new : ~Drives(m) /\ ~Tells(T, m)
        /\ first = 2 => /\ ~Drives(Pending[1])
                        /\ \A t \in active' \cap Test : Pending[1] # StopTest(t)
    BY Zenon DEF QuietStep
  <2>2. /\ UNCHANGED <<library, current, scenario, support, panicked>>
        /\ active' \subseteq active /\ (current \in active => current \in active')
    BY Zenon DEF QuietStep
  <2>3. /\ Working = {} => Working' = {}
        /\ \A th \in Working : Working = {th} => \E th2 : Working' = {th2} /\ th2.test = th.test
    BY Zenon DEF QuietStep
  <2>4. /\ T' = T /\ Desc(current)' = Desc(current) /\ Object' = Object /\ TestAt' = TestAt
    BY <2>2, Zenon DEF T, Desc, Object, TestAt
  <2>5. /\ Pending \in Seq(Message) /\ Len(Pending) \in Nat
        /\ Pending' \in Seq(Message) /\ Len(Pending') \in Nat
    <3>1. queue' \in Seq(Message) /\ out' \in Seq(Message)
      BY Zenon DEF TypeOK
    <3>2. Pending' \in Seq(Message)
      BY <3>1, ConcatProperties, Zenon DEF Pending
    <3>. QED
      BY <3>2, PendingTypes, LenProperties, Zenon
  <2>6. \A m : Drives(m)' <=> Drives(m)
    BY <2>2, Zenon DEF Drives
  <2>7. \A j \in 1..Len(Pending') :
           Pending'[j] \in new \/ \E h \in first..Len(Pending) : Pending'[j] = Pending[h]
    BY <2>1, CarriedFrom
  <2>8. \A h \in first..Len(Pending) : h \in 1..Len(Pending)
    BY <2>5
  <2>9. ASSUME NoMessageDrives PROVE NoMessageDrives'
    BY <2>1, <2>6, <2>7, <2>8, <2>9, Zenon DEF NoMessageDrives
  <2>10. CASE AtRest
    <3>1. active' = {} /\ Working' = {} /\ support'[current'] = 0 /\ NoMessageDrives'
      BY <2>2, <2>3, <2>9, <2>10, Zenon DEF AtRest
    <3>2. \A j \in 1..Len(Pending') : ~Tells(T, Pending'[j])
      BY <2>1, <2>7, <2>8, <2>10, Zenon DEF AtRest
    <3>3. AtRest'
      BY <2>4, <3>1, <3>2, Zenon DEF AtRest
    <3>. QED
      BY <3>3, Zenon DEF DriverInv
  <2>11. CASE ThreadDrives
    <3>1. PICK th \in threads : Working = {th} /\ th.test = TestAt
      BY <2>11, Zenon DEF ThreadDrives, OnThread
    <3>2. PICK th2 : Working' = {th2} /\ th2.test = th.test
      BY <2>3, <3>1, Zenon
    <3>3. th2 \in threads'
      BY <3>2, Zenon DEF Working
    <3>4. \E x \in threads' : Working' = {x} /\ x.test = TestAt'
      BY <2>4, <3>1, <3>2, <3>3, Zenon
    <3>5. \A j \in 1..Len(out') : ~Tells(T, out'[j])
      BY <2>11, Zenon DEF QuietStep, ThreadDrives
    <3>6. /\ current' \in active' /\ support'[current'] = 0 /\ NoMessageDrives'
          /\ Object'.state = "Running"
          /\ active' \cap Test \subseteq TestsUpTo(Desc(current)', Object'.step)
      BY <2>2, <2>4, <2>9, <2>11, Zenon DEF ThreadDrives
    <3>7. ThreadDrives'
      BY <2>4, <3>4, <3>5, <3>6, Zenon DEF ThreadDrives, OnThread
    <3>. QED
      BY <3>7, Zenon DEF DriverInv
  <2>12. CASE CommandDrives
    <3>2. Spawning' \/ \A j \in 1..Len(out') : ~Tells(T, out'[j])
      <4>1. CASE out' = <<>>
        BY <4>1
      <4>2. CASE out' # <<>>
        BY <2>12, <4>2, Zenon DEF QuietStep, CommandDrives
      <4>. QED
        BY <4>1, <4>2, Zenon
    <3>1. CommandDrives'
      BY <2>2, <2>3, <2>4, <2>9, <2>12, <3>2, Zenon DEF CommandDrives
    <3>. QED
      BY <3>1, Zenon DEF DriverInv
  <2>13. CASE MessageDrives
    <3>1. PICK i \in 1..Len(Pending) : OnMessage(i)
      BY <2>13, Zenon DEF MessageDrives
    <3>2. /\ current \in active /\ Working = {} /\ support[current] = 0
          /\ \A j \in 1..Len(Pending) : Drives(Pending[j]) <=> j = i
          /\ \A j \in 1..Len(Pending) : Tells(T, Pending[j]) => j < i
          /\ Advancing(i) \/ Starting(i) \/ Stopping(i)
      BY <3>1, Zenon DEF OnMessage
    <3>3. i \in first..Len(Pending)
      BY <2>1, <2>5, <3>2
    <3>11. PICK k \in 1..Len(Pending') : Placed(Pending, Pending', first, new, i, k)
      BY <2>1, <2>5, <3>3, CarriedPlace, Zenon
    <3>4. /\ Pending'[k] = Pending[i]
          /\ \A j \in 1..Len(Pending') : j < k =>
                Pending'[j] \in new \/ \E h \in first..(i - 1) : Pending'[j] = Pending[h]
          /\ \A j \in 1..Len(Pending') : j > k =>
                Pending'[j] \in new \/ \E h \in (i + 1)..Len(Pending) : Pending'[j] = Pending[h]
          /\ \A h \in first..(i - 1) : \E j \in 1..(k - 1) : Pending'[j] = Pending[h]
      BY <3>11, Zenon DEF Placed
    <3>5. ASSUME NEW j \in 1..Len(Pending'), j # k PROVE ~Drives(Pending'[j])
      <4>1. Pending'[j] \in new \/ \E h \in 1..Len(Pending) : h # i /\ Pending'[j] = Pending[h]
        <5>1. Len(Pending) \in Nat /\ Len(Pending') \in Nat /\ i \in Nat /\ k \in Nat /\ j \in Nat
          BY <2>5
        <5>2. CASE j < k
          <6>1. Pending'[j] \in new \/ \E h \in first..(i - 1) : Pending'[j] = Pending[h]
            BY <3>4, <5>2, Zenon
          <6>. QED
            BY <5>1, <6>1
        <5>3. CASE j > k
          <6>1. Pending'[j] \in new \/ \E h \in (i + 1)..Len(Pending) : Pending'[j] = Pending[h]
            BY <3>4, <5>3, Zenon
          <6>. QED
            BY <5>1, <6>1
        <5>. QED
          BY <3>5, <5>1, <5>2, <5>3
      <4>. QED
        BY <2>1, <3>2, <4>1, Zenon
    <3>6. ASSUME NEW j \in 1..Len(Pending'), Tells(T, Pending'[j]) PROVE j < k
      <4>1. j > k => \E h \in 1..Len(Pending) : h > i /\ Pending'[j] = Pending[h]
        BY <2>1, <2>5, <3>4, <3>6
      <4>2. ~(j > k) /\ j # k
        BY <2>5, <3>2, <3>4, <3>6, <4>1
      <4>. QED
        BY <2>5, <4>2
    <3>7. \A j \in 1..Len(Pending') : Drives(Pending'[j]) <=> j = k
      BY <3>2, <3>4, <3>5, Zenon
    <3>8. CASE Advancing(i)
      <4>1. Advancing(k)'
        BY <2>2, <2>4, <3>4, <3>8, Zenon DEF Advancing
      <4>2. OnMessage(k)'
        BY <2>2, <2>3, <2>4, <2>6, <3>2, <3>6, <3>7, <4>1, Zenon DEF OnMessage
      <4>. QED
        BY <4>2, Zenon DEF MessageDrives, DriverInv
    <3>9. CASE Starting(i)
      <4>1. Starting(k)'
        BY <2>2, <2>4, <3>4, <3>9, Zenon DEF Starting
      <4>2. OnMessage(k)'
        BY <2>2, <2>3, <2>4, <2>6, <3>2, <3>6, <3>7, <4>1, Zenon DEF OnMessage
      <4>. QED
        BY <4>2, Zenon DEF MessageDrives, DriverInv
    <3>10. CASE Stopping(i)
      <4>1. ASSUME NEW t \in active' \cap Test PROVE \E j \in 1..(k - 1) : Pending'[j] = StopTest(t)
        <5>1. PICK h \in 1..(i - 1) : Pending[h] = StopTest(t)
          BY <2>2, <3>10, Zenon DEF Stopping
        <5>2. h \in first..(i - 1)
          BY <2>1, <2>5, <5>1
        <5>. QED
          BY <3>4, <5>1, <5>2, Zenon
      <4>2. Stopping(k)'
        BY <2>2, <2>4, <3>4, <3>10, <4>1, Zenon DEF Stopping
      <4>3. OnMessage(k)'
        BY <2>2, <2>3, <2>4, <2>6, <3>2, <3>6, <3>7, <4>2, Zenon DEF OnMessage
      <4>. QED
        BY <4>3, Zenon DEF MessageDrives, DriverInv
    <3>. QED
      BY <3>2, <3>8, <3>9, <3>10, Zenon
  <2>. QED
    BY <2>10, <2>11, <2>12, <2>13, Zenon DEF DriverInv
\* Handling a message that drives nothing, and sending none that drives or tells.
<1>QuietHandler.
    ASSUME TypeOK, TypeOK', DriverInv, Alive, out = <<>>, queue # <<>>,
           ~Drives(Head(queue)), NEW sent \in Seq(Message), Handled(sent),
           \A k \in 1..Len(sent) : ~Drives(sent[k]) /\ ~Tells(T, sent[k]),
           UNCHANGED <<current, scenario, support>>,
           active' \subseteq active, current \in active => current \in active',
           \A t \in active' \cap Test : Head(queue) # StopTest(t),
           NEW S, threads' = {Marked(S, th) : th \in threads}
    PROVE  DriverInv'
  <2>. USE <1>QuietHandler
  <2>. DEFINE new == {sent[k] : k \in 1..Len(sent)}
  <2>1. /\ queue' = Tail(queue) /\ out' = sent /\ UNCHANGED <<library, panicked>>
    BY Zenon DEF Handled
  <2>2. /\ Carried(Pending, Pending', 2, new)
        /\ Pending = queue /\ queue[1] = Head(queue)
    BY <2>1, PendingTaken, Zenon
  <2>3. \A m \in new : ~Drives(m) /\ ~Tells(T, m)
    BY Zenon
  <2>. HIDE DEF new
  <2>4. \A j \in 1..Len(out') : ~Tells(T, out'[j])
    BY <2>1, Zenon
  <2>5. /\ Working = {} => Working' = {}
        /\ \A th \in Working : Working = {th} => \E th2 : Working' = {th2} /\ th2.test = th.test
    BY MarkedWorking, Zenon
  <2>6. QuietStep(2, new)
    BY <2>1, <2>2, <2>3, <2>4, <2>5, Zenon DEF QuietStep, Spawning
  <2>. QED
    BY <2>6, <1>QuietKeeps, Zenon
\* The messages that only change what clients are told, and refused requests.
<1>TellingKeepsDriver.
    ASSUME Known, TypeOK', LoneBasics, DriverInv,
           \/ HandleTestStarted \/ HandleTestFinished \/ HandleSkip
           \/ HandleScenarioFinished \/ StartRefused
    PROVE  DriverInv'
  <2>. USE <1>TellingKeepsDriver
  <2>1. TypeOK /\ Alive /\ out = <<>> /\ queue # <<>> /\ <<>> \in Seq(Message)
    BY EmptySeq, Zenon DEF Known, HandleTestStarted, HandleTestFinished, HandleSkip, HandleScenarioFinished,
       StartRefused, Handling
  <2>2. /\ ~Drives(Head(queue))
        /\ Head(queue).what # "StopTest"
    BY Zenon DEF HandleTestStarted, HandleTestFinished, HandleSkip, HandleScenarioFinished,
       StartRefused, Handling, Drives
  <2>3. \A t \in active' \cap Test : Head(queue) # StopTest(t)
    BY <2>2 DEF StopTest
  <2>4. CASE Panic("unwrap") \/ Panic("borrow")
    BY <2>4, Zenon DEF Panic, DriverInv, Alive
  <2>5. CASE ~(Panic("unwrap") \/ Panic("borrow"))
    <3>1. /\ Handled(<<>>)
          /\ UNCHANGED <<managerVars, scenario, testVars, support>>
      BY <2>5, Zenon DEF HandleTestStarted, HandleTestFinished, HandleSkip, HandleScenarioFinished, StartRefused
    <3>2. UNCHANGED <<current, active, threads, scenario, support>>
      BY <3>1, Zenon DEF managerVars, testVars
    <3>3. threads' = {Marked({}, th) : th \in threads}
      BY <3>2, MarkedForNone, Zenon
    <3>. DEFINE sent == <<>>
    <3>4. sent \in Seq(Message) /\ Handled(sent) /\ \A k \in 1..Len(sent) : ~Drives(sent[k]) /\ ~Tells(T, sent[k])
      BY <2>1, <3>1
    <3>. HIDE DEF sent
    <3>. QED
      BY <2>1, <2>2, <2>3, <3>2, <3>3, <3>4, <1>QuietHandler, Zenon
  <2>. QED
    BY <2>4, <2>5, Zenon
\* A test is stopped.
<1>StoppingTestKeepsDriver.
    ASSUME Known, TypeOK', LoneBasics, DriverInv, HandleStopTest, Head(queue).unit # current
    PROVE  DriverInv'
  <2>. USE <1>StoppingTestKeepsDriver
  <2>. DEFINE u == Head(queue).unit
  <2>1. TypeOK /\ Alive /\ out = <<>> /\ queue # <<>>
    BY Zenon DEF Known, HandleStopTest, Handling
  <2>2. ~Drives(Head(queue))
    BY Zenon DEF HandleStopTest, Handling, Drives
  <2>3. active' = active \ {u} /\ UNCHANGED <<current, scenario, support>>
    BY Zenon DEF HandleStopTest
  <2>4. \A t \in active' \cap Test : Head(queue) # StopTest(t)
    BY <2>3 DEF StopTest
  <2>5. active' \subseteq active /\ (current \in active => current \in active')
    BY <2>3, Zenon
  <2>6. PICK S : threads' = {Marked(S, th) : th \in threads}
    BY <2>1, StopTestOutcome, Zenon
  <2>7. PICK sent \in Seq(Message) :
           Handled(sent) /\ \A k \in 1..Len(sent) : ~Drives(sent[k]) /\ ~Tells(T, sent[k])
    BY <2>1, StopTestOutcome, Zenon
  <2>. HIDE DEF u
  <2>. QED
    BY <2>1, <2>2, <2>3, <2>4, <2>5, <2>6, <2>7, <1>QuietHandler, Zenon
\* A message comes from elsewhere, or none, that neither drives nor tells.
<1>QuietInsert.
    ASSUME TypeOK, TypeOK', DriverInv, Alive,
           \/ queue' = queue
           \/ \E m \in Message : queue' = Append(queue, m) /\ ~Drives(m) /\ ~Tells(T, m),
           UNCHANGED <<library, current, active, scenario, support, out, panicked>>,
           Working' = Working
    PROVE  DriverInv'
  <2>. USE <1>QuietInsert
  <2>1. /\ Working = {} => Working' = {}
        /\ \A th \in Working : Working = {th} => \E th2 : Working' = {th2} /\ th2.test = th.test
    BY Zenon
  <2>2. \A j \in 1..Len(out') : Tells(T, out'[j]) => \E k \in 1..Len(out) : out'[j] = out[k]
    BY Zenon
  <2>3. CASE queue' = queue
    <3>1. Pending' = Pending /\ Pending \in Seq(Message)
      BY <2>3, PendingTypes, Zenon DEF Pending
    <3>2. Carried(Pending, Pending', 1, {})
      BY <3>1, CarriedSame, Zenon
    <3>3. QuietStep(1, {})
      BY <2>1, <2>2, <3>2 DEF QuietStep, Spawning
    <3>. QED
      BY <3>3, <1>QuietKeeps, Zenon
  <2>4. ASSUME NEW m \in Message, queue' = Append(queue, m), ~Drives(m), ~Tells(T, m)
        PROVE  DriverInv'
    <3>. DEFINE new == {m}
    <3>1. Carried(Pending, Pending', 1, new)
      BY <2>4, PendingInsert, Zenon
    <3>2. \A x \in new : ~Drives(x) /\ ~Tells(T, x)
      BY <2>4, Zenon
    <3>. HIDE DEF new
    <3>3. QuietStep(1, new)
      BY <2>1, <2>2, <3>1, <3>2 DEF QuietStep, Spawning
    <3>. QED
      BY <3>3, <1>QuietKeeps, Zenon
  <2>. QED
    BY <2>3, <2>4, Zenon
\* A client asks for a start.
<1>RequestKeepsDriver.
    ASSUME Lone, Known, TypeOK', DriverInv, NEW r \in Requests, Request(r)
    PROVE  DriverInv'
  <2>. USE <1>RequestKeepsDriver
  <2>1. r \in Message /\ r.what = "StartScenario"
    BY MessageTypes DEF Lone, StartScenario
  <2>2. ~Drives(r) /\ ~Tells(T, r)
    BY <2>1, Zenon DEF Drives, Tells, About
  <2>3. /\ queue' = Append(queue, r) /\ Alive
        /\ UNCHANGED <<library, current, active, scenario, support, out, panicked>>
        /\ Working' = Working
    BY Zenon DEF Request, managerVars, testVars, Working
  <2>. QED
    BY <2>1, <2>2, <2>3, <1>QuietInsert, Zenon DEF Known
\* The main thread sends: the messages on their way stay what they are.
<1>SendKeepsDriver.
    ASSUME Known, TypeOK', DriverInv, Send
    PROVE  DriverInv'
  <2>. USE <1>SendKeepsDriver
  <2>1. /\ Alive /\ out # <<>> /\ out' = Tail(out) /\ queue' = Append(queue, Head(out))
        /\ UNCHANGED <<library, current, active, scenario, support, threads, panicked>>
    BY Zenon DEF Send, managerVars, testVars
  <2>2. TypeOK /\ Working' = Working
    BY <2>1, Zenon DEF Known, Working
  <2>3. Pending' = Pending /\ Pending \in Seq(Message)
    BY <2>1, <2>2, PendingSend, PendingTypes, Zenon
  <2>4. Carried(Pending, Pending', 1, {})
    BY <2>3, CarriedSame, Zenon
  <2>5. ASSUME NEW j \in 1..Len(out') PROVE \E k \in 1..Len(out) : out'[j] = out[k]
    <3>1. out \in Seq(Message) /\ Len(out) \in Nat /\ Len(Tail(out)) = Len(out) - 1
      BY <2>1, <2>2, HeadTailProperties, LenProperties, Zenon DEF TypeOK
    <3>2. j \in 1..(Len(out) - 1) /\ j + 1 \in 1..Len(out)
      BY <2>1, <3>1
    <3>3. Tail(out)[j] = out[j + 1]
      BY <2>1, <3>1, <3>2
    <3>. QED
      BY <2>1, <3>2, <3>3, Zenon
  <2>7. Spawning => Spawning' \/ out' = <<>>
    <3>1. out \in Seq(Message) /\ Len(out) \in Nat /\ Len(Tail(out)) = Len(out) - 1
      BY <2>1, <2>2, HeadTailProperties, LenProperties, Zenon DEF TypeOK
    <3>2. CASE Len(out) = 1
      <4>1. out' = <<>>
        BY <2>1, <3>1, <3>2
      <4>. QED
        BY <4>1
    <3>3. CASE Len(out) # 1
      <4>1. out # <<>> => Len(out) > 1
        BY <3>1, <3>3, EmptySeq
      <4>2. out # <<>> => out' # <<>> /\ out'[Len(out')] = out[Len(out)]
        BY <2>1, <3>1, <4>1
      <4>. QED
        BY <4>2, Zenon DEF Spawning
    <3>. QED
      BY <3>2, <3>3, Zenon
  <2>6. QuietStep(1, {})
    BY <2>1, <2>2, <2>4, <2>5, <2>7 DEF QuietStep
  <2>. QED
    BY <2>1, <2>2, <2>6, <1>QuietKeeps, Zenon
\* A daemon that was up, or did not come up, ends.
<1>DaemonEndKeepsDriver.
    ASSUME Known, TypeOK', LoneBasics, DriverInv, NEW th \in threads, NEW r \in Result,
           DaemonGivesUp(th) \/ DaemonExits(th, r)
    PROVE  DriverInv'
  <2>. USE <1>DaemonEndKeepsDriver
  <2>1. PICK v \in Result : ThreadStep(th, {}, FinishedOnce(th.test, v))
    BY Zenon DEF DaemonGivesUp, DaemonExits, Result
  <2>2. th.pc \in {"failing", "ready"}
    BY Zenon DEF DaemonGivesUp, DaemonExits
  <2>3. TypeOK /\ th.test \in Test /\ T[th.test].daemon
    BY <2>2, Zenon DEF Known, TypeOK, Thread, LoneBasics
  <2>4. /\ Alive /\ threads' = threads \ {th} /\ queue' = queue \o FinishedOnce(th.test, v)
        /\ UNCHANGED <<library, current, active, scenario, support, out, panicked>>
    BY <2>1, Zenon DEF ThreadStep, managerVars
  <2>5. Working' = Working
    BY <2>2, <2>4, Zenon DEF Working
  <2>6. \/ queue' = queue
        \/ \E m \in Message : queue' = Append(queue, m) /\ ~Drives(m) /\ ~Tells(T, m)
    <3>1. queue \in Seq(Message)
      BY <2>3, Zenon DEF TypeOK
    <3>2. CASE result_arc[th.test] = None
      <4>. DEFINE m == TestFinished({th.test}, v)
      <4>1. FinishedOnce(th.test, v) = <<m>>
        BY <3>2, Zenon DEF FinishedOnce
      <4>2. m \in Message
        BY <2>3, MessageTypes, Zenon
      <4>3. ~Drives(m) /\ ~Tells(T, m)
        BY <2>3, Zenon DEF Drives, Tells, About, TestFinished
      <4>. HIDE DEF m
      <4>4. queue' = Append(queue, m)
        BY <2>4, <3>1, <4>1, <4>2, AppendIsConcat, Zenon
      <4>. QED
        BY <4>2, <4>3, <4>4, Zenon
    <3>3. CASE result_arc[th.test] # None
      BY <2>4, <3>1, <3>3, ConcatEmptySeq, Zenon DEF FinishedOnce
    <3>. QED
      BY <3>2, <3>3, Zenon
  <2>. QED
    BY <2>3, <2>4, <2>5, <2>6, <1>QuietInsert, Zenon
\* One of the messages sent drives.
<1>SentDrives.
    ASSUME NEW sent, Behind(sent), UNCHANGED <<library, current>>, NEW k \in 1..Len(sent),
           \A j \in 1..Len(sent) : Drives(sent[j]) <=> j = k,
           \A j \in 1..Len(sent) : Tells(T, sent[j]) => j < k
    PROVE  \E i : /\ OnlyDriver(i)' /\ Pending'[i] = sent[k]
                  /\ \A j \in 1..(k - 1) : \E h \in 1..(i - 1) : Pending'[h] = sent[j]
  <2>. USE <1>SentDrives
  <2>1. /\ Len(queue) \in Nat \ {0} /\ Len(sent) \in Nat
        /\ Len(Pending') = Len(queue) - 1 + Len(sent)
        /\ \A j \in 1..Len(sent) : Pending'[Len(queue) - 1 + j] = sent[j]
    BY Zenon DEF Behind
  <2>2. PICK i \in Nat : i = Len(queue) - 1 + k
    <3>1. Len(queue) - 1 + k \in Nat
      BY <2>1
    <3>. QED
      BY <3>1, Zenon
  <2>3. /\ i \in 1..Len(Pending') /\ Pending'[i] = sent[k] /\ i > Len(queue) - 1
    BY <2>1, <2>2
  <2>4. (\A m : Drives(m)' <=> Drives(m)) /\ T' = T
    BY Zenon DEF Drives, T
  <2>5. ASSUME NEW j \in 1..Len(Pending')
        PROVE  /\ Drives(Pending'[j]) <=> j = i
               /\ Tells(T, Pending'[j]) => j < i
    <3>1. CASE j \in 1..(Len(queue) - 1) /\ ~Drives(Pending'[j]) /\ ~Tells(T, Pending'[j])
      BY <2>1, <2>3, <3>1, Zenon
    <3>2. ASSUME NEW h \in 1..Len(sent), j = Len(queue) - 1 + h, Pending'[j] = sent[h]
          PROVE  (Drives(Pending'[j]) <=> j = i) /\ (Tells(T, Pending'[j]) => j < i)
      <4>1. (h = k => j = i) /\ (j = i => h = k) /\ (h < k => j < i)
        BY <2>1, <2>2, <3>2
      <4>. QED
        BY <3>2, <4>1, Zenon
    <3>. QED
      BY <3>1, <3>2, BehindPlaces, Zenon
  <2>6. OnlyDriver(i)'
    BY <2>3, <2>4, <2>5, Zenon DEF OnlyDriver
  <2>7. ASSUME NEW j \in 1..(k - 1) PROVE \E h \in 1..(i - 1) : Pending'[h] = sent[j]
    <3>1. j \in 1..Len(sent) /\ Len(queue) - 1 + j \in 1..(i - 1)
      BY <2>1, <2>2
    <3>. QED
      BY <2>1, <3>1, Zenon
  <2>. QED
    BY <2>3, <2>6, <2>7, Zenon
\* None of the messages sent drives.
<1>SentDrivesNothing.
    ASSUME NEW sent, Behind(sent), UNCHANGED <<library, current>>,
           \A j \in 1..Len(sent) : ~Drives(sent[j])
    PROVE  /\ NoMessageDrives'
           /\ \A j \in 1..Len(Pending') : Tells(T, Pending'[j]) => \E k \in 1..Len(sent) : Tells(T, sent[k])
  <2>. USE <1>SentDrivesNothing
  <2>1. \A m : Drives(m)' <=> Drives(m)
    BY Zenon DEF Drives
  <2>2. ASSUME NEW j \in 1..Len(Pending')
        PROVE  /\ ~Drives(Pending'[j])
               /\ Tells(T, Pending'[j]) => \E k \in 1..Len(sent) : Tells(T, sent[k])
    BY BehindPlaces, Zenon
  <2>. QED
    BY <2>1, <2>2, Zenon DEF NoMessageDrives
\* The run is over: StopTest for the scenario itself finds no test active.
<1>StoppingScenarioKeepsDriver.
    ASSUME Lone, Known, TypeOK', LoneBasics, DriverInv, HandleStopTest, Head(queue).unit = current
    PROVE  DriverInv'
  <2>. USE <1>StoppingScenarioKeepsDriver
  <2>1. TypeOK /\ Alive /\ out = <<>> /\ queue # <<>> /\ <<>> \in Seq(Message)
        /\ Head(queue).what = "StopTest" /\ Drives(Head(queue))
    BY EmptySeq, Zenon DEF Known, HandleStopTest, Handling, Drives
  <2>2. current \in Scenario /\ current \notin Test /\ active \subseteq Test \cup {current}
    BY <2>1, RunAssumption, Zenon DEF LoneBasics, Lone, TypeOK, Unit
  <2>3. /\ Handled(<<>>) /\ active' = active \ {current}
        /\ threads' = IF current \in active THEN Terminated({current}) ELSE threads
        /\ UNCHANGED <<current, scenario, support>>
    BY <2>2, Zenon DEF HandleStopTest
  <2>. DEFINE sent == <<>>
  <2>4. sent \in Seq(Message) /\ queue' = Tail(queue) /\ out' = sent /\ Len(sent) = 0
        /\ UNCHANGED <<library, panicked>>
    BY <2>1, <2>3, Zenon DEF Handled
  <2>. HIDE DEF sent
  <2>5. Behind(sent) /\ OnMessage(1) /\ Pending[1] = Head(queue)
    <3>1. Pending' = Tail(queue) \o sent
      BY <2>4, Zenon DEF Pending
    <3>. QED
      BY <2>1, <2>4, <3>1, HeadDrives, HeadIsDriver, Zenon
  <2>6. Stopping(1) /\ Working = {} /\ support[current] = 0
    BY <2>1, <2>5, Zenon DEF OnMessage, Advancing, Starting
  <2>7. active \cap Test = {}
    <3>1. \A j : j \notin 1..(1 - 1)
      OBVIOUS
    <3>. QED
      BY <2>6, <3>1, Zenon DEF Stopping
  <2>8. active' = {}
    BY <2>2, <2>3, <2>7, Zenon
  <2>9. Working' = {}
    <3>1. \E S : threads' = {Marked(S, th) : th \in threads}
      BY <2>1, StopTestOutcome, Zenon
    <3>. QED
      BY <2>1, <2>6, <3>1, MarkedWorking, Zenon
  <2>10. /\ NoMessageDrives'
         /\ \A j \in 1..Len(Pending') : Tells(T, Pending'[j]) => \E k \in 1..Len(sent) : Tells(T, sent[k])
    <3>1. \A j \in 1..Len(sent) : ~Drives(sent[j])
      BY <2>4
    <3>. QED
      BY <2>3, <2>4, <2>5, <3>1, <1>SentDrivesNothing, Zenon
  <2>11. T' = T /\ \A j \in 1..Len(Pending') : ~Tells(T, Pending'[j])
    BY <2>4, <2>10 DEF T
  <2>12. AtRest'
    BY <2>3, <2>6, <2>8, <2>9, <2>10, <2>11, Zenon DEF AtRest
  <2>. QED
    BY <2>12, Zenon DEF DriverInv
\* A message is all that drives.
<1>MessageTakesOver.
    ASSUME NEW i, OnlyDriver(i)', current' \in active', Working' = {}, support'[current'] = 0,
           Advancing(i)' \/ Starting(i)' \/ Stopping(i)'
    PROVE  DriverInv'
  <2>. USE <1>MessageTakesOver
  <2>1. OnMessage(i)' /\ i \in 1..Len(Pending')
    BY Zenon DEF OnMessage, OnlyDriver
  <2>. QED
    BY <2>1, Zenon DEF MessageDrives, DriverInv
\* An idle scenario is started.
<1>StartSelectedKeepsDriver.
    ASSUME Lone, Known, TypeOK', LoneBasics, DriverInv, StartSelected
    PROVE  DriverInv'
  <2>. USE <1>StartSelectedKeepsDriver
  <2>1. TypeOK /\ Alive /\ out = <<>> /\ queue # <<>> /\ <<>> \in Seq(Message)
        /\ Head(queue).what = "StartScenario" /\ ~Drives(Head(queue))
    BY EmptySeq, Zenon DEF Known, StartSelected, StartAccepted, Handling, Drives
  <2>2. /\ current \in Scenario /\ current \notin Test /\ active \subseteq Test \cup {current}
        /\ Named = current
    BY <2>1, RunAssumption, Zenon DEF LoneBasics, Lone, TypeOK, Unit, StartSelected
  <2>3. UNCHANGED <<current, threads, support>>
    BY Zenon DEF StartSelected, testVars
  <2>4. CASE current \in active
    <3>. DEFINE sent == <<>>
    <3>1. Handled(sent) /\ UNCHANGED <<active, scenario>> /\ sent \in Seq(Message) /\ Len(sent) = 0
      BY <2>1, <2>2, <2>4, Zenon DEF StartSelected
    <3>. HIDE DEF sent
    <3>2. \A k \in 1..Len(sent) : ~Drives(sent[k]) /\ ~Tells(T, sent[k])
      BY <3>1
    <3>3. \A t \in active' \cap Test : Head(queue) # StopTest(t)
      BY <2>1 DEF StopTest
    <3>4. threads' = {Marked({}, th) : th \in threads}
      BY <2>3, MarkedForNone, Zenon
    <3>. QED
      BY <2>1, <2>3, <3>1, <3>2, <3>3, <3>4, <1>QuietHandler, Zenon
  <2>5. CASE current \notin active
    <3>. DEFINE m == AdvanceScenario(current, 0)
                sent == <<m>>
    <3>1. /\ active' = active \cup {current}
          /\ scenario' = [scenario EXCEPT ![current] = FreshScenario]
          /\ Handled(Append(<<>>, m))
      BY <2>2, <2>5, Zenon DEF StartSelected, ActivateScenario
    <3>2. m \in Message /\ m.what = "AdvanceScenario" /\ ~Tells(T, m) /\ Drives(m)
      BY <2>2, MessageTypes, Zenon DEF AdvanceScenario, Tells, About, Drives, Unit, Result
    <3>. HIDE DEF m
    <3>3. sent \in Seq(Message) /\ Len(sent) = 1 /\ sent[1] = m /\ Append(<<>>, m) = sent
      BY <3>2
    <3>. HIDE DEF sent
    <3>4. queue' = Tail(queue) /\ out' = sent /\ UNCHANGED <<library, panicked>>
      BY <3>1, <3>3, Zenon DEF Handled
    <3>5. AtRest
      BY <2>1, <2>5, Zenon DEF DriverInv, MessageDrives, OnMessage, ThreadDrives, CommandDrives
    <3>6. Behind(sent)
      <4>1. /\ Pending = queue /\ Len(queue) \in Nat \ {0}
            /\ Len(Pending') = Len(queue) - 1 + Len(sent)
            /\ \A j \in 1..(Len(queue) - 1) : Pending'[j] = queue[j + 1]
            /\ \A j \in 1..Len(sent) : Pending'[Len(queue) - 1 + j] = sent[j]
        BY <2>1, <3>3, <3>4, PendingTaken, Zenon
      <4>2. ASSUME NEW j \in 1..(Len(queue) - 1) PROVE ~Drives(Pending'[j]) /\ ~Tells(T, Pending'[j])
        <5>1. j + 1 \in 1..Len(Pending)
          BY <4>1
        <5>. QED
          BY <3>5, <4>1, <5>1, Zenon DEF AtRest, NoMessageDrives
      <4>3. Pending' \in Seq(Message)
        BY <2>1, <3>3, <3>4, HeadTailProperties, ConcatProperties, Zenon DEF Pending, TypeOK
      <4>. QED
        BY <3>3, <4>1, <4>2, <4>3 DEF Behind
    <3>7. /\ \A j \in 1..Len(sent) : Drives(sent[j]) <=> j = 1
          /\ \A j \in 1..Len(sent) : Tells(T, sent[j]) => j < 1
          /\ 1 \in 1..Len(sent)
      BY <3>2, <3>3
    <3>8. PICK i : OnlyDriver(i)' /\ Pending'[i] = sent[1]
      BY <2>3, <3>4, <3>6, <3>7, <1>SentDrives
    <3>9. Object' = FreshScenario
      BY <2>1, <2>2, <2>3, <3>1, Zenon DEF Object, TypeOK
    <3>10. Object'.state = "Idle" /\ active' \cap Test = {}
      BY <2>2, <3>1, <3>5, <3>9, Zenon DEF FreshScenario, AtRest
    <3>11. Advancing(i)'
      BY <3>2, <3>3, <3>8, <3>10, Zenon DEF Advancing
    <3>12. current' \in active' /\ Working' = {} /\ support'[current'] = 0
      BY <2>3, <3>1, <3>5, Zenon DEF AtRest, Working
    <3>. QED
      BY <3>8, <3>11, <3>12, <1>MessageTakesOver, Zenon
  <2>. QED
    BY <2>4, <2>5, Zenon
\* The test at the step is started: its thread drives, or the result that tells that it
\* could not be started.
<1>StartTestKeepsDriver.
    ASSUME Lone, Known, TypeOK', LoneBasics, DriverInv, HandleStartTest
    PROVE  DriverInv'
  <2>. USE <1>StartTestKeepsDriver
  <2>. DEFINE t == Head(queue).unit
              bag == <<TestStarted(t), TestFinished({t}, 1), AdvanceScenario(t, 1)>>
  <2>1. TypeOK /\ Alive /\ out = <<>> /\ queue # <<>> /\ <<>> \in Seq(Message)
        /\ Head(queue).what = "StartTest" /\ Drives(Head(queue)) /\ queue \in Seq(Message)
    BY EmptySeq, Zenon DEF Known, HandleStartTest, Handling, Drives, TypeOK
  <2>2. Head(queue) \in Message /\ t \in Test /\ current \in Scenario /\ current \notin Test
    BY <2>1, HeadTailProperties, MessageFields, RunAssumption, Zenon DEF LoneBasics
  <2>3. UNCHANGED <<library, current, scenario, support, panicked>>
    BY Zenon DEF HandleStartTest, ActivateTest
  <2>5. OnMessage(1) /\ Pending[1] = Head(queue)
    BY <2>1, HeadIsDriver, Zenon
  <2>6. Starting(1) /\ t = TestAt /\ Object.state = "Running" /\ current \in active
        /\ active \cap Test \subseteq TestsUpTo(Desc(current), Object.step - 1)
        /\ Working = {} /\ support[current] = 0
    BY <2>1, <2>5, Zenon DEF OnMessage, Advancing, Starting, Stopping
  <2>7. t \notin active /\ T[t].compatible
    BY <2>2, <2>6, TestAtFacts, Zenon
  <2>8. UNCHANGED <<T, Desc(current), Object, TestAt>>
    BY <2>3, Zenon DEF T, Desc, Object, TestAt
  <2>9. \/ /\ threads' = threads \cup
                  {[test |-> t, run |-> activations[t] + 1, result |-> 0, killed |-> FALSE,
                    pc |-> IF T[t].daemon THEN "starting" ELSE "wait"]}
           /\ active' = active \cup {t}
           /\ queue' = Append(Tail(queue), TestStarted(t)) /\ out' = out
        \/ queue' = Tail(queue) /\ out' = bag /\ UNCHANGED <<active, threads>>
    BY <2>7, Zenon DEF HandleStartTest, ActivateTest
  <2>10. CASE queue' = Tail(queue) /\ out' = bag /\ UNCHANGED <<active, threads>>
    <3>1. /\ TestStarted(t) \in Message /\ TestFinished({t}, 1) \in Message
          /\ AdvanceScenario(t, 1) \in Message
      BY <2>2, MessageTypes, Zenon DEF Result, Unit
    <3>2. /\ ~Drives(TestStarted(t)) /\ ~Drives(TestFinished({t}, 1))
          /\ Drives(AdvanceScenario(t, 1)) /\ ~Tells(T, AdvanceScenario(t, 1))
          /\ AdvanceScenario(t, 1).what = "AdvanceScenario" /\ AdvanceScenario(t, 1).from = t
      BY Zenon DEF Drives, Tells, About, TestStarted, TestFinished, AdvanceScenario
    <3>3. /\ bag \in Seq(Message) /\ Len(bag) = 3
          /\ bag[1] = TestStarted(t) /\ bag[2] = TestFinished({t}, 1) /\ bag[3] = AdvanceScenario(t, 1)
      BY <3>1
    <3>4. Pending' = Tail(queue) \o bag
      BY <2>10, Zenon DEF Pending
    <3>. HIDE DEF bag, t
    <3>5. Behind(bag)
      BY <2>1, <3>3, <3>4, HeadDrives, Zenon
    <3>6. /\ 3 \in 1..Len(bag)
          /\ \A j \in 1..Len(bag) : Drives(bag[j]) <=> j = 3
          /\ \A j \in 1..Len(bag) : Tells(T, bag[j]) => j < 3
      <4>1. \A j \in 1..Len(bag) : j = 1 \/ j = 2 \/ j = 3
        BY <3>3
      <4>. QED
        BY <3>2, <3>3, <4>1
    <3>7. PICK i : OnlyDriver(i)' /\ Pending'[i] = bag[3]
      BY <2>3, <3>5, <3>6, <1>SentDrives
    <3>8. active' \cap Test \subseteq TestsUpTo(Desc(current), Object.step)
      BY <2>2, <2>6, <2>10, TestAtFacts, Zenon
    <3>9. Advancing(i)'
      BY <2>6, <2>8, <3>2, <3>3, <3>7, <3>8, Zenon DEF Advancing, Reached
    <3>10. current' \in active' /\ Working' = {} /\ support'[current'] = 0
      BY <2>3, <2>6, <2>10, Zenon DEF Working
    <3>. QED
      BY <3>7, <3>9, <3>10, <1>MessageTakesOver, Zenon
  <2>11. ASSUME NEW new, threads' = threads \cup {new}, new.test = t, new.pc \in {"starting", "wait"},
                active' = active \cup {t}, queue' = Append(Tail(queue), TestStarted(t)), out' = out
         PROVE  DriverInv'
    <3>. DEFINE m == TestStarted(t)
                sent == <<m>>
    <3>1. m \in Message /\ ~Drives(m)
      BY <2>2, MessageTypes, Zenon DEF Drives, TestStarted
    <3>. HIDE DEF m
    <3>2. sent \in Seq(Message) /\ Len(sent) = 1 /\ sent[1] = m
      BY <3>1
    <3>3. queue' = Tail(queue) \o sent /\ Tail(queue) \in Seq(Message)
      BY <2>1, <2>11, <3>1, HeadTailProperties, AppendIsConcat, Zenon DEF m
    <3>. HIDE DEF sent
    <3>4. Pending' = Tail(queue) \o sent
      <4>1. queue' \in Seq(Message) /\ queue' \o <<>> = queue'
        BY <3>2, <3>3, ConcatEmptySeq, ConcatProperties, Zenon
      <4>2. out' = <<>>
        BY <2>1, <2>11, Zenon
      <4>. QED
        BY <3>3, <4>1, <4>2, Zenon DEF Pending
    <3>5. Behind(sent)
      BY <2>1, <3>2, <3>4, HeadDrives, Zenon
    <3>6. NoMessageDrives'
      BY <2>3, <3>1, <3>2, <3>5, <1>SentDrivesNothing
    <3>7. Working' = {new}
      BY <2>6, <2>11, Zenon DEF Working
    <3>8. \E th \in threads' : OnThread(th)'
      BY <2>6, <2>8, <2>11, <3>7, Zenon DEF OnThread
    <3>9. active' \cap Test \subseteq TestsUpTo(Desc(current), Object.step)
      BY <2>2, <2>6, <2>11, TestAtFacts, Zenon
    <3>10. \A j \in 1..Len(out') : ~Tells(T, out'[j])
      BY <2>1, <2>11
    <3>11. ThreadDrives'
      BY <2>3, <2>6, <2>8, <2>11, <3>6, <3>8, <3>9, <3>10, Zenon DEF ThreadDrives
    <3>. QED
      BY <3>11, Zenon DEF DriverInv
  <2>. QED
    BY <2>9, <2>10, <2>11, Zenon
\* The scenario goes on to the next test, to a command or to its end.
<1>AdvanceKeepsDriver.
    ASSUME Lone, Known, TypeOK', LoneBasics, DriverInv, HandleAdvanceScenario
    PROVE  DriverInv'
  <2>. USE <1>AdvanceKeepsDriver
  <2>0. Handling("AdvanceScenario")
    BY Zenon DEF HandleAdvanceScenario
  <2>1. /\ TypeOK /\ Alive /\ out = <<>> /\ queue # <<>> /\ current \in Scenario
        /\ Drives(Head(queue)) /\ Working = {} /\ support[current] = 0 /\ current \in active
        /\ Recorded.state # "ScenarioFinished"
        /\ active \cap Test \subseteq Reached(Desc(current), Recorded)
        /\ active \cap Test \subseteq TestsOf(Desc(current))
    BY <2>0, AdvanceFrom, Zenon
  <2>2. CASE Panic("index") \/ Panic("duration")
    BY <2>2, Zenon DEF Panic, DriverInv, Alive
  <2>3. CASE ~Panic("index") /\ ~Panic("duration")
    <3>1. PICK S, new : AdvancedTo(S, new)
      BY <2>3, AdvanceOutcome, Zenon
    <3>2. /\ S \in SUBSET Test /\ scenario' = [scenario EXCEPT ![current] = new]
          /\ UNCHANGED <<current, active, threads>>
          /\ GoesToTest(S, new) \/ GoesToCommand(S, new) \/ GoesToEnd(S, new)
      BY <3>1, Zenon DEF AdvancedTo, SkipsAndKeeps, managerVars, testVars
    <3>. DEFINE before == Before(S)
    <3>3. before \in Seq(Message) /\ Len(before) \in Nat /\ \A j \in 1..Len(before) : ~Drives(before[j])
      BY <2>0, <2>1, <3>2, BeforeDrivesNothing, Zenon
    <3>4. Object' = new /\ Working' = {} /\ current' \in active'
      BY <2>1, <3>2, Zenon DEF Object, TypeOK, Working
    <3>5. ASSUME NEW sent \in Seq(Message), Handled(sent)
          PROVE  Behind(sent) /\ UNCHANGED <<library, current>> /\ Desc(current)' = Desc(current) /\ T' = T
      <4>1. Pending' = Tail(queue) \o sent /\ UNCHANGED library
        BY <3>5, Zenon DEF Handled, Pending
      <4>. QED
        BY <2>1, <3>2, <4>1, HeadDrives, Zenon DEF Desc, T
    <3>6. ASSUME NEW m \in Message, Drives(m), ~Tells(T, m), Handled(before \o <<m>>)
          PROVE  \E i : OnlyDriver(i)' /\ Pending'[i] = m
      <4>. HIDE DEF before
      <4>. DEFINE sent == before \o <<m>>
      <4>1. /\ sent \in Seq(Message) /\ Len(sent) = Len(before) + 1
            /\ sent[Len(before) + 1] = m
            /\ \A j \in 1..Len(before) : sent[j] = before[j]
            /\ \A j \in 1..Len(sent) : j \in 1..Len(before) \/ j = Len(before) + 1
        BY <3>3, OneMore
      <4>2. Handled(sent)
        BY <3>6, Zenon
      <4>. HIDE DEF sent
      <4>3. Behind(sent) /\ UNCHANGED <<library, current>>
        BY <3>5, <4>1, <4>2, Zenon
      <4>4. PICK k \in 1..Len(sent) : k = Len(before) + 1
        BY <3>3, <4>1
      <4>5. /\ \A j \in 1..Len(sent) : Drives(sent[j]) <=> j = k
            /\ \A j \in 1..Len(sent) : Tells(T, sent[j]) => j < k
        BY <3>3, <3>6, <4>1, <4>4
      <4>. QED
        BY <4>1, <4>3, <4>4, <4>5, <1>SentDrives
    <3>7. CASE GoesToTest(S, new)
      <4>. DEFINE t == Desc(current).test_sequence[new.step]
                  m == StartTest(t)
      <4>1. /\ new.state = "Running" /\ new.step \in 1..TestCount(Desc(current))
            /\ new.step > LastStepLeft(Recorded) /\ Handled(before \o <<m>>)
            /\ UNCHANGED support /\ Recorded.state \in {"Idle", "PreStart", "Running"}
        BY <3>7, Zenon DEF GoesToTest
      <4>2. t \in Test /\ TestCount(Desc(current)) \in Nat
        BY <2>1, <4>1, LibraryTypes, Zenon
      <4>3. m \in Message /\ Drives(m) /\ ~Tells(T, m) /\ m.what = "StartTest" /\ m.unit = t
        BY <4>2, MessageTypes, Zenon DEF Drives, Tells, About, StartTest
      <4>. HIDE DEF m, before
      <4>4. PICK i : OnlyDriver(i)' /\ Pending'[i] = m
        BY <3>6, <4>1, <4>3, Zenon
      <4>5. UNCHANGED library
        BY <4>1, Zenon DEF Handled
      <4>6. Desc(current)' = Desc(current) /\ TestAt' = t
        BY <3>2, <3>4, <4>5, Zenon DEF Desc, TestAt
      <4>7. active \cap Test \subseteq TestsUpTo(Desc(current), new.step - 1)
        <5>1. CASE Recorded.state = "Running"
          <6>1. Recorded.step \in Nat
            BY <2>0, <2>1, AdvanceTypes, RunAssumption DEF Known, Unit, ScenarioObject
          <6>2. new.step > Recorded.step
            BY <4>1, <5>1, Zenon DEF LastStepLeft
          <6>3. \A k \in 1..Recorded.step : k \in 1..(new.step - 1)
            BY <4>1, <4>2, <6>1, <6>2
          <6>. QED
            BY <2>1, <5>1, <6>3, Zenon DEF Reached, TestsUpTo
        <5>2. CASE Recorded.state # "Running"
          BY <2>1, <4>1, <5>2, Zenon DEF Reached
        <5>. QED
          BY <5>1, <5>2, Zenon
      <4>8. Starting(i)'
        BY <3>2, <3>4, <4>1, <4>3, <4>4, <4>6, <4>7, Zenon DEF Starting
      <4>9. support'[current'] = 0
        BY <2>1, <3>2, <4>1, Zenon
      <4>. QED
        BY <3>4, <4>4, <4>8, <4>9, <1>MessageTakesOver, Zenon
    <3>8. CASE GoesToCommand(S, new)
      <4>. DEFINE m == AdvanceScenario(current, 1)
      <4>1. /\ new.state \in {"PreStart", "PostSuccess", "PostFailure"}
            /\ new.state = "PreStart" => Recorded.state = "Idle"
            /\ \/ support' = [support EXCEPT ![current] = @ + 1] /\ Handled(before)
               \/ UNCHANGED support /\ Handled(Append(before, m))
        BY <3>8, Zenon DEF GoesToCommand, RunSupportCommand
      <4>2. m \in Message /\ Drives(m) /\ ~Tells(T, m) /\ m.what = "AdvanceScenario"
        BY <2>1, MessageTypes, Zenon DEF Drives, Tells, About, AdvanceScenario, Unit, Result
      <4>. HIDE DEF m, before
      <4>3. Append(before, m) = before \o <<m>>
        BY <3>3, <4>2, AppendIsConcat, Zenon
      <4>4. UNCHANGED library
        BY <4>1, Zenon DEF Handled
      <4>5. active' \cap Test \subseteq Reached(Desc(current)', Object')
        <5>1. Desc(current)' = Desc(current) /\ active' = active /\ Object' = new
          BY <3>2, <3>4, <4>4, Zenon DEF Desc
        <5>2. CASE new.state = "PreStart"
          BY <2>1, <4>1, <5>1, <5>2, Zenon DEF Reached
        <5>3. CASE new.state \in {"PostSuccess", "PostFailure"}
          BY <2>1, <5>1, <5>3, Zenon DEF Reached
        <5>. QED
          BY <4>1, <5>2, <5>3, Zenon
      <4>6. CASE support' = [support EXCEPT ![current] = @ + 1] /\ Handled(before)
        <5>1. support'[current'] = 1
          BY <2>1, <3>2, <4>6 DEF TypeOK
        <5>2. NoMessageDrives'
          <6>1. Behind(before) /\ UNCHANGED <<library, current>>
            BY <3>3, <3>5, <4>6, Zenon
          <6>. QED
            BY <3>3, <6>1, <1>SentDrivesNothing, Zenon
        <5>4. Spawning' \/ \A j \in 1..Len(out') : ~Tells(T', out'[j])
          <6>1. out' = before
            BY <4>6, Zenon DEF Handled
          <6>2. before = <<>> \/ before[Len(before)].what \in {"StopTest", "Skip"}
            BY <3>2, BeforeEndsSo, Zenon DEF before
          <6>3. CASE before = <<>>
            BY <6>1, <6>3
          <6>4. CASE before # <<>>
            BY <6>1, <6>2, <6>4, Zenon DEF Spawning
          <6>. QED
            BY <6>3, <6>4, Zenon
        <5>3. CommandDrives'
          BY <3>4, <4>1, <4>5, <5>1, <5>2, <5>4, Zenon DEF CommandDrives
        <5>. QED
          BY <5>3, Zenon DEF DriverInv
      <4>7. CASE UNCHANGED support /\ Handled(Append(before, m))
        <5>1. PICK i : OnlyDriver(i)' /\ Pending'[i] = m
          BY <3>6, <4>2, <4>3, <4>7, Zenon
        <5>2. Advancing(i)'
          BY <3>4, <4>1, <4>2, <4>5, <5>1, Zenon DEF Advancing
        <5>3. support'[current'] = 0
          BY <2>1, <3>2, <4>7, Zenon
        <5>. QED
          BY <3>4, <5>1, <5>2, <5>3, <1>MessageTakesOver, Zenon
      <4>. QED
        BY <4>1, <4>6, <4>7, Zenon
    <3>9. CASE GoesToEnd(S, new)
      <4>. DEFINE n == TestCount(Desc(current))
                  stops == StopMessages(current)
                  f == ScenarioFinished(current, FinishCode(new))
                  sent == before \o stops \o <<f>>
      <4>1. new.state = "ScenarioFinished" /\ Handled(sent) /\ UNCHANGED support
        BY <3>9, Zenon DEF GoesToEnd
      <4>2. /\ n \in Nat /\ stops \in Seq(RunMessage) /\ Len(stops) = n + 1
            /\ \A k \in 1..n : stops[k] = StopTest(Desc(current).test_sequence[k])
            /\ stops[n + 1] = StopTest(current)
        BY <2>1, StopMessagesFacts, Zenon
      <4>3. \A k \in 1..n : Desc(current).test_sequence[k] \in Test
        BY <2>1, LibraryTypes, Zenon
      <4>4. stops \in Seq(Message)
        <5>1. RunMessage \subseteq Message
          BY Zenon DEF RunMessage
        <5>. QED
          BY <4>2, <5>1, SeqMonotonic, Zenon
      <4>5. f \in Message /\ ~Drives(f) /\ ~Tells(T, f)
        <5>1. new \in ScenarioObject
          BY <3>1, Zenon DEF AdvancedTo, SkipsAndKeeps
        <5>2. FinishCode(new) \in Nat
          BY <5>1 DEF FinishCode, ScenarioObject
        <5>. QED
          BY <2>1, <5>2, MessageTypes, Zenon DEF Drives, Tells, About, ScenarioFinished
      <4>6. /\ sent \in Seq(Message) /\ Len(sent) = Len(before) + n + 2
            /\ \A j \in 1..Len(before) : sent[j] = before[j]
            /\ \A j \in 1..(n + 1) : sent[Len(before) + j] = stops[j]
            /\ sent[Len(before) + n + 2] = f
            /\ \A j \in 1..Len(sent) : \/ j \in 1..Len(before)
                                       \/ \E k \in 1..(n + 1) : j = Len(before) + k
                                       \/ j = Len(before) + n + 2
        <5>. HIDE DEF before, stops, f, n
        <5>1. EndPlaces(before, stops, n, f, sent)
          BY <3>3, <4>2, <4>4, <4>5, EndSent, Zenon
        <5>. HIDE DEF sent
        <5>. QED
          BY <5>1, Zenon DEF EndPlaces
      <4>7. /\ \A k \in 1..n : ~Drives(stops[k])
            /\ Drives(stops[n + 1]) /\ \A k \in 1..(n + 1) : ~Tells(T, stops[k])
        <5>1. \A k \in 1..(n + 1) : k \in 1..n \/ k = n + 1
          BY <4>2
        <5>2. current \notin Test
          BY <2>1, RunAssumption, Zenon
        <5>. HIDE DEF stops, n
        <5>3. ASSUME NEW t \in Test PROVE ~Drives(StopTest(t)) /\ ~Tells(T, StopTest(t))
          BY <5>2, Zenon DEF Drives, Tells, About, StopTest
        <5>4. Drives(StopTest(current)) /\ ~Tells(T, StopTest(current))
          BY Zenon DEF Drives, Tells, About, StopTest
        <5>. QED
          BY <4>2, <4>3, <5>1, <5>3, <5>4, Zenon
      <4>. HIDE DEF before, stops, f, sent, n
      <4>8. Behind(sent) /\ UNCHANGED <<library, current>> /\ Desc(current)' = Desc(current)
        BY <3>5, <4>1, <4>6, Zenon
      <4>9. PICK k \in 1..Len(sent) : k = Len(before) + n + 1
        <5>1. Len(before) + n + 1 \in 1..Len(sent)
          BY <3>3, <4>2, <4>6
        <5>. QED
          BY <5>1, Zenon
      <4>10. sent[k] = StopTest(current)
        BY <3>3, <4>2, <4>6, <4>9
      <4>11. ASSUME NEW j \in 1..Len(sent)
             PROVE  (Drives(sent[j]) <=> j = k) /\ (Tells(T, sent[j]) => j < k)
        <5>1. CASE j \in 1..Len(before)
          <6>1. j < k
            BY <3>3, <4>2, <4>9, <5>1
          <6>. QED
            BY <3>3, <4>6, <5>1, <6>1
        <5>2. ASSUME NEW h \in 1..(n + 1), j = Len(before) + h
              PROVE  (Drives(sent[j]) <=> j = k) /\ ~Tells(T, sent[j])
          <6>1. sent[j] = stops[h]
            BY <4>6, <5>2, Zenon
          <6>2. (j = k /\ h = n + 1) \/ (j # k /\ h \in 1..n)
            BY <3>3, <4>2, <4>9, <5>2
          <6>. QED
            BY <4>7, <6>1, <6>2, Zenon
        <5>3. CASE j = Len(before) + n + 2
          <6>1. j # k
            BY <3>3, <4>2, <4>9, <5>3
          <6>. QED
            BY <4>5, <4>6, <5>3, <6>1, Zenon
        <5>. QED
          BY <4>6, <5>1, <5>2, <5>3, Zenon
      <4>12. PICK i : /\ OnlyDriver(i)' /\ Pending'[i] = sent[k]
                      /\ \A j \in 1..(k - 1) : \E h \in 1..(i - 1) : Pending'[h] = sent[j]
        BY <4>8, <4>11, <1>SentDrives, Zenon
      <4>13. ASSUME NEW t \in active' \cap Test PROVE \E h \in 1..(i - 1) : Pending'[h] = StopTest(t)
        <5>1. PICK j \in 1..n : t = Desc(current).test_sequence[j]
          BY <2>1, <3>2, Zenon DEF TestsOf, n
        <5>2. /\ j \in 1..(n + 1) /\ Len(before) + j \in 1..(k - 1)
          BY <3>3, <4>2, <4>9
        <5>3. sent[Len(before) + j] = StopTest(t)
          BY <4>2, <4>6, <5>1, <5>2, Zenon
        <5>. QED
          BY <4>12, <5>2, <5>3, Zenon
      <4>14. Stopping(i)'
        BY <3>4, <4>1, <4>10, <4>12, <4>13 DEF Stopping, StopTest
      <4>15. support'[current'] = 0
        BY <2>1, <3>2, <4>1, Zenon
      <4>. QED
        BY <3>4, <4>12, <4>14, <4>15, <1>MessageTakesOver, Zenon
    <3>. QED
      BY <3>2, <3>7, <3>8, <3>9, Zenon
  <2>. QED
    BY <2>2, <2>3, Zenon
\* A thread or a command sends the message that drives, before what the main thread has
\* yet to send.
<1>InsertDrives.
    ASSUME TypeOK, NEW m \in Message, queue' = Append(queue, m), UNCHANGED <<library, current, out>>,
           Drives(m), ~Tells(T, m), NoMessageDrives, \A j \in 1..Len(out) : ~Tells(T, out[j])
    PROVE  \E i : OnlyDriver(i)' /\ Pending'[i] = m
  <2>. USE <1>InsertDrives
  <2>1. /\ Len(queue) \in Nat /\ Len(out) \in Nat
        /\ Len(Pending) = Len(queue) + Len(out)
        /\ \A j \in 1..Len(queue) : Pending[j] = queue[j]
        /\ \A j \in 1..Len(out) : Pending[Len(queue) + j] = out[j]
    BY PendingTypes, LenProperties, Zenon DEF TypeOK
  <2>2. /\ Len(Pending') = Len(queue) + Len(out) + 1
        /\ Pending'[Len(queue) + 1] = m
        /\ \A j \in 1..Len(queue) : Pending'[j] = Pending[j]
        /\ \A j \in 1..Len(out) : Pending'[Len(queue) + 1 + j] = out[j]
    BY <2>1, PendingInsert, Zenon
  <2>3. PICK i \in Nat : i = Len(queue) + 1
    <3>1. Len(queue) + 1 \in Nat
      BY <2>1
    <3>. QED
      BY <3>1, Zenon
  <2>4. (\A x : Drives(x)' <=> Drives(x)) /\ T' = T
    BY Zenon DEF Drives, T
  <2>5. ASSUME NEW j \in 1..Len(Pending')
        PROVE  (Drives(Pending'[j]) <=> j = i) /\ (Tells(T, Pending'[j]) => j < i)
    <3>1. CASE j \in 1..Len(queue)
      <4>1. j \in 1..Len(Pending) /\ j < i
        BY <2>1, <2>3, <3>1
      <4>. QED
        BY <2>2, <3>1, <4>1 DEF NoMessageDrives
    <3>2. CASE j = i
      BY <2>2, <2>3, <3>2, Zenon
    <3>3. CASE j \notin 1..Len(queue) /\ j # i
      <4>. DEFINE h == j - (Len(queue) + 1)
      <4>1. h \in 1..Len(out) /\ j = Len(queue) + 1 + h /\ Len(queue) + h \in 1..Len(Pending)
        BY <2>1, <2>2, <2>3, <3>3
      <4>. HIDE DEF h
      <4>2. Pending'[j] = out[h] /\ Pending[Len(queue) + h] = out[h]
        BY <2>1, <2>2, <4>1, Zenon
      <4>3. ~Drives(Pending'[j]) /\ ~Tells(T, Pending'[j])
        BY <4>1, <4>2, Zenon DEF NoMessageDrives
      <4>. QED
        BY <3>3, <4>3, Zenon
    <3>. QED
      BY <3>1, <3>2, <3>3, Zenon
  <2>6. i \in 1..Len(Pending') /\ Pending'[i] = m
    BY <2>1, <2>2, <2>3
  <2>7. OnlyDriver(i)'
    BY <2>4, <2>5, <2>6, Zenon DEF OnlyDriver
  <2>. QED
    BY <2>6, <2>7, Zenon
\* A test ends or a daemon comes up, or fails to: the scenario is told.
<1>ResultKeepsDriver.
    ASSUME Known, TypeOK', LoneBasics, DriverInv, NEW th \in threads,
           SimpleAdvances(th) \/ DaemonReady(th) \/ DaemonNotReady(th)
    PROVE  DriverInv'
  <2>. USE <1>ResultKeepsDriver
  <2>1. TypeOK /\ th \in Thread /\ th.test \in Test /\ th.result \in Result /\ current \in Scenario
    BY Zenon DEF Known, TypeOK, Thread, LoneBasics
  <2>2. th.pc \in {"advance", "starting"}
    BY Zenon DEF SimpleAdvances, DaemonReady, DaemonNotReady
  <2>3. PICK r, next :
           /\ r \in Result
           /\ ThreadStep(th, next, <<AdvanceScenario(th.test, r)>>)
           /\ \A x \in next : x.pc \in {"ready", "failing"}
    <3>1. CASE SimpleAdvances(th)
      <4>. DEFINE next == {}
      <4>1. ThreadStep(th, next, <<AdvanceScenario(th.test, th.result)>>)
            /\ \A x \in next : x.pc \in {"ready", "failing"}
        BY <3>1, Zenon DEF SimpleAdvances
      <4>. HIDE DEF next
      <4>. QED
        BY <2>1, <4>1, Zenon
    <3>2. CASE DaemonReady(th)
      <4>. DEFINE next == {[th EXCEPT !.pc = "ready"]}
      <4>1. [th EXCEPT !.pc = "ready"].pc = "ready"
        BY <2>1, Zenon DEF Thread
      <4>2. /\ ThreadStep(th, next, <<AdvanceScenario(th.test, 0)>>) /\ 0 \in Result
            /\ \A x \in next : x.pc \in {"ready", "failing"}
        BY <3>2, <4>1, Zenon DEF DaemonReady, Result
      <4>. HIDE DEF next
      <4>. QED
        BY <4>2, Zenon
    <3>3. CASE DaemonNotReady(th)
      <4>. DEFINE next == {[th EXCEPT !.pc = "failing", !.killed = TRUE]}
      <4>1. [th EXCEPT !.pc = "failing", !.killed = TRUE].pc = "failing"
        BY <2>1, Zenon DEF Thread
      <4>2. /\ ThreadStep(th, next, <<AdvanceScenario(th.test, 1)>>) /\ 1 \in Result
            /\ \A x \in next : x.pc \in {"ready", "failing"}
        BY <3>3, <4>1, Zenon DEF DaemonNotReady, Result
      <4>. HIDE DEF next
      <4>. QED
        BY <4>2, Zenon
    <3>. QED
      BY <3>1, <3>2, <3>3, Zenon
  <2>. DEFINE m == AdvanceScenario(th.test, r)
  <2>4. m \in Message /\ Drives(m) /\ ~Tells(T, m) /\ m.what = "AdvanceScenario" /\ m.from = th.test
    BY <2>1, <2>3, MessageTypes, Zenon DEF Drives, Tells, About, AdvanceScenario, Unit
  <2>. HIDE DEF m
  <2>5. /\ Alive /\ threads' = (threads \ {th}) \cup next /\ queue' = queue \o <<m>>
        /\ UNCHANGED <<library, current, active, scenario, support, out, panicked>>
    BY <2>3, Zenon DEF ThreadStep, managerVars, m
  <2>6. ThreadDrives /\ Working = {th} /\ th.test = TestAt
    BY <2>2, <2>5, WorkerDrives, Zenon
  <2>7. queue' = Append(queue, m)
    <3>1. queue \in Seq(Message)
      BY <2>1, Zenon DEF TypeOK
    <3>. QED
      BY <2>4, <2>5, <3>1, AppendIsConcat, Zenon
  <2>8. PICK i : OnlyDriver(i)' /\ Pending'[i] = m
    BY <2>1, <2>4, <2>5, <2>6, <2>7, <1>InsertDrives, Zenon DEF ThreadDrives
  <2>9. Working' = {}
    BY <2>3, <2>5, <2>6, Zenon DEF Working
  <2>10. UNCHANGED <<Desc(current), Object, TestAt>>
    BY <2>5, Zenon DEF Desc, Object, TestAt
  <2>11. Advancing(i)'
    BY <2>4, <2>5, <2>6, <2>8, <2>10, Zenon DEF Advancing, Reached, ThreadDrives
  <2>12. current' \in active' /\ support'[current'] = 0
    BY <2>5, <2>6, Zenon DEF ThreadDrives
  <2>. QED
    BY <2>8, <2>9, <2>11, <2>12, <1>MessageTakesOver, Zenon
\* A simple test's program exits: its thread goes on.
<1>ExitKeepsDriver.
    ASSUME Known, TypeOK', LoneBasics, DriverInv, NEW th \in threads, NEW r \in Result, SimpleExits(th, r)
    PROVE  DriverInv'
  <2>. USE <1>ExitKeepsDriver
  <2>. DEFINE new == [th EXCEPT !.pc = "advance", !.result = r]
              m == TestFinished({th.test}, r)
  <2>1. TypeOK /\ th \in Thread /\ th.test \in Test /\ queue \in Seq(Message) /\ th.pc = "wait"
    BY Zenon DEF Known, TypeOK, Thread, SimpleExits
  <2>2. new.pc = "advance" /\ new.test = th.test
    BY <2>1, Zenon DEF Thread
  <2>3. /\ Alive /\ threads' = (threads \ {th}) \cup {new}
        /\ queue' = queue \o FinishedOnce(th.test, r)
        /\ UNCHANGED <<library, current, active, scenario, support, out, panicked>>
    BY Zenon DEF SimpleExits, ThreadStep, managerVars
  <2>4. m \in Message /\ ~Drives(m)
    BY <2>1, MessageTypes, Zenon DEF Drives, TestFinished
  <2>. HIDE DEF new
  <2>5. queue' = queue \/ queue' = Append(queue, m)
    <3>1. FinishedOnce(th.test, r) \in {<<>>, <<m>>}
      BY Zenon DEF FinishedOnce
    <3>. HIDE DEF m
    <3>. QED
      BY <2>1, <2>3, <2>4, <3>1, AppendIsConcat, ConcatEmptySeq, Zenon
  <2>. HIDE DEF m
  <2>6. ThreadDrives /\ Working = {th} /\ th.test = TestAt
    BY <2>1, <2>3, WorkerDrives, Zenon
  <2>7. NoMessageDrives'
    <3>1. \A x : Drives(x)' <=> Drives(x)
      BY <2>3, Zenon DEF Drives
    <3>2. CASE queue' = queue
      <4>1. Pending' = Pending
        BY <2>3, <3>2, Zenon DEF Pending
      <4>. QED
        BY <2>6, <3>1, <4>1, Zenon DEF NoMessageDrives, ThreadDrives
    <3>3. CASE queue' = Append(queue, m)
      <4>. DEFINE all == {m}
      <4>1. Carried(Pending, Pending', 1, all)
        BY <2>1, <2>3, <2>4, <3>3, PendingInsert, Zenon
      <4>2. \A x \in all : ~Drives(x)
        BY <2>4, Zenon
      <4>. HIDE DEF all
      <4>3. \A j \in 1..Len(Pending') :
               Pending'[j] \in all \/ \E h \in 1..Len(Pending) : Pending'[j] = Pending[h]
        BY <4>1, CarriedFrom
      <4>. QED
        BY <2>6, <3>1, <4>2, <4>3, Zenon DEF NoMessageDrives, ThreadDrives
    <3>. QED
      BY <2>5, <3>2, <3>3, Zenon
  <2>8. Working' = {new}
    BY <2>2, <2>3, <2>6, Zenon DEF Working
  <2>9. UNCHANGED <<T, Desc(current), Object, TestAt>>
    BY <2>3, Zenon DEF T, Desc, Object, TestAt
  <2>10. \E x \in threads' : OnThread(x)'
    BY <2>2, <2>3, <2>6, <2>8, <2>9, Zenon DEF OnThread
  <2>11. ThreadDrives'
    BY <2>3, <2>6, <2>7, <2>9, <2>10, Zenon DEF ThreadDrives
  <2>. QED
    BY <2>11, Zenon DEF DriverInv
\* A support command ends.
<1>SupportKeepsDriver.
    ASSUME Known, TypeOK', LoneBasics, DriverInv, NEW r \in Result, SupportExits(current, r)
    PROVE  DriverInv'
  <2>. USE <1>SupportKeepsDriver
  <2>. DEFINE m == AdvanceScenario(current, r)
  <2>0. /\ TypeOK /\ current \in Scenario /\ Alive
        /\ support[current] > (IF Spawning THEN 1 ELSE 0)
        /\ support' = [support EXCEPT ![current] = @ - 1] /\ queue' = Append(queue, m)
        /\ UNCHANGED <<library, current, active, scenario, threads, out, panicked>>
    BY Zenon DEF Known, LoneBasics, SupportExits, managerVars, testVars
  <2>1. /\ TypeOK /\ current \in Scenario /\ Alive /\ support[current] > 0
        /\ support' = [support EXCEPT ![current] = @ - 1] /\ queue' = Append(queue, m)
        /\ UNCHANGED <<library, current, active, scenario, threads, out, panicked>>
    <3>1. support[current] \in Nat
      BY <2>0, Zenon DEF TypeOK
    <3>2. support[current] > 0
      BY <2>0, <3>1
    <3>. QED
      BY <2>0, <3>2, Zenon
  <2>2. m \in Message /\ Drives(m) /\ ~Tells(T, m) /\ m.what = "AdvanceScenario"
    BY <2>1, MessageTypes, Zenon DEF Drives, Tells, About, AdvanceScenario, Unit
  <2>. HIDE DEF m
  <2>3. CommandDrives
    BY <2>1 DEF DriverInv, AtRest, MessageDrives, OnMessage, ThreadDrives
  <2>4. support'[current'] = 0 /\ current' \in active' /\ Working' = {}
    BY <2>1, <2>3 DEF CommandDrives, TypeOK, Working
  <2>5. \A j \in 1..Len(out) : ~Tells(T, out[j])
    <3>1. ~Spawning
      BY <2>0, <2>3 DEF CommandDrives
    <3>. QED
      BY <2>3, <3>1, Zenon DEF CommandDrives
  <2>6. PICK i : OnlyDriver(i)' /\ Pending'[i] = m
    BY <2>1, <2>2, <2>3, <2>5, <1>InsertDrives, Zenon DEF CommandDrives
  <2>7. UNCHANGED <<Desc(current), Object>>
    BY <2>1, Zenon DEF Desc, Object
  <2>8. Advancing(i)'
    BY <2>1, <2>2, <2>3, <2>6, <2>7, Zenon DEF Advancing, CommandDrives
  <2>. QED
    BY <2>4, <2>6, <2>8, <1>MessageTakesOver, Zenon
\* Every step of a lone scenario leaves one driver.
<1>DriverStep.
    ASSUME Lone, Known, TypeOK', LoneBasics, DriverInv, [Next]_vars
    PROVE  DriverInv'
  <2>. USE <1>DriverStep
  <2>1. CASE UNCHANGED vars
    <3>1. UNCHANGED <<library, current, active, scenario, threads, support, queue, out, panicked>>
      BY <2>1, Zenon DEF vars, managerVars, testVars
    <3>2. CASE Alive
      BY <3>1, <3>2, <1>QuietInsert, Zenon DEF Known, Working
    <3>3. CASE ~Alive
      BY <3>1, <3>3, Zenon DEF DriverInv, Alive
    <3>. QED
      BY <3>2, <3>3, Zenon
  <2>2. CASE TestThreads
    <3>. SUFFICES ASSUME NEW th \in threads, NEW r \in Result,
                         \/ SimpleExits(th, r) \/ SimpleAdvances(th) \/ DaemonReady(th)
                         \/ DaemonNotReady(th) \/ DaemonGivesUp(th) \/ DaemonExits(th, r)
                  PROVE  DriverInv'
      BY <2>2, Zenon DEF TestThreads, Result
    <3>. QED
      BY <1>ExitKeepsDriver, <1>ResultKeepsDriver, <1>DaemonEndKeepsDriver, Zenon
  <2>3. CASE HandleStopTest
    BY <2>3, <1>StoppingTestKeepsDriver, <1>StoppingScenarioKeepsDriver, Zenon
  <2>4. CASE LoneNext
    <3>1. CASE \/ HandleTestStarted \/ HandleTestFinished \/ HandleSkip
               \/ HandleScenarioFinished \/ StartRefused
      BY <3>1, <1>TellingKeepsDriver, Zenon
    <3>. QED
      BY <2>2, <2>3, <2>4, <3>1, <1>RequestKeepsDriver, <1>SendKeepsDriver, <1>SupportKeepsDriver,
         <1>StartTestKeepsDriver, <1>StartSelectedKeepsDriver, <1>AdvanceKeepsDriver, Zenon DEF LoneNext
  <2>. QED
    BY <2>1, <2>4, LoneSteps, Zenon
<1>1. Init => DriverInv
  <2>. SUFFICES ASSUME Init PROVE AtRest
    BY Zenon DEF DriverInv
  <2>1. queue = <<>> /\ out = <<>> /\ threads = {} /\ active = {} /\ support[current] = 0
    BY Zenon DEF Init
  <2>2. Pending = <<>> /\ Len(Pending) = 0
    BY <2>1, ConcatEmptySeq, EmptySeq, Zenon DEF Pending
  <2>3. \A j : j \notin 1..0
    OBVIOUS
  <2>. QED
    BY <2>1, <2>2, <2>3, Zenon DEF AtRest, NoMessageDrives, Working
<1>2. Known /\ TypeOK' /\ LoneBasics /\ DriverInv /\ [Next]_vars => DriverInv'
  BY <1>DriverStep, Zenon
<1>3. Known => TypeOK
  BY Zenon DEF Known
<1>. QED
  BY <1>1, <1>2, <1>3, KnownInvariant, BasicsInvariant, PTL DEF Spec

\* An active scenario that is loaded alone always waits for exactly one thing, and an
\* inactive one for nothing (scenario.rs:514-643, unitmanager.rs:859-961), however often
\* and whenever clients start it.
THEOREM AlwaysOneDriver ==
    ASSUME Lone
    PROVE  Spec => []OneDriver
<1>1. Known /\ LoneBasics /\ DriverInv => OneDriver
  <2>. SUFFICES ASSUME Known, LoneBasics, DriverInv, Alive, current # None
                PROVE  IF current \in active THEN \E driver \in Drivers : Drivers = {driver}
                                             ELSE Drivers = {}
    BY Zenon DEF OneDriver
  <2>0. current \in Scenario /\ support[current] \in Nat
    BY Zenon DEF LoneBasics, Known, TypeOK
  <2>1. CASE AtRest
    <3>1. {i \in 1..Len(Pending) : Drives(Pending[i])} = {} /\ 1..support[current] = {}
      BY <2>0, <2>1 DEF AtRest, NoMessageDrives
    <3>2. Drivers = {} /\ current \notin active
      BY <2>1, <3>1, Zenon DEF AtRest, Drivers
    <3>. QED
      BY <3>2, Zenon
  <2>2. CASE MessageDrives
    <3>1. PICK i \in 1..Len(Pending) : OnMessage(i)
      BY <2>2, Zenon DEF MessageDrives
    <3>2. /\ {j \in 1..Len(Pending) : Drives(Pending[j])} = {i}
          /\ Working = {} /\ 1..support[current] = {} /\ current \in active
      BY <3>1 DEF OnMessage
    <3>3. Drivers = {<<"message", i>>}
      BY <3>2, Zenon DEF Drivers
    <3>. QED
      BY <3>2, <3>3, Zenon
  <2>3. CASE ThreadDrives
    <3>1. PICK th \in threads : OnThread(th)
      BY <2>3, Zenon DEF ThreadDrives
    <3>2. /\ {j \in 1..Len(Pending) : Drives(Pending[j])} = {}
          /\ Working = {th} /\ 1..support[current] = {} /\ current \in active
      BY <2>3, <3>1 DEF ThreadDrives, OnThread, NoMessageDrives
    <3>3. Drivers = {<<"thread", th>>}
      BY <3>2, Zenon DEF Drivers
    <3>. QED
      BY <3>2, <3>3, Zenon
  <2>4. CASE CommandDrives
    <3>1. /\ {j \in 1..Len(Pending) : Drives(Pending[j])} = {}
          /\ Working = {} /\ 1..support[current] = {1} /\ current \in active
      BY <2>4 DEF CommandDrives, NoMessageDrives
    <3>2. Drivers = {<<"command", 1>>}
      BY <3>1, Zenon DEF Drivers
    <3>. QED
      BY <3>1, <3>2, Zenon
  <2>. QED
    BY <2>1, <2>2, <2>3, <2>4, Zenon DEF DriverInv
<1>. QED
  BY <1>1, KnownInvariant, DriverInvariant, PTL

\* The results a lone scenario takes while it runs a test come from that test: the
\* mismatch that advance() logs (scenario.rs:574-576) never happens.
THEOREM ResultsAlwaysFromRunningTest ==
    ASSUME Lone
    PROVE  Spec => []ResultFromRunningTest
<1>1. DriverInv => ResultFromRunningTest
  <2>. SUFFICES ASSUME DriverInv, Alive, scenario[current].state = "Running",
                       NEW i \in 1..Len(Pending), Pending[i].what = "AdvanceScenario"
                PROVE  Pending[i].from = TestAt
    BY Zenon DEF ResultFromRunningTest, TestAt, Object
  <2>1. Drives(Pending[i])
    BY Zenon DEF Drives
  <2>2. MessageDrives
    BY <2>1, Zenon DEF DriverInv, AtRest, ThreadDrives, CommandDrives, NoMessageDrives
  <2>3. OnMessage(i)
    BY <2>1, <2>2, Zenon DEF MessageDrives, OnMessage
  <2>. QED
    BY <2>3, Zenon DEF OnMessage, Advancing, Starting, Stopping, Object
<1>. QED
  BY <1>1, DriverInvariant, PTL
=============================================================================
