------------------------- MODULE ScenarioShownProofs --------------------------
(***************************************************************************)
(* Theorems about what clients see of a lone scenario (Lone): every        *)
(* activation of a test is reported once, and what was recorded of a test  *)
(* is what clients were told.                                              *)
(***************************************************************************)
EXTENDS LoneScenarioProofs

(***************************************************************************)
(* What is reported and told of simple tests.                              *)
(***************************************************************************)
\* Every activation up to the last was reported in its turn; the last one too, unless
\* its program runs.
ReportInv ==
    \A t \in Test : ~T[t].daemon =>
       /\ \A k \in 1..Len(reports[t]) : reports[t][k] = k
       /\ \/ /\ Len(reports[t]) = activations[t]
             /\ \A th \in threads : ~(th.test = t /\ th.pc = "wait")
          \/ /\ Len(reports[t]) + 1 = activations[t] /\ result_arc[t] = None
             /\ \A th \in threads : th.test = t /\ th.pc = "wait" => th.run = activations[t]
             /\ \E th \in threads : th.test = t /\ th.pc = "wait"

Word(r) == IF r = 0 THEN "PASS" ELSE "FAIL"

\* Clients are told r of t, or the last message on its way that is about t says so.
Told(p, sh, t, r) ==
    \/ sh[t] = Word(r) /\ \A i \in 1..Len(p) : ~About(p[i], t)
    \/ \E i \in 1..Len(p) :
          /\ About(p[i], t) /\ p[i].what = "TestFinished" /\ p[i].result = r
          /\ \A j \in 1..Len(p) : About(p[j], t) => j <= i

\* What was recorded of t has been told, or is a skip and on its way.
RecordTold(p, sh, t, verdict) ==
    /\ verdict \in {"Pass", "Fail"} => /\ sh[t] = IF verdict = "Pass" THEN "PASS" ELSE "FAIL"
                                       /\ \A i \in 1..Len(p) : ~About(p[i], t)
    /\ verdict = "Skip" => /\ \A i \in 1..Len(p) : About(p[i], t) => p[i].what = "Skip"
                           /\ \/ sh[t] = "SKIP"
                              \/ \E i \in 1..Len(p) : About(p[i], t)

\* A result on its way was told before it, or will be.
ShownInv ==
    Alive =>
       /\ \A t \in TestsOf(Desc(current)) :
             ~T[t].daemon => RecordTold(Pending, shown, t, Object.test_states[t])
       /\ \A th \in threads : th.pc = "advance" => Told(Pending, shown, th.test, th.result)
       /\ \A i \in 1..Len(Pending) :
             LET m == Pending[i]
             IN  m.what = "AdvanceScenario" /\ m.from \in Test /\ ~T[m.from].daemon
                 => Told(Pending, shown, m.from, m.result)
-----------------------------------------------------------------------------
(***************************************************************************)
(* Every activation of a simple test is reported once.                     *)
(***************************************************************************)
\* The simple tests' activations, reports and running programs stay.
ReportsKept ==
    /\ UNCHANGED library
    /\ \A t \in Test : ~T[t].daemon =>
          reports'[t] = reports[t] /\ activations'[t] = activations[t] /\ result_arc'[t] = result_arc[t]
    /\ \A x \in threads' : x.pc = "wait" =>
          \E y \in threads : y.pc = "wait" /\ y.test = x.test /\ y.run = x.run
    /\ \A y \in threads : y.pc = "wait" =>
          \E x \in threads' : x.pc = "wait" /\ x.test = y.test /\ x.run = y.run

\* A simple test's program exits, and is reported.
LEMMA ExitKeepsReports ==
    ASSUME Known, LoneBasics, DriverInv, ReportInv, NEW th \in threads, NEW r \in Result,
           SimpleExits(th, r)
    PROVE  ReportInv' /\ result_arc[th.test] = None
<1>. DEFINE u == th.test
            new == [th EXCEPT !.pc = "advance", !.result = r]
<1>1. TypeOK /\ th \in Thread /\ u \in Test /\ th.pc = "wait" /\ ~T[u].daemon
  BY Zenon DEF Known, TypeOK, Thread, SimpleExits, LoneBasics
<1>2. new.pc = "advance"
  BY <1>1, Zenon DEF Thread
<1>3. /\ Alive /\ threads' = (threads \ {th}) \cup {new}
      /\ UNCHANGED <<library, activations>>
      /\ result_arc' = [result_arc EXCEPT ![u] = IF @ = None THEN r ELSE @]
      /\ reports' = [reports EXCEPT ![u] = IF result_arc[u] = None THEN Append(@, th.run) ELSE @]
  BY Zenon DEF SimpleExits, ThreadStep, MarkFinished
<1>4. Working = {th}
  BY <1>1, <1>3, WorkerDrives, Zenon
<1>5. \A x \in threads : x.pc = "wait" => x = th
  BY <1>4, Zenon DEF Working
<1>6. /\ \A k \in 1..Len(reports[u]) : reports[u][k] = k
      /\ Len(reports[u]) + 1 = activations[u] /\ result_arc[u] = None /\ th.run = activations[u]
  BY <1>1, Zenon DEF ReportInv
<1>. HIDE DEF new
<1>7. \A x \in threads' : x.pc # "wait"
  BY <1>2, <1>3, <1>5, Zenon
<1>8. reports[u] \in Seq(Nat) /\ th.run \in Nat /\ Len(reports[u]) \in Nat /\ u \in DOMAIN reports
  BY <1>1, LenProperties, Zenon DEF TypeOK, Thread
<1>9. reports'[u] = Append(reports[u], th.run)
  BY <1>3, <1>6, <1>8, Zenon
<1>10. Len(reports'[u]) = activations[u] /\ \A k \in 1..Len(reports'[u]) : reports'[u][k] = k
  <2>1. /\ Len(reports'[u]) = Len(reports[u]) + 1 /\ reports'[u][Len(reports[u]) + 1] = th.run
        /\ \A k \in 1..Len(reports[u]) : reports'[u][k] = reports[u][k]
    BY <1>8, <1>9, AppendProperties
  <2>2. Len(reports'[u]) = activations[u] /\ th.run = Len(reports[u]) + 1
    BY <1>6, <2>1, Zenon
  <2>3. \A k \in 1..(Len(reports[u]) + 1) : k \in 1..Len(reports[u]) \/ k = Len(reports[u]) + 1
    BY <1>8
  <2>. QED
    BY <1>6, <2>1, <2>2, <2>3, Zenon
<1>11. ASSUME NEW t \in Test, ~T[t].daemon
       PROVE  /\ \A k \in 1..Len(reports'[t]) : reports'[t][k] = k
              /\ Len(reports'[t]) = activations'[t]
              /\ \A x \in threads' : ~(x.test = t /\ x.pc = "wait")
  <2>1. CASE t = u
    BY <1>3, <1>7, <1>10, <2>1, Zenon
  <2>2. CASE t # u
    <3>1. reports'[t] = reports[t]
      BY <1>1, <1>3, <2>2, Zenon DEF TypeOK
    <3>2. \A x \in threads : ~(x.test = t /\ x.pc = "wait")
      BY <1>5, <2>2, Zenon
    <3>3. Len(reports[t]) = activations[t] /\ \A k \in 1..Len(reports[t]) : reports[t][k] = k
      BY <1>11, <3>2, Zenon DEF ReportInv
    <3>. QED
      BY <1>3, <1>7, <3>1, <3>3, Zenon
  <2>. QED
    BY <2>1, <2>2, Zenon
<1>12. T' = T
  BY <1>3, Zenon DEF T
<1>13. ReportInv'
  BY <1>11, <1>12, Zenon DEF ReportInv
<1>. QED
  BY <1>6, <1>13, Zenon

\* Reports follow activations in every state.
LEMMA ReportInvariant ==
    ASSUME Lone
    PROVE  Spec => []ReportInv
\* Then so does what is known of their reports.
<1>ReportsKeep.
    ASSUME ReportInv, ReportsKept
    PROVE  ReportInv'
  <2>. USE <1>ReportsKeep
  <2>1. T' = T
    BY Zenon DEF ReportsKept, T
  <2>2. SUFFICES ASSUME NEW t \in Test, ~T[t].daemon
                 PROVE  /\ \A k \in 1..Len(reports'[t]) : reports'[t][k] = k
                        /\ \/ /\ Len(reports'[t]) = activations'[t]
                              /\ \A th \in threads' : ~(th.test = t /\ th.pc = "wait")
                           \/ /\ Len(reports'[t]) + 1 = activations'[t] /\ result_arc'[t] = None
                              /\ \A th \in threads' : th.test = t /\ th.pc = "wait" => th.run = activations'[t]
                              /\ \E th \in threads' : th.test = t /\ th.pc = "wait"
    BY <2>1, Zenon DEF ReportInv
  <2>3. reports'[t] = reports[t] /\ activations'[t] = activations[t] /\ result_arc'[t] = result_arc[t]
    BY <2>2, Zenon DEF ReportsKept
  <2>4. CASE /\ Len(reports[t]) = activations[t]
             /\ \A th \in threads : ~(th.test = t /\ th.pc = "wait")
    <3>1. \A th \in threads' : ~(th.test = t /\ th.pc = "wait")
      BY <2>4, Zenon DEF ReportsKept
    <3>. QED
      BY <2>2, <2>3, <2>4, <3>1, Zenon DEF ReportInv
  <2>5. CASE /\ Len(reports[t]) + 1 = activations[t] /\ result_arc[t] = None
             /\ \A th \in threads : th.test = t /\ th.pc = "wait" => th.run = activations[t]
             /\ \E th \in threads : th.test = t /\ th.pc = "wait"
    <3>1. \A th \in threads' : th.test = t /\ th.pc = "wait" => th.run = activations[t]
      BY <2>5 DEF ReportsKept
    <3>2. \E th \in threads' : th.test = t /\ th.pc = "wait"
      BY <2>5 DEF ReportsKept
    <3>. QED
      BY <2>2, <2>3, <2>5, <3>1, <3>2, Zenon DEF ReportInv
  <2>. QED
    BY <2>2, <2>4, <2>5, Zenon DEF ReportInv
\* A test is started: its program runs, or was reported at once.
<1>StartKeepsReports.
    ASSUME Lone, Known, LoneBasics, DriverInv, ReportInv, HandleStartTest
    PROVE  ReportInv'
  <2>. USE <1>StartKeepsReports
  <2>. DEFINE u == Head(queue).unit
              new == [test |-> u, run |-> activations[u] + 1, result |-> 0, killed |-> FALSE,
                      pc |-> IF T[u].daemon THEN "starting" ELSE "wait"]
  <2>1. TypeOK /\ Alive /\ out = <<>> /\ queue # <<>>
        /\ Head(queue).what = "StartTest" /\ Drives(Head(queue)) /\ queue \in Seq(Message)
    BY Zenon DEF Known, HandleStartTest, Handling, Drives, TypeOK
  <2>2. u \in Test
    BY <2>1, HeadTailProperties, MessageFields, Zenon
  <2>3. UNCHANGED library
    BY Zenon DEF HandleStartTest, ActivateTest
  <2>4. Working = {}
    BY <2>1, HeadIsDriver, Zenon DEF OnMessage
  <2>5. \A x \in threads : x.pc # "wait"
    BY <2>4, Zenon DEF Working
  <2>6. \A t \in Test : ~T[t].daemon =>
           Len(reports[t]) = activations[t] /\ \A k \in 1..Len(reports[t]) : reports[t][k] = k
    BY <2>5, Zenon DEF ReportInv
  <2>7. /\ new.pc = "wait" <=> ~T[u].daemon
        /\ new.test = u /\ new.run = activations[u] + 1
    BY Zenon
  <2>8. T' = T
    BY <2>3, Zenon DEF T
  <2>9. \/ UNCHANGED <<threads, result_arc, activations, reports>>
        \/ /\ threads' = threads \cup {new} /\ UNCHANGED reports
           /\ result_arc' = [result_arc EXCEPT ![u] = None]
           /\ activations' = [activations EXCEPT ![u] = @ + 1]
        \/ /\ UNCHANGED threads /\ reports' = [reports EXCEPT ![u] = Append(@, activations[u] + 1)]
           /\ activations' = [activations EXCEPT ![u] = @ + 1]
    BY Zenon DEF HandleStartTest, ActivateTest, testVars, ClearedResult
  <2>. HIDE DEF new, u
  <2>10. CASE UNCHANGED <<threads, result_arc, activations, reports>>
    BY <2>3, <2>10, <1>ReportsKeep, Zenon DEF ReportsKept
  <2>11. CASE /\ threads' = threads \cup {new} /\ UNCHANGED reports
              /\ result_arc' = [result_arc EXCEPT ![u] = None]
              /\ activations' = [activations EXCEPT ![u] = @ + 1]
    <3>1. ASSUME NEW t \in Test, ~T[t].daemon, t # u
          PROVE  /\ Len(reports'[t]) = activations'[t]
                 /\ \A k \in 1..Len(reports'[t]) : reports'[t][k] = k
                 /\ \A x \in threads' : ~(x.test = t /\ x.pc = "wait")
      BY <2>1, <2>5, <2>6, <2>7, <2>11, <3>1, Zenon DEF TypeOK
    <3>2. activations'[u] = activations[u] + 1 /\ result_arc'[u] = None
      BY <2>1, <2>2, <2>11, Zenon DEF TypeOK
    <3>3. ASSUME ~T[u].daemon
          PROVE  /\ \A k \in 1..Len(reports'[u]) : reports'[u][k] = k
                 /\ Len(reports'[u]) + 1 = activations'[u] /\ result_arc'[u] = None
                 /\ \A x \in threads' : x.test = u /\ x.pc = "wait" => x.run = activations'[u]
                 /\ \E x \in threads' : x.test = u /\ x.pc = "wait"
      BY <2>2, <2>5, <2>6, <2>7, <2>11, <3>2, <3>3, Zenon
    <3>. QED
      BY <2>8, <3>1, <3>3, Zenon DEF ReportInv
  <2>12. CASE /\ UNCHANGED threads /\ reports' = [reports EXCEPT ![u] = Append(@, activations[u] + 1)]
              /\ activations' = [activations EXCEPT ![u] = @ + 1]
    <3>1. ASSUME NEW t \in Test, ~T[t].daemon
          PROVE  /\ Len(reports'[t]) = activations'[t]
                 /\ \A k \in 1..Len(reports'[t]) : reports'[t][k] = k
      <4>1. CASE t # u
        BY <2>1, <2>6, <2>12, <3>1, <4>1, Zenon DEF TypeOK
      <4>2. CASE t = u
        <5>1. /\ reports[u] \in Seq(Nat) /\ activations[u] \in Nat /\ Len(reports[u]) = activations[u]
              /\ activations'[u] = activations[u] + 1
              /\ reports'[u] = Append(reports[u], activations[u] + 1)
          BY <2>1, <2>2, <2>6, <2>12, <3>1, <4>2, Zenon DEF TypeOK
        <5>2. /\ Len(reports'[u]) = Len(reports[u]) + 1
              /\ reports'[u][Len(reports[u]) + 1] = activations[u] + 1
              /\ \A k \in 1..Len(reports[u]) : reports'[u][k] = reports[u][k]
          BY <5>1, AppendProperties
        <5>3. \A k \in 1..(Len(reports[u]) + 1) : k \in 1..Len(reports[u]) \/ k = Len(reports[u]) + 1
          BY <5>1
        <5>. QED
          BY <2>6, <3>1, <4>2, <5>1, <5>2, <5>3, Zenon
      <4>. QED
        BY <4>1, <4>2, Zenon
    <3>2. \A x \in threads' : x.pc # "wait"
      BY <2>5, <2>12, Zenon
    <3>. QED
      BY <2>8, <3>1, <3>2, Zenon DEF ReportInv
  <2>. QED
    BY <2>9, <2>10, <2>11, <2>12, Zenon
\* The other steps report daemons only.
<1>ReportStep.
    ASSUME Lone, Known, LoneBasics, DriverInv, ReportInv, [Next]_vars
    PROVE  ReportInv'
  <2>. USE <1>ReportStep
  <2>0. TypeOK
    BY Zenon DEF Known
  <2>1. CASE UNCHANGED <<library, threads, result_arc, activations, reports>>
    BY <2>1, <1>ReportsKeep, Zenon DEF ReportsKept
  <2>2. CASE TestThreads
    <3>. SUFFICES ASSUME NEW th \in threads, NEW r \in Result,
                         \/ SimpleExits(th, r) \/ SimpleAdvances(th) \/ DaemonReady(th)
                         \/ DaemonNotReady(th) \/ DaemonGivesUp(th) \/ DaemonExits(th, r)
                  PROVE  ReportInv'
      BY <2>2, Zenon DEF TestThreads, Result
    <3>1. CASE SimpleExits(th, r)
      BY <3>1, ExitKeepsReports, Zenon
    <3>2. CASE ~SimpleExits(th, r)
      <4>1. th \in Thread /\ th.pc # "wait"
        BY <2>0, <3>2, Zenon DEF TypeOK, SimpleAdvances, DaemonReady, DaemonNotReady, DaemonGivesUp, DaemonExits
      <4>2. /\ [th EXCEPT !.pc = "ready"].pc = "ready"
            /\ [th EXCEPT !.pc = "failing", !.killed = TRUE].pc = "failing"
        BY <4>1, Zenon DEF Thread
      <4>3. /\ UNCHANGED <<library, activations>>
            /\ \E next : threads' = (threads \ {th}) \cup next /\ \A x \in next : x.pc # "wait"
        <5>. DEFINE Gone == {}
                    Ready == {[th EXCEPT !.pc = "ready"]}
                    Failing == {[th EXCEPT !.pc = "failing", !.killed = TRUE]}
        <5>1. \A next \in {Gone, Ready, Failing} : \A x \in next : x.pc # "wait"
          BY <4>2, Zenon
        <5>2. \E next \in {Gone, Ready, Failing} : \E sent : ThreadStep(th, next, sent)
          <6>1. CASE DaemonReady(th)
            BY <6>1, Zenon DEF DaemonReady
          <6>2. CASE DaemonNotReady(th)
            BY <6>2, Zenon DEF DaemonNotReady
          <6>3. CASE SimpleAdvances(th) \/ DaemonGivesUp(th) \/ DaemonExits(th, r)
            <7>1. \E sent : ThreadStep(th, Gone, sent)
              BY <6>3, Zenon DEF SimpleAdvances, DaemonGivesUp, DaemonExits
            <7>. QED
              BY <7>1, Zenon
          <6>. QED
            BY <3>2, <6>1, <6>2, <6>3, Zenon
        <5>. HIDE DEF Gone, Ready, Failing
        <5>. QED
          BY <5>1, <5>2, Zenon DEF ThreadStep
      <4>4. PICK next : threads' = (threads \ {th}) \cup next /\ \A x \in next : x.pc # "wait"
        BY <4>3, Zenon
      <4>5. \A t \in Test : ~T[t].daemon => reports'[t] = reports[t] /\ result_arc'[t] = result_arc[t]
        <5>1. CASE UNCHANGED <<result_arc, reports>>
          BY <5>1, Zenon
        <5>2. CASE DaemonGivesUp(th) \/ DaemonExits(th, r)
          <6>1. T[th.test].daemon
            BY <5>2, Zenon DEF DaemonGivesUp, DaemonExits, LoneBasics
          <6>2. PICK v : MarkFinished(th.test, v, th.run)
            BY <5>2, Zenon DEF DaemonGivesUp, DaemonExits
          <6>. QED
            BY <2>0, <6>1, <6>2, Zenon DEF MarkFinished, TypeOK
        <5>. QED
          BY <3>2, <5>1, <5>2, Zenon DEF SimpleAdvances, DaemonReady, DaemonNotReady
      <4>6. ReportsKept
        BY <4>1, <4>3, <4>4, <4>5, Zenon DEF ReportsKept
      <4>. QED
        BY <4>6, <1>ReportsKeep, Zenon
    <3>. QED
      BY <3>1, <3>2, Zenon
  <2>3. CASE HandleStopTest
    <3>1. PICK S : threads' = {Marked(S, th) : th \in threads}
      BY <2>0, <2>3, StopTestOutcome, Zenon
    <3>2. \A th \in threads : /\ Marked(S, th).pc = th.pc /\ Marked(S, th).test = th.test
                              /\ Marked(S, th).run = th.run
      BY <2>0, MarkedFields, Zenon DEF TypeOK
    <3>3. UNCHANGED <<library, activations>>
      BY <2>3, Zenon DEF HandleStopTest, Handled
    <3>4. \A t \in Test : ~T[t].daemon => reports'[t] = reports[t] /\ result_arc'[t] = result_arc[t]
      BY <2>0, <2>3, Zenon DEF HandleStopTest, MarkFinished, TypeOK
    <3>5. ReportsKept
      BY <3>1, <3>2, <3>3, <3>4 DEF ReportsKept
    <3>. QED
      BY <3>5, <1>ReportsKeep, Zenon
  <2>4. CASE HandleAdvanceScenario
    <3>1. CASE Panic("index") \/ Panic("duration")
      BY <2>1, <3>1, Zenon DEF Panic, testVars
    <3>2. CASE ~Panic("index") /\ ~Panic("duration")
      <4>1. PICK S, new : AdvancedTo(S, new)
        BY <2>4, <3>2, AdvanceOutcome, Zenon
      <4>2. UNCHANGED <<library, threads, result_arc, activations, reports>>
        BY <4>1, Zenon DEF AdvancedTo, testVars, GoesToTest, GoesToCommand, GoesToEnd, RunSupportCommand, Handled
      <4>. QED
        BY <2>1, <4>2, Zenon
    <3>. QED
      BY <3>1, <3>2, Zenon
  <2>5. CASE \/ UNCHANGED vars \/ \E r \in Requests : Request(r)
             \/ \E r \in Result : SupportExits(current, r)
             \/ Send \/ HandleTestStarted \/ HandleTestFinished \/ HandleSkip
             \/ HandleScenarioFinished \/ StartRefused \/ StartSelected
    <3>1. UNCHANGED <<library, threads, result_arc, activations, reports>>
      <4>1. CASE HandleScenarioFinished
        BY <4>1, Zenon DEF HandleScenarioFinished, Panic, Handled, testVars
      <4>2. CASE StartSelected
        BY <4>2, Zenon DEF StartSelected, ActivateScenario, Handled, testVars
      <4>3. CASE ~HandleScenarioFinished /\ ~StartSelected
        BY <2>5, <4>3, Zenon DEF vars, testVars, Request, SupportExits, Send, HandleTestStarted,
           HandleTestFinished, HandleSkip, StartRefused, Handled
      <4>. QED
        BY <4>1, <4>2, <4>3, Zenon
    <3>. QED
      BY <2>1, <3>1, Zenon
  <2>6. CASE HandleStartTest
    BY <2>6, <1>StartKeepsReports, Zenon
  <2>. QED
    BY <2>2, <2>3, <2>4, <2>5, <2>6, LoneSteps, Zenon DEF LoneNext
<1>1. Init => ReportInv
  <2>. SUFFICES ASSUME Init, NEW t \in Test
                PROVE  /\ \A k \in 1..Len(reports[t]) : reports[t][k] = k
                       /\ Len(reports[t]) = activations[t]
                       /\ \A th \in threads : ~(th.test = t /\ th.pc = "wait")
    BY Zenon DEF ReportInv
  <2>1. reports[t] = <<>> /\ activations[t] = 0 /\ threads = {}
    BY Zenon DEF Init
  <2>. QED
    BY <2>1
<1>2. Known /\ LoneBasics /\ DriverInv /\ ReportInv /\ [Next]_vars => ReportInv'
  BY <1>ReportStep, Zenon
<1>. QED
  BY <1>1, <1>2, KnownInvariant, DriverInvariant, PTL DEF Spec

\* send_finished_once (test.rs:316-330): every activation of a simple test of a lone
\* scenario is reported exactly once and in its turn, and lacks its report only as long
\* as its program runs.
THEOREM AlwaysReportedOnce ==
    ASSUME Lone
    PROVE  Spec => []ReportedOnce
<1>1. Known /\ ReportInv => ReportedOnce
  <2>. SUFFICES ASSUME Known, ReportInv, NEW t \in Test, ~T[t].daemon
                PROVE  /\ Len(reports[t]) <= activations[t]
                       /\ \A k \in 1..Len(reports[t]) : reports[t][k] = k
                       /\ \A run \in Len(reports[t]) + 1 .. activations[t] :
                             \E th \in threads : th.test = t /\ th.run = run /\ th.pc = "wait"
    BY Zenon DEF ReportedOnce
  <2>1. Len(reports[t]) \in Nat /\ activations[t] \in Nat
    BY LenProperties, Zenon DEF Known, TypeOK
  <2>2. \A k \in 1..Len(reports[t]) : reports[t][k] = k
    BY Zenon DEF ReportInv
  <2>3. CASE Len(reports[t]) = activations[t]
    BY <2>1, <2>2, <2>3
  <2>4. CASE /\ Len(reports[t]) + 1 = activations[t]
             /\ \A th \in threads : th.test = t /\ th.pc = "wait" => th.run = activations[t]
             /\ \E th \in threads : th.test = t /\ th.pc = "wait"
    <3>1. \A run \in Len(reports[t]) + 1 .. activations[t] : run = activations[t]
      BY <2>1, <2>4
    <3>. QED
      BY <2>1, <2>2, <2>4, <3>1
  <2>. QED
    BY <2>3, <2>4, Zenon DEF ReportInv
<1>. QED
  BY <1>1, KnownInvariant, ReportInvariant, PTL
-----------------------------------------------------------------------------
(***************************************************************************)
(* Clients are told what is recorded.                                      *)
(***************************************************************************)
\* What was told of a test stays told while messages that are not about it come and go.
LEMMA CarriedTold ==
    ASSUME NEW p \in Seq(Message), NEW q \in Seq(Message), NEW first \in {1, 2}, NEW new,
           Carried(p, q, first, new), NEW t,
           \A m \in new : ~About(m, t), first = 2 => ~About(p[1], t)
    PROVE  /\ (\A i \in 1..Len(p) : ~About(p[i], t)) => \A i \in 1..Len(q) : ~About(q[i], t)
           /\ \A sh, r : Told(p, sh, t, r) => Told(q, sh, t, r)
           /\ \A sh, v : RecordTold(p, sh, t, v) => RecordTold(q, sh, t, v)
<1>0. Len(p) \in Nat /\ Len(q) \in Nat
  BY LenProperties, Zenon
<1>1. ASSUME NEW j \in 1..Len(q), About(q[j], t)
      PROVE  \E h \in first..Len(p) : q[j] = p[h] /\ About(p[h], t) /\ h \in 1..Len(p)
  <2>1. q[j] \in new \/ \E h \in first..Len(p) : q[j] = p[h]
    BY CarriedFrom
  <2>2. \A h \in first..Len(p) : h \in 1..Len(p)
    BY <1>0
  <2>. QED
    BY <1>1, <2>1, <2>2, Zenon
<1>2. ASSUME NEW i \in 1..Len(p), About(p[i], t)
      PROVE  \E j \in 1..Len(q) : /\ q[j] = p[i]
                                  /\ \A k \in 1..Len(q) : k > j /\ About(q[k], t) =>
                                        \E h \in 1..Len(p) : h > i /\ About(p[h], t)
  <2>1. i \in first..Len(p)
    BY <1>0, <1>2
  <2>2. PICK j \in 1..Len(q) : Placed(p, q, first, new, i, j)
    BY <2>1, CarriedPlace, Zenon
  <2>3. q[j] = p[i]
    BY <2>2, Zenon DEF Placed
  <2>4. ASSUME NEW k \in 1..Len(q), k > j, About(q[k], t)
        PROVE  \E h \in 1..Len(p) : h > i /\ About(p[h], t)
    <3>1. q[k] \in new \/ \E h \in (i + 1)..Len(p) : q[k] = p[h]
      BY <2>2, <2>4, Zenon DEF Placed
    <3>2. PICK h \in (i + 1)..Len(p) : q[k] = p[h]
      BY <2>4, <3>1, Zenon
    <3>3. h \in 1..Len(p) /\ h > i
      BY <1>0
    <3>. QED
      BY <2>4, <3>2, <3>3, Zenon
  <2>. QED
    BY <2>3, <2>4, Zenon
<1>3. ASSUME \A i \in 1..Len(p) : ~About(p[i], t) PROVE \A i \in 1..Len(q) : ~About(q[i], t)
  BY <1>1, <1>3, Zenon
<1>4. ASSUME NEW sh, NEW r, Told(p, sh, t, r) PROVE Told(q, sh, t, r)
  <2>1. CASE sh[t] = Word(r) /\ \A i \in 1..Len(p) : ~About(p[i], t)
    BY <1>3, <2>1, Zenon DEF Told
  <2>2. ASSUME NEW i \in 1..Len(p), About(p[i], t), p[i].what = "TestFinished", p[i].result = r,
               \A j \in 1..Len(p) : About(p[j], t) => j <= i
        PROVE  Told(q, sh, t, r)
    <3>1. PICK j \in 1..Len(q) : /\ q[j] = p[i]
                                 /\ \A k \in 1..Len(q) : k > j /\ About(q[k], t) =>
                                        \E h \in 1..Len(p) : h > i /\ About(p[h], t)
      BY <1>2, <2>2, Zenon
    <3>2. \A h \in 1..Len(p) : About(p[h], t) => ~(h > i)
      BY <1>0, <2>2
    <3>3. \A k \in 1..Len(q) : About(q[k], t) => k <= j
      BY <1>0, <3>1, <3>2
    <3>. QED
      BY <2>2, <3>1, <3>3, Zenon DEF Told
  <2>. QED
    BY <1>4, <2>1, <2>2, Zenon DEF Told
<1>5. ASSUME NEW sh, NEW v, RecordTold(p, sh, t, v) PROVE RecordTold(q, sh, t, v)
  <2>1. v \in {"Pass", "Fail"} => /\ sh[t] = IF v = "Pass" THEN "PASS" ELSE "FAIL"
                                  /\ \A i \in 1..Len(q) : ~About(q[i], t)
    BY <1>3, <1>5, Zenon DEF RecordTold
  <2>2. ASSUME v = "Skip"
        PROVE  /\ \A j \in 1..Len(q) : About(q[j], t) => q[j].what = "Skip"
               /\ sh[t] = "SKIP" \/ \E j \in 1..Len(q) : About(q[j], t)
    <3>1. /\ \A i \in 1..Len(p) : About(p[i], t) => p[i].what = "Skip"
          /\ sh[t] = "SKIP" \/ \E i \in 1..Len(p) : About(p[i], t)
      BY <1>5, <2>2, Zenon DEF RecordTold
    <3>2. \A j \in 1..Len(q) : About(q[j], t) => q[j].what = "Skip"
      BY <1>1, <3>1
    <3>3. sh[t] = "SKIP" \/ \E j \in 1..Len(q) : About(q[j], t)
      BY <1>2, <3>1, Zenon
    <3>. QED
      BY <3>2, <3>3, Zenon
  <2>. QED
    BY <2>1, <2>2, Zenon DEF RecordTold
<1>. QED
  BY <1>3, <1>4, <1>5, Zenon

\* The result in a message from a simple test was told, or will be before.
ResultTold(p, m) ==
    m.what = "AdvanceScenario" /\ m.from \in Test /\ ~T[m.from].daemon
    => Told(p, shown, m.from, m.result)

\* A thread that waited only to send the result stays so.
AdvancersKept ==
    \A x \in threads' : x.pc = "advance" =>
       \E y \in threads : y.pc = "advance" /\ y.test = x.test /\ y.result = x.result

\* Nothing is recorded, and no message that tells comes or goes.
ShownStep(first, new) ==
    /\ Carried(Pending, Pending', first, new)
    /\ \A m \in new : ~Tells(T, m)
    /\ first = 2 => ~Tells(T, Pending[1])
    /\ UNCHANGED <<library, current, scenario, shown>>
    /\ AdvancersKept
    /\ \A m \in new : ResultTold(Pending, m)

\* Then what was told stays told.
LEMMA ShownKeeps ==
    ASSUME TypeOK, TypeOK', LoneBasics, ShownInv, Alive, NEW first \in {1, 2}, NEW new,
           ShownStep(first, new)
    PROVE  ShownInv'
<1>1. /\ Carried(Pending, Pending', first, new)
      /\ \A m \in new : ~Tells(T, m)
      /\ first = 2 => ~Tells(T, Pending[1])
      /\ UNCHANGED <<library, current, scenario, shown>>
      /\ AdvancersKept
      /\ \A m \in new : ResultTold(Pending, m)
  BY Zenon DEF ShownStep
<1>2. T' = T /\ Desc(current)' = Desc(current) /\ Object' = Object
  BY <1>1, Zenon DEF T, Desc, Object
<1>3. /\ Pending \in Seq(Message) /\ Pending' \in Seq(Message)
      /\ Len(Pending) \in Nat /\ Len(Pending') \in Nat
  <2>1. queue' \in Seq(Message) /\ out' \in Seq(Message)
    BY Zenon DEF TypeOK
  <2>2. Pending' \in Seq(Message)
    BY <2>1, ConcatProperties, Zenon DEF Pending
  <2>. QED
    BY <2>2, PendingTypes, LenProperties, Zenon
<1>. DEFINE p == Pending
            q == Pending'
<1>4. p \in Seq(Message) /\ q \in Seq(Message) /\ Carried(p, q, first, new)
  BY <1>1, <1>3, Zenon
<1>5. ASSUME NEW t \in Test, ~T[t].daemon
      PROVE  (\A m \in new : ~About(m, t)) /\ (first = 2 => ~About(p[1], t))
  BY <1>1, <1>5, Zenon DEF Tells
<1>6. ASSUME NEW t \in Test, ~T[t].daemon
      PROVE  /\ \A r : Told(p, shown, t, r) => Told(q, shown, t, r)
             /\ \A v : RecordTold(p, shown, t, v) => RecordTold(q, shown, t, v)
  <2>1. (\A m \in new : ~About(m, t)) /\ (first = 2 => ~About(p[1], t))
    BY <1>5, <1>6, Zenon
  <2>. HIDE DEF p, q
  <2>2. /\ \A sh, r : Told(p, sh, t, r) => Told(q, sh, t, r)
        /\ \A sh, v : RecordTold(p, sh, t, v) => RecordTold(q, sh, t, v)
    BY <1>4, <2>1, CarriedTold, Zenon
  <2>. QED
    BY <2>2, Zenon
<1>7. ASSUME NEW t \in TestsOf(Desc(current)), ~T[t].daemon
      PROVE  RecordTold(q, shown, t, Object.test_states[t])
  <2>1. t \in Test
    BY LibraryTypes, Zenon DEF LoneBasics
  <2>2. RecordTold(p, shown, t, Object.test_states[t])
    BY <1>7, Zenon DEF ShownInv
  <2>. HIDE DEF p, q
  <2>. QED
    BY <1>6, <1>7, <2>1, <2>2, Zenon
<1>8. ASSUME NEW x \in threads', x.pc = "advance" PROVE Told(q, shown, x.test, x.result)
  <2>1. PICK y \in threads : y.pc = "advance" /\ y.test = x.test /\ y.result = x.result
    BY <1>1, <1>8, Zenon DEF AdvancersKept
  <2>2. Told(p, shown, x.test, x.result) /\ x.test \in Test /\ ~T[x.test].daemon
    BY <2>1, Zenon DEF ShownInv, LoneBasics, TypeOK, Thread
  <2>. HIDE DEF p, q
  <2>. QED
    BY <1>6, <2>2, Zenon
<1>9. ASSUME NEW j \in 1..Len(q), q[j].what = "AdvanceScenario", q[j].from \in Test, ~T[q[j].from].daemon
      PROVE  Told(q, shown, q[j].from, q[j].result)
  <2>1. q[j] \in new \/ \E h \in first..Len(p) : q[j] = p[h]
    BY <1>1, CarriedFrom
  <2>2. \A h \in first..Len(p) : h \in 1..Len(p)
    BY <1>3
  <2>3. Told(p, shown, q[j].from, q[j].result)
    BY <1>1, <1>9, <2>1, <2>2, Zenon DEF ResultTold, ShownInv
  <2>. HIDE DEF p, q
  <2>. QED
    BY <1>6, <1>9, <2>3, Zenon
<1>. QED
  BY <1>1, <1>2, <1>7, <1>8, <1>9, Zenon DEF ShownInv

\* Handling a message that tells nothing, and sending none that tells or drives.
LEMMA ShownHandler ==
    ASSUME TypeOK, TypeOK', LoneBasics, ShownInv, Alive, out = <<>>, queue # <<>>,
           ~Tells(T, Head(queue)), NEW sent \in Seq(Message), Handled(sent),
           \A k \in 1..Len(sent) : ~Drives(sent[k]) /\ ~Tells(T, sent[k]),
           UNCHANGED <<current, scenario, shown>>,
           NEW S, threads' = {Marked(S, th) : th \in threads}
    PROVE  ShownInv'
<1>. DEFINE new == {sent[k] : k \in 1..Len(sent)}
<1>1. /\ queue' = Tail(queue) /\ out' = sent /\ UNCHANGED library
  BY Zenon DEF Handled
<1>2. /\ Carried(Pending, Pending', 2, new)
      /\ Pending = queue /\ queue[1] = Head(queue)
  BY <1>1, PendingTaken, Zenon
<1>3. \A m \in new : ~Drives(m) /\ ~Tells(T, m)
  BY Zenon
<1>. HIDE DEF new
<1>4. \A m \in new : ResultTold(Pending, m)
  BY <1>3, Zenon DEF ResultTold, Drives
<1>5. AdvancersKept
  <2>1. \A th \in threads : /\ Marked(S, th).pc = th.pc /\ Marked(S, th).test = th.test
                            /\ Marked(S, th).result = th.result
    BY MarkedFields, Zenon DEF TypeOK
  <2>. QED
    BY <2>1 DEF AdvancersKept
<1>6. ShownStep(2, new)
  BY <1>1, <1>2, <1>3, <1>4, <1>5, Zenon DEF ShownStep
<1>. QED
  BY <1>6, ShownKeeps, Zenon

\* A message comes from elsewhere, or none, that tells nothing.
LEMMA ShownInsert ==
    ASSUME TypeOK, TypeOK', LoneBasics, ShownInv, Alive,
           \/ queue' = queue
           \/ \E m \in Message : queue' = Append(queue, m) /\ ~Tells(T, m) /\ ResultTold(Pending, m),
           UNCHANGED <<library, current, scenario, shown, out>>, AdvancersKept
    PROVE  ShownInv'
<1>1. CASE queue' = queue
  <2>1. Pending' = Pending /\ Pending \in Seq(Message)
    BY <1>1, PendingTypes, Zenon DEF Pending
  <2>2. Carried(Pending, Pending', 1, {})
    BY <2>1, CarriedSame, Zenon
  <2>3. ShownStep(1, {})
    BY <2>2 DEF ShownStep
  <2>. QED
    BY <2>3, ShownKeeps, Zenon
<1>2. ASSUME NEW m \in Message, queue' = Append(queue, m), ~Tells(T, m), ResultTold(Pending, m)
      PROVE  ShownInv'
  <2>. DEFINE new == {m}
  <2>1. Carried(Pending, Pending', 1, new)
    BY <1>2, PendingInsert, Zenon
  <2>2. \A x \in new : ~Tells(T, x) /\ ResultTold(Pending, x)
    BY <1>2, Zenon
  <2>. HIDE DEF new
  <2>3. ShownStep(1, new)
    BY <2>1, <2>2 DEF ShownStep
  <2>. QED
    BY <2>3, ShownKeeps, Zenon
<1>. QED
  BY <1>1, <1>2, Zenon

\* The messages that tell clients something are handled.
LEMMA TellingKeepsShown ==
    ASSUME Known, TypeOK', LoneBasics, ShownInv, HandleTestStarted \/ HandleTestFinished \/ HandleSkip
    PROVE  ShownInv'
\* Clients are told what the message handled says of a test.
<1>TakenTold.
    ASSUME NEW p \in Seq(Message), p # <<>>, NEW t, NEW sh, NEW sh2,
           About(p[1], t) /\ p[1].what = "TestFinished" => sh2[t] = Word(p[1].result),
           About(p[1], t) /\ p[1].what = "Skip" => sh2[t] = "SKIP",
           ~About(p[1], t) => sh2[t] = sh[t]
    PROVE  /\ \A r : Told(p, sh, t, r) => Told(Tail(p), sh2, t, r)
           /\ \A v : RecordTold(p, sh, t, v) => RecordTold(Tail(p), sh2, t, v)
  <2>. USE <1>TakenTold
  <2>. DEFINE q == Tail(p)
  <2>1. /\ Len(p) \in Nat \ {0} /\ Len(q) = Len(p) - 1
        /\ \A j \in 1..Len(q) : q[j] = p[j + 1]
    BY HeadTailProperties, LenProperties, EmptySeq, Zenon
  <2>. HIDE DEF q
  <2>2. \A j \in 1..Len(q) : j + 1 \in 1..Len(p) /\ q[j] = p[j + 1]
    BY <2>1
  <2>3. ASSUME NEW i \in 1..Len(p), i # 1 PROVE i - 1 \in 1..Len(q) /\ q[i - 1] = p[i]
    <3>1. i - 1 \in 1..Len(q) /\ (i - 1) + 1 = i
      BY <2>1, <2>3
    <3>2. q[i - 1] = p[(i - 1) + 1]
      BY <2>1, <3>1, Zenon
    <3>. QED
      BY <3>1, <3>2, Zenon
  <2>4. 1 \in 1..Len(p)
    BY <2>1
  <2>5. ASSUME NEW r, Told(p, sh, t, r) PROVE Told(q, sh2, t, r)
    <3>1. CASE sh[t] = Word(r) /\ \A i \in 1..Len(p) : ~About(p[i], t)
      <4>1. sh2[t] = Word(r) /\ \A j \in 1..Len(q) : ~About(q[j], t)
        BY <2>2, <2>4, <3>1, Zenon
      <4>. QED
        BY <4>1, Zenon DEF Told
    <3>2. ASSUME NEW i \in 1..Len(p), About(p[i], t), p[i].what = "TestFinished", p[i].result = r,
                 \A j \in 1..Len(p) : About(p[j], t) => j <= i
          PROVE  Told(q, sh2, t, r)
      <4>1. CASE i = 1
        <5>1. sh2[t] = Word(r)
          BY <3>2, <4>1, Zenon
        <5>2. ASSUME NEW j \in 1..Len(q) PROVE ~About(q[j], t)
          <6>1. j + 1 \in 1..Len(p) /\ ~(j + 1 <= i) /\ q[j] = p[j + 1]
            BY <2>1, <2>2, <4>1
          <6>. QED
            BY <3>2, <6>1, Zenon
        <5>. QED
          BY <5>1, <5>2, Zenon DEF Told
      <4>2. CASE i # 1
        <5>1. i - 1 \in 1..Len(q) /\ q[i - 1] = p[i]
          BY <2>3, <4>2, Zenon
        <5>2. ASSUME NEW j \in 1..Len(q), About(q[j], t) PROVE j <= i - 1
          <6>1. j + 1 \in 1..Len(p) /\ q[j] = p[j + 1]
            BY <2>2, Zenon
          <6>2. j + 1 <= i
            BY <3>2, <5>2, <6>1, Zenon
          <6>. QED
            BY <2>1, <6>2
        <5>. QED
          BY <3>2, <5>1, <5>2, Zenon DEF Told
      <4>. QED
        BY <4>1, <4>2, Zenon
    <3>. QED
      BY <2>5, <3>1, <3>2, Zenon DEF Told
  <2>6. ASSUME NEW v, RecordTold(p, sh, t, v) PROVE RecordTold(q, sh2, t, v)
    <3>1. v \in {"Pass", "Fail"} => /\ sh2[t] = IF v = "Pass" THEN "PASS" ELSE "FAIL"
                                    /\ \A j \in 1..Len(q) : ~About(q[j], t)
      <4>1. v \in {"Pass", "Fail"} => /\ sh[t] = IF v = "Pass" THEN "PASS" ELSE "FAIL"
                                      /\ \A j \in 1..Len(p) : ~About(p[j], t)
        BY <2>6, Zenon DEF RecordTold
      <4>. QED
        BY <2>2, <2>4, <4>1, Zenon
    <3>2. ASSUME v = "Skip"
          PROVE  /\ \A j \in 1..Len(q) : About(q[j], t) => q[j].what = "Skip"
                 /\ sh2[t] = "SKIP" \/ \E j \in 1..Len(q) : About(q[j], t)
      <4>1. /\ \A i \in 1..Len(p) : About(p[i], t) => p[i].what = "Skip"
            /\ sh[t] = "SKIP" \/ \E i \in 1..Len(p) : About(p[i], t)
        BY <2>6, <3>2, Zenon DEF RecordTold
      <4>2. \A j \in 1..Len(q) : About(q[j], t) => q[j].what = "Skip"
        BY <2>2, <4>1, Zenon
      <4>3. CASE About(p[1], t)
        BY <2>4, <4>1, <4>2, <4>3, Zenon
      <4>4. CASE ~About(p[1], t)
        <5>1. (\E i \in 1..Len(p) : About(p[i], t)) => \E j \in 1..Len(q) : About(q[j], t)
          BY <2>3, <4>4, Zenon
        <5>. QED
          BY <4>1, <4>2, <4>4, <5>1, Zenon
      <4>. QED
        BY <4>3, <4>4, Zenon
    <3>. QED
      BY <3>1, <3>2, Zenon DEF RecordTold
  <2>. QED
    BY <2>5, <2>6, Zenon DEF q
<1>. DEFINE m == Head(queue)
<1>1. TypeOK /\ Alive /\ out = <<>> /\ queue # <<>> /\ queue \in Seq(Message)
  BY Zenon DEF Known, TypeOK, HandleTestStarted, HandleTestFinished, HandleSkip, Handling
<1>2. /\ queue' = Tail(queue) /\ out' = <<>>
      /\ UNCHANGED <<library, current, scenario, threads>>
  BY Zenon DEF HandleTestStarted, HandleTestFinished, HandleSkip, Handled, managerVars, testVars
<1>3. Pending = queue /\ Pending' = Tail(queue) /\ m = queue[1]
  <2>1. Tail(queue) \in Seq(Message)
    BY <1>1, HeadTailProperties, Zenon
  <2>. QED
    BY <1>1, <1>2, <2>1, ConcatEmptySeq DEF Pending
<1>4. ASSUME NEW t \in Test
      PROVE  /\ About(m, t) /\ m.what = "TestFinished" => shown'[t] = Word(m.result)
             /\ About(m, t) /\ m.what = "Skip" => shown'[t] = "SKIP"
             /\ ~About(m, t) => shown'[t] = shown[t]
  <2>1. CASE HandleTestStarted
    BY <1>1, <2>1, Zenon DEF HandleTestStarted, Handling, About, TypeOK
  <2>2. CASE HandleTestFinished
    BY <2>2, Zenon DEF HandleTestFinished, Handling, About, Word
  <2>3. CASE HandleSkip
    BY <2>3, Zenon DEF HandleSkip, Handling, About
  <2>. QED
    BY <2>1, <2>2, <2>3, Zenon
<1>5. m.what # "AdvanceScenario"
  BY Zenon DEF HandleTestStarted, HandleTestFinished, HandleSkip, Handling
<1>. DEFINE p == Pending
            q == Pending'
<1>6. ASSUME NEW t \in Test
      PROVE  /\ \A r : Told(p, shown, t, r) => Told(q, shown', t, r)
             /\ \A v : RecordTold(p, shown, t, v) => RecordTold(q, shown', t, v)
  <2>. DEFINE sh == shown
              sh2 == shown'
  <2>1. /\ About(queue[1], t) /\ queue[1].what = "TestFinished" => sh2[t] = Word(queue[1].result)
        /\ About(queue[1], t) /\ queue[1].what = "Skip" => sh2[t] = "SKIP"
        /\ ~About(queue[1], t) => sh2[t] = sh[t]
    BY <1>3, <1>4, Zenon
  <2>. HIDE DEF sh, sh2
  <2>2. /\ \A r : Told(queue, sh, t, r) => Told(Tail(queue), sh2, t, r)
        /\ \A v : RecordTold(queue, sh, t, v) => RecordTold(Tail(queue), sh2, t, v)
    BY <1>1, <2>1, <1>TakenTold, Zenon
  <2>. QED
    BY <1>3, <2>2, Zenon DEF sh, sh2
<1>7. T' = T /\ Desc(current)' = Desc(current) /\ Object' = Object
  BY <1>2, Zenon DEF T, Desc, Object
<1>8. ASSUME NEW t \in TestsOf(Desc(current)), ~T[t].daemon
      PROVE  RecordTold(q, shown', t, Object.test_states[t])
  <2>1. t \in Test /\ RecordTold(p, shown, t, Object.test_states[t])
    BY <1>1, <1>8, LibraryTypes, Zenon DEF LoneBasics, ShownInv
  <2>. HIDE DEF p, q
  <2>. QED
    BY <1>6, <2>1, Zenon
<1>9. ASSUME NEW x \in threads', x.pc = "advance" PROVE Told(q, shown', x.test, x.result)
  <2>1. x.test \in Test /\ Told(p, shown, x.test, x.result)
    BY <1>1, <1>2, <1>9, Zenon DEF ShownInv, TypeOK, Thread
  <2>. HIDE DEF p, q
  <2>. QED
    BY <1>6, <2>1, Zenon
<1>10. ASSUME NEW j \in 1..Len(q), q[j].what = "AdvanceScenario", q[j].from \in Test, ~T[q[j].from].daemon
       PROVE  Told(q, shown', q[j].from, q[j].result)
  <2>1. \E h \in 1..Len(p) : q[j] = p[h]
    <3>1. j + 1 \in 1..Len(queue) /\ Tail(queue)[j] = queue[j + 1]
      BY <1>1, <1>3, HeadTailProperties, LenProperties
    <3>. QED
      BY <1>3, <3>1, Zenon
  <2>2. Told(p, shown, q[j].from, q[j].result)
    BY <1>1, <1>10, <2>1, Zenon DEF ShownInv
  <2>. HIDE DEF p, q
  <2>. QED
    BY <1>6, <1>10, <2>2, Zenon
<1>. QED
  BY <1>7, <1>8, <1>9, <1>10, Zenon DEF ShownInv

\* Without a verdict there is nothing to tell.
LEMMA PendingIsTold ==
    ASSUME NEW p, NEW sh, NEW t
    PROVE  RecordTold(p, sh, t, "Pending")
BY Zenon DEF RecordTold

\* A simple test's program exits: the report is on its way, and no later one about it.
LEMMA ExitKeepsShown ==
    ASSUME Lone, Known, TypeOK', LoneBasics, DriverInv, ReportInv, ShownInv,
           NEW th \in threads, NEW r \in Result, SimpleExits(th, r)
    PROVE  ShownInv'
<1>. DEFINE u == th.test
            m == TestFinished({u}, r)
            new == [th EXCEPT !.pc = "advance", !.result = r]
<1>1. /\ TypeOK /\ th \in Thread /\ u \in Test /\ th.pc = "wait" /\ ~T[u].daemon
      /\ current \in Scenario /\ queue \in Seq(Message)
  BY Zenon DEF Known, TypeOK, Thread, SimpleExits, LoneBasics
<1>2. new.pc = "advance" /\ new.test = u /\ new.result = r
  BY <1>1, Zenon DEF Thread
<1>3. /\ Alive /\ threads' = (threads \ {th}) \cup {new}
      /\ queue' = queue \o FinishedOnce(u, r)
      /\ UNCHANGED <<library, current, scenario, out, shown>>
  BY Zenon DEF SimpleExits, ThreadStep, managerVars, viewVars
<1>4. result_arc[u] = None
  BY ExitKeepsReports, Zenon
<1>5. m \in Message /\ m.what = "TestFinished" /\ m.result = r /\ \A t : About(m, t) <=> t = u
  BY <1>1, MessageTypes, Zenon DEF TestFinished, About
<1>6. FinishedOnce(u, r) = <<m>>
  BY <1>4, Zenon DEF FinishedOnce
<1>. HIDE DEF m, new
<1>7. queue' = Append(queue, m)
  BY <1>1, <1>3, <1>5, <1>6, AppendIsConcat, Zenon
<1>8. ThreadDrives /\ Working = {th} /\ u = TestAt
  BY <1>1, <1>3, WorkerDrives, Zenon
<1>. DEFINE p == Pending
            q == Pending'
            all == {m}
<1>9. /\ p \in Seq(Message) /\ q \in Seq(Message) /\ Carried(p, q, 1, all)
      /\ Len(q) = Len(queue) + Len(out) + 1 /\ Len(queue) \in Nat /\ Len(out) \in Nat
      /\ q[Len(queue) + 1] = m
      /\ \A j \in 1..Len(out) : q[Len(queue) + 1 + j] = out[j]
  <2>1. /\ Carried(p, q, 1, all) /\ Len(q) = Len(p) + 1
        /\ q[Len(queue) + 1] = m
        /\ \A j \in 1..Len(out) : q[Len(queue) + 1 + j] = out[j]
    BY <1>1, <1>3, <1>5, <1>7, PendingInsert, Zenon
  <2>2. p \in Seq(Message) /\ Len(p) = Len(queue) + Len(out) /\ Len(queue) \in Nat /\ Len(out) \in Nat
    BY <1>1, PendingTypes, Zenon
  <2>3. q \in Seq(Message)
    BY ConcatProperties, Zenon DEF Pending, TypeOK
  <2>. QED
    BY <2>1, <2>2, <2>3, Zenon
<1>10. \A x \in all : x = m
  BY Zenon
<1>. HIDE DEF p, q, all
<1>16. Carried(p, q, 1, all)
  BY <1>9, Zenon
<1>17. Len(q) = Len(queue) + Len(out) + 1 /\ Len(queue) \in Nat /\ Len(out) \in Nat
  BY <1>9, Zenon
<1>11. Told(q, shown, u, r)
  <2>1. Len(queue) + 1 \in 1..Len(q) /\ About(q[Len(queue) + 1], u)
    BY <1>5, <1>9
  <2>2. ASSUME NEW j \in 1..Len(q), About(q[j], u) PROVE j <= Len(queue) + 1
    <3>1. SUFFICES ASSUME ~(j <= Len(queue) + 1) PROVE FALSE
      BY Zenon
    <3>2. j - (Len(queue) + 1) \in 1..Len(out) /\ j = Len(queue) + 1 + (j - (Len(queue) + 1))
      BY <1>17, <3>1
    <3>3. q[j] = out[j - (Len(queue) + 1)]
      BY <1>9, <3>2, Zenon
    <3>. QED
      BY <1>1, <1>8, <2>2, <3>2, <3>3, Zenon DEF ThreadDrives, Tells
  <2>. QED
    BY <1>5, <1>9, <2>1, <2>2, Zenon DEF Told
<1>12. ASSUME NEW t \in TestsOf(Desc(current)), ~T[t].daemon
       PROVE  RecordTold(q, shown, t, Object.test_states[t])
  <2>1. CASE t = u
    <3>1. Object.test_states[t] = "Pending"
      BY <1>1, <1>8, <2>1, TestAtPending, Zenon DEF ThreadDrives
    <3>. QED
      BY <3>1, PendingIsTold, Zenon
  <2>2. CASE t # u
    <3>1. RecordTold(p, shown, t, Object.test_states[t])
      BY <1>3, <1>12, Zenon DEF ShownInv, p
    <3>2. \A x \in all : ~About(x, t)
      BY <1>5, <1>10, <2>2, Zenon
    <3>3. /\ (\A i \in 1..Len(p) : ~About(p[i], t)) => \A i \in 1..Len(q) : ~About(q[i], t)
          /\ \A sh, result : Told(p, sh, t, result) => Told(q, sh, t, result)
          /\ \A sh, v : RecordTold(p, sh, t, v) => RecordTold(q, sh, t, v)
      <4>1. p \in Seq(Message) /\ q \in Seq(Message) /\ 1 \in {1, 2} /\ 1 # 2
        BY <1>9
      <4>. QED
        BY <1>16, <3>2, <4>1, CarriedTold, Zenon
    <3>. QED
      BY <3>1, <3>3, Zenon
  <2>. QED
    BY <2>1, <2>2, Zenon
<1>13. ASSUME NEW x \in threads', x.pc = "advance" PROVE Told(q, shown, x.test, x.result)
  <2>1. x = new
    BY <1>1, <1>3, <1>8, <1>13, Zenon DEF Working
  <2>. QED
    BY <1>2, <1>11, <2>1, Zenon
<1>14. ASSUME NEW j \in 1..Len(q) PROVE q[j].what # "AdvanceScenario"
  <2>1. q[j] \in all \/ \E h \in 1..Len(p) : q[j] = p[h]
    BY <1>16, CarriedFrom
  <2>2. \A h \in 1..Len(p) : p[h].what # "AdvanceScenario"
    BY <1>8, Zenon DEF ThreadDrives, NoMessageDrives, Drives, p
  <2>. QED
    BY <1>5, <1>10, <2>1, <2>2, Zenon
<1>15. T' = T /\ Desc(current)' = Desc(current) /\ Object' = Object
  BY <1>3, Zenon DEF T, Desc, Object
<1>. QED
  BY <1>3, <1>12, <1>13, <1>14, <1>15, Zenon DEF ShownInv, q

\* Behind a driver that was taken, clients are told what is told by what was sent.
LEMMA BehindTold ==
    ASSUME NEW sent, Behind(sent), NEW t \in Test, ~T[t].daemon, NEW sh
    PROVE  /\ \A r : Told(sent, sh, t, r) => Told(Pending', sh, t, r)
           /\ \A v : RecordTold(sent, sh, t, v) => RecordTold(Pending', sh, t, v)
<1>. DEFINE q == Pending'
            n == Len(queue) - 1
<1>1. /\ n \in Nat /\ Len(sent) \in Nat /\ Len(q) = n + Len(sent)
      /\ \A j \in 1..n : ~About(q[j], t)
      /\ \A j \in 1..Len(sent) : q[n + j] = sent[j]
  BY DEF Behind, Tells
<1>. HIDE DEF q, n
<1>2. ASSUME NEW j \in 1..Len(q), About(q[j], t)
      PROVE  \E k \in 1..Len(sent) : j = n + k /\ q[j] = sent[k] /\ About(sent[k], t)
  <2>1. ~(j \in 1..n)
    BY <1>1, <1>2, Zenon
  <2>2. j - n \in 1..Len(sent) /\ j = n + (j - n)
    BY <1>1, <2>1
  <2>3. q[j] = sent[j - n]
    BY <1>1, <2>2, Zenon
  <2>. QED
    BY <1>2, <2>2, <2>3, Zenon
<1>3. \A k \in 1..Len(sent) : n + k \in 1..Len(q) /\ q[n + k] = sent[k]
  BY <1>1
<1>4. (\A k \in 1..Len(sent) : ~About(sent[k], t)) => \A j \in 1..Len(q) : ~About(q[j], t)
  BY <1>2, Zenon
<1>5. ASSUME NEW r, Told(sent, sh, t, r) PROVE Told(q, sh, t, r)
  <2>1. CASE sh[t] = Word(r) /\ \A k \in 1..Len(sent) : ~About(sent[k], t)
    BY <1>4, <2>1, Zenon DEF Told
  <2>2. CASE \E k \in 1..Len(sent) :
                /\ About(sent[k], t) /\ sent[k].what = "TestFinished" /\ sent[k].result = r
                /\ \A j \in 1..Len(sent) : About(sent[j], t) => j <= k
    <3>1. PICK k \in 1..Len(sent) :
                /\ About(sent[k], t) /\ sent[k].what = "TestFinished" /\ sent[k].result = r
                /\ \A j \in 1..Len(sent) : About(sent[j], t) => j <= k
      BY <2>2, Zenon
    <3>2. ASSUME NEW j \in 1..Len(q), About(q[j], t) PROVE j <= n + k
      <4>1. PICK h \in 1..Len(sent) : j = n + h /\ About(sent[h], t)
        BY <1>2, <3>2, Zenon
      <4>2. h <= k
        BY <3>1, <4>1, Zenon
      <4>. QED
        BY <1>1, <4>1, <4>2
    <3>3. n + k \in 1..Len(q) /\ q[n + k] = sent[k]
      BY <1>3, Zenon
    <3>. QED
      BY <3>1, <3>2, <3>3, Zenon DEF Told
  <2>. QED
    BY <1>5, <2>1, <2>2, Zenon DEF Told
<1>6. ASSUME NEW v, RecordTold(sent, sh, t, v) PROVE RecordTold(q, sh, t, v)
  <2>1. v \in {"Pass", "Fail"} => /\ sh[t] = IF v = "Pass" THEN "PASS" ELSE "FAIL"
                                  /\ \A j \in 1..Len(q) : ~About(q[j], t)
    BY <1>4, <1>6, Zenon DEF RecordTold
  <2>2. v = "Skip" => /\ \A j \in 1..Len(q) : About(q[j], t) => q[j].what = "Skip"
                      /\ \/ sh[t] = "SKIP"
                         \/ \E j \in 1..Len(q) : About(q[j], t)
    <3>. SUFFICES ASSUME v = "Skip"
                  PROVE  /\ \A j \in 1..Len(q) : About(q[j], t) => q[j].what = "Skip"
                         /\ \/ sh[t] = "SKIP"
                            \/ \E j \in 1..Len(q) : About(q[j], t)
      BY Zenon
    <3>1. /\ \A k \in 1..Len(sent) : About(sent[k], t) => sent[k].what = "Skip"
          /\ sh[t] = "SKIP" \/ \E k \in 1..Len(sent) : About(sent[k], t)
      BY <1>6, Zenon DEF RecordTold
    <3>2. \A j \in 1..Len(q) : About(q[j], t) => q[j].what = "Skip"
      BY <1>2, <3>1, Zenon
    <3>3. sh[t] = "SKIP" \/ \E j \in 1..Len(q) : About(q[j], t)
      BY <1>3, <3>1, Zenon
    <3>. QED
      BY <3>2, <3>3, Zenon
  <2>. QED
    BY <2>1, <2>2, Zenon DEF RecordTold
<1>. QED
  BY <1>5, <1>6, Zenon DEF q

\* So what the handler of the driver sends, and what it records, is all that counts.
LEMMA DrivenShown ==
    ASSUME Known, LoneBasics, NEW sent, Behind(sent), UNCHANGED <<library, current>>,
           \A th \in threads' : th.pc # "advance",
           \A t \in TestsOf(Desc(current)) :
              ~T[t].daemon => RecordTold(sent, shown', t, Object'.test_states[t]),
           \A k \in 1..Len(sent) :
              sent[k].what = "AdvanceScenario" /\ sent[k].from \in Test /\ ~T[sent[k].from].daemon
              => Told(sent, shown', sent[k].from, sent[k].result)
    PROVE  ShownInv'
<1>. DEFINE q == Pending'
            sh == shown'
<1>1. T' = T /\ Desc(current)' = Desc(current) /\ TestsOf(Desc(current)) \subseteq Test
  BY LibraryTypes, Zenon DEF T, Desc, TestsOf, Known, LoneBasics
<1>2. ASSUME NEW t \in TestsOf(Desc(current)), ~T[t].daemon
      PROVE  RecordTold(q, sh, t, Object'.test_states[t])
  <2>1. RecordTold(sent, sh, t, Object'.test_states[t])
    BY <1>2, Zenon
  <2>. QED
    BY <1>1, <1>2, <2>1, BehindTold, Zenon
<1>3. ASSUME NEW j \in 1..Len(q), q[j].what = "AdvanceScenario", q[j].from \in Test, ~T[q[j].from].daemon
      PROVE  Told(q, sh, q[j].from, q[j].result)
  <2>1. Drives(q[j])
    BY <1>3, Zenon DEF Drives
  <2>2. PICK k \in 1..Len(sent) : q[j] = sent[k]
    BY <2>1, BehindPlaces, Zenon DEF Behind
  <2>. DEFINE u == q[j].from
              r == q[j].result
  <2>3. Told(sent, sh, u, r) /\ u \in Test /\ ~T[u].daemon
    BY <1>3, <2>2, Zenon
  <2>. HIDE DEF q, sh, u, r
  <2>4. Told(q, sh, u, r)
    BY <2>3, BehindTold, Zenon DEF q
  <2>. QED
    BY <2>4, Zenon DEF u, r
<1>. QED
  BY <1>1, <1>2, <1>3, Zenon DEF ShownInv

\* What was recorded before the driver is taken has been told.
LEMMA OldTold ==
    ASSUME TypeOK, LoneBasics, DriverInv, ShownInv, Alive, out = <<>>, queue # <<>>,
           Drives(Head(queue)), NEW t \in Test, ~T[t].daemon, NEW sent,
           \A k \in 1..Len(sent) : ~About(sent[k], t)
    PROVE  /\ \A j \in 1..Len(Pending) : ~About(Pending[j], t)
           /\ t \in TestsOf(Desc(current)) => RecordTold(sent, shown, t, Object.test_states[t])
<1>1. OnMessage(1) /\ Pending = queue /\ Len(queue) \in Nat
  BY HeadIsDriver, LenProperties, Zenon DEF TypeOK
<1>2. \A j \in 1..Len(Pending) : ~About(Pending[j], t)
  <2>1. \A j \in 1..Len(Pending) : ~(j < 1)
    BY <1>1
  <2>. QED
    BY <1>1, <2>1, Zenon DEF OnMessage, Tells
<1>3. ASSUME t \in TestsOf(Desc(current)) PROVE RecordTold(sent, shown, t, Object.test_states[t])
  <2>1. RecordTold(Pending, shown, t, Object.test_states[t])
    BY <1>3, Zenon DEF ShownInv
  <2>. QED
    BY <1>2, <2>1, Zenon DEF RecordTold
<1>. QED
  BY <1>2, <1>3, Zenon

\* The next test is started, or reported as failed because it could not be.
LEMMA StartTestKeepsShown ==
    ASSUME Lone, Known, TypeOK', LoneBasics, DriverInv, ShownInv, HandleStartTest
    PROVE  ShownInv'
<1>. DEFINE u == Head(queue).unit
            m == TestStarted(u)
            f == TestFinished({u}, 1)
            a == AdvanceScenario(u, 1)
            one == <<m>>
            bag == <<m, f, a>>
<1>1. TypeOK /\ Alive /\ out = <<>> /\ queue # <<>>
      /\ Head(queue).what = "StartTest" /\ Drives(Head(queue)) /\ queue \in Seq(Message)
  BY Zenon DEF Known, HandleStartTest, Handling, Drives, TypeOK
<1>2. u \in Test
  BY <1>1, HeadTailProperties, MessageFields, Zenon
<1>3. OnMessage(1) /\ Pending[1] = Head(queue)
  BY <1>1, HeadIsDriver, Zenon
<1>4. u = TestAt /\ Object.state = "Running" /\ Working = {}
      /\ active \cap Test \subseteq TestsUpTo(Desc(current), Object.step - 1)
  BY <1>1, <1>3, Zenon DEF OnMessage, Advancing, Starting, Stopping
<1>5. u \notin active /\ T[u].compatible /\ Object.test_states[u] = "Pending"
  BY <1>2, <1>4, TestAtFacts, TestAtPending, Zenon DEF LoneBasics
<1>6. UNCHANGED <<library, current, scenario, shown>>
  BY Zenon DEF HandleStartTest, ActivateTest, viewVars
<1>7. Object' = Object
  BY <1>6, Zenon DEF Object
<1>8. /\ m \in Message /\ f \in Message /\ a \in Message
      /\ m.what = "TestStarted" /\ \A t : About(m, t) <=> t = u
      /\ f.what = "TestFinished" /\ f.result = 1 /\ \A t : About(f, t) <=> t = u
      /\ a.what = "AdvanceScenario" /\ a.from = u /\ a.result = 1 /\ \A t : ~About(a, t)
  BY <1>2, MessageTypes, Zenon DEF TestStarted, TestFinished, AdvanceScenario, About, Unit, Result
<1>9. \/ /\ \E new : threads' = threads \cup {new} /\ new.pc \in {"starting", "wait"}
         /\ queue' = Append(Tail(queue), m) /\ out' = out
      \/ queue' = Tail(queue) /\ out' = bag /\ UNCHANGED threads
  <2>. DEFINE th == [test |-> u, run |-> activations[u] + 1, result |-> 0, killed |-> FALSE,
                     pc |-> IF T[u].daemon THEN "starting" ELSE "wait"]
  <2>1. \/ threads' = threads \cup {th} /\ queue' = Append(Tail(queue), m) /\ out' = out
        \/ queue' = Tail(queue) /\ out' = bag /\ UNCHANGED threads
    BY <1>5, Zenon DEF HandleStartTest, ActivateTest
  <2>2. th.pc \in {"starting", "wait"}
    BY Zenon
  <2>. HIDE DEF th, m, bag
  <2>. QED
    BY <2>1, <2>2, Zenon
<1>. HIDE DEF m, f, a, u
<1>10. \A th \in threads' : th.pc # "advance"
  BY <1>4, <1>9, Zenon DEF Working
<1>11. ASSUME NEW sent, \A k \in 1..Len(sent) : \A t : About(sent[k], t) => t = u,
              NEW t \in TestsOf(Desc(current)), ~T[t].daemon
       PROVE  RecordTold(sent, shown', t, Object'.test_states[t])
  <2>1. CASE t = u
    BY <1>5, <1>7, <2>1, PendingIsTold, Zenon
  <2>2. CASE t # u
    <3>1. t \in Test
      BY <1>1, LibraryTypes, Zenon DEF TestsOf, LoneBasics
    <3>2. \A k \in 1..Len(sent) : ~About(sent[k], t)
      BY <1>11, <2>2, Zenon
    <3>. QED
      BY <1>1, <1>6, <1>7, <1>11, <3>1, <3>2, OldTold, Zenon
  <2>. QED
    BY <2>1, <2>2, Zenon
<1>12. CASE queue' = Append(Tail(queue), m) /\ out' = out
  <2>1. one \in Seq(Message) /\ Len(one) = 1 /\ one[1] = m
    BY <1>8
  <2>2. queue' = Tail(queue) \o one /\ Tail(queue) \in Seq(Message)
    BY <1>1, <1>8, <1>12, HeadTailProperties, AppendIsConcat, Zenon
  <2>. HIDE DEF one
  <2>3. Pending' = Tail(queue) \o one
    BY <1>1, <1>12, <2>1, <2>2, ConcatEmptySeq, ConcatProperties DEF Pending
  <2>4. Behind(one)
    BY <1>1, <2>1, <2>3, HeadDrives, Zenon
  <2>5. \A k \in 1..Len(one) : one[k] = m
    BY <2>1
  <2>6. \A t \in TestsOf(Desc(current)) :
           ~T[t].daemon => RecordTold(one, shown', t, Object'.test_states[t])
    BY <1>8, <1>11, <2>5, Zenon
  <2>. QED
    BY <1>6, <1>8, <1>10, <2>4, <2>5, <2>6, DrivenShown, Zenon
<1>13. CASE queue' = Tail(queue) /\ out' = bag
  <2>1. bag \in Seq(Message) /\ Len(bag) = 3 /\ bag[1] = m /\ bag[2] = f /\ bag[3] = a
    BY <1>8
  <2>2. Pending' = Tail(queue) \o bag
    BY <1>13, Zenon DEF Pending
  <2>. HIDE DEF bag
  <2>3. Behind(bag)
    BY <1>1, <2>1, <2>2, HeadDrives, Zenon
  <2>4. \A k \in 1..Len(bag) : k = 1 \/ k = 2 \/ k = 3
    BY <2>1
  <2>5. \A k \in 1..Len(bag) : \A t : About(bag[k], t) => t = u
    BY <1>8, <2>1, <2>4, Zenon
  <2>6. \A t \in TestsOf(Desc(current)) :
           ~T[t].daemon => RecordTold(bag, shown', t, Object'.test_states[t])
    BY <1>11, <2>5, Zenon
  <2>7. Told(bag, shown', u, 1)
    <3>1. \A k \in 1..Len(bag) : About(bag[k], u) => k <= 2
      BY <1>8, <2>1, <2>4
    <3>2. 2 \in 1..Len(bag)
      BY <2>1
    <3>. QED
      BY <1>8, <2>1, <3>1, <3>2, Zenon DEF Told
  <2>8. \A k \in 1..Len(bag) : bag[k].what = "AdvanceScenario" => bag[k].from = u /\ bag[k].result = 1
    BY <1>8, <2>1, <2>4, Zenon
  <2>. QED
    BY <1>6, <1>10, <2>3, <2>6, <2>7, <2>8, DrivenShown, Zenon
<1>. QED
  BY <1>9, <1>12, <1>13, Zenon

\* A scenario that starts has recorded nothing.
LEMMA StartSelectedKeepsShown ==
    ASSUME Lone, Known, TypeOK', LoneBasics, DriverInv, ShownInv, StartSelected
    PROVE  ShownInv'
<1>1. TypeOK /\ Alive /\ out = <<>> /\ queue # <<>> /\ <<>> \in Seq(Message)
      /\ Head(queue).what = "StartScenario" /\ ~Tells(T, Head(queue))
  BY EmptySeq, Zenon DEF Known, StartSelected, StartAccepted, Handling, Tells, About
<1>2. current \in Scenario /\ Named = current /\ current \notin Test
  BY <1>1, RunAssumption, Zenon DEF LoneBasics, Lone, StartSelected
<1>3. UNCHANGED <<current, threads, shown>>
  BY Zenon DEF StartSelected, testVars, viewVars
<1>4. CASE current \in active
  <2>. DEFINE sent == <<>>
  <2>1. Handled(sent) /\ UNCHANGED scenario /\ sent \in Seq(Message) /\ Len(sent) = 0
    BY <1>1, <1>2, <1>4, Zenon DEF StartSelected
  <2>. HIDE DEF sent
  <2>2. \A k \in 1..Len(sent) : ~Drives(sent[k]) /\ ~Tells(T, sent[k])
    BY <2>1
  <2>3. threads' = {Marked({}, th) : th \in threads}
    BY <1>3, MarkedForNone, Zenon
  <2>. QED
    BY <1>1, <1>3, <2>1, <2>2, <2>3, ShownHandler, Zenon
<1>5. CASE current \notin active
  <2>. DEFINE m == AdvanceScenario(current, 0)
              sent == <<m>>
  <2>1. /\ scenario' = [scenario EXCEPT ![current] = FreshScenario]
        /\ Handled(Append(<<>>, m))
    BY <1>2, <1>5, Zenon DEF StartSelected, ActivateScenario
  <2>2. m \in Message /\ m.from \notin Test
    BY <1>2, MessageTypes, Zenon DEF AdvanceScenario, Unit, Result
  <2>. HIDE DEF m
  <2>3. sent \in Seq(Message) /\ Len(sent) = 1 /\ sent[1] = m /\ Append(<<>>, m) = sent
    BY <2>2
  <2>. HIDE DEF sent
  <2>4. queue' = Tail(queue) /\ out' = sent /\ UNCHANGED library
    BY <2>1, <2>3, Zenon DEF Handled
  <2>5. AtRest
    BY <1>1, <1>5, Zenon DEF DriverInv, MessageDrives, OnMessage, ThreadDrives, CommandDrives
  <2>6. Behind(sent)
    <3>1. /\ Pending = queue /\ Len(queue) \in Nat \ {0}
          /\ Len(Pending') = Len(queue) - 1 + Len(sent)
          /\ \A j \in 1..(Len(queue) - 1) : Pending'[j] = queue[j + 1]
          /\ \A j \in 1..Len(sent) : Pending'[Len(queue) - 1 + j] = sent[j]
      BY <1>1, <2>3, <2>4, PendingTaken, Zenon
    <3>2. ASSUME NEW j \in 1..(Len(queue) - 1) PROVE ~Drives(Pending'[j]) /\ ~Tells(T, Pending'[j])
      <4>1. j + 1 \in 1..Len(Pending)
        BY <3>1
      <4>. QED
        BY <2>5, <3>1, <4>1, Zenon DEF AtRest, NoMessageDrives
    <3>3. Pending' \in Seq(Message)
      BY <1>1, <2>3, <2>4, HeadTailProperties, ConcatProperties, Zenon DEF Pending, TypeOK
    <3>. QED
      BY <2>3, <3>1, <3>2, <3>3 DEF Behind
  <2>7. \A t \in Test : Object'.test_states[t] = "Pending"
    BY <1>1, <1>2, <1>3, <2>1, Zenon DEF Object, TypeOK, FreshScenario
  <2>8. \A t \in TestsOf(Desc(current)) : RecordTold(sent, shown', t, Object'.test_states[t])
    BY <1>1, <1>2, <2>7, PendingIsTold, LibraryTypes, Zenon DEF TestsOf
  <2>9. \A th \in threads' : th.pc # "advance"
    BY <1>3, <2>5, Zenon DEF AtRest, Working
  <2>10. \A k \in 1..Len(sent) : sent[k].from \notin Test
    BY <2>2, <2>3
  <2>. QED
    BY <1>3, <2>4, <2>6, <2>8, <2>9, <2>10, DrivenShown, Zenon
<1>. QED
  BY <1>4, <1>5, Zenon

\* What is recorded when the scenario advances was told before.
LEMMA AdvanceKeepsShown ==
    ASSUME Lone, Known, TypeOK', LoneBasics, DriverInv, ShownInv, HandleAdvanceScenario
    PROVE  ShownInv'
<1>0. Handling("AdvanceScenario")
  BY Zenon DEF HandleAdvanceScenario
<1>1. /\ TypeOK /\ Alive /\ out = <<>> /\ queue # <<>> /\ current \in Scenario /\ current # None
      /\ Drives(Head(queue)) /\ Working = {} /\ Advancing(1) /\ Pending = queue
      /\ Pending[1] = Head(queue)
  BY <1>0, AdvanceFrom, Zenon
<1>2. CASE Panic("index") \/ Panic("duration")
  BY <1>2, Zenon DEF Panic, ShownInv, Alive
<1>3. CASE ~Panic("index") /\ ~Panic("duration")
  <2>1. PICK S, new : AdvancedTo(S, new)
    BY <1>3, AdvanceOutcome, Zenon
  <2>2. PICK sent : Handled(sent) /\ TellsSkips(S, sent)
    BY <1>0, <1>1, <2>1, AdvanceTells, Zenon
  <2>3. /\ SkipsAndKeeps(S, new) /\ scenario' = [scenario EXCEPT ![current] = new]
        /\ UNCHANGED <<current, threads, shown>>
    BY <2>1, Zenon DEF AdvancedTo, managerVars, testVars, viewVars
  <2>4. sent \in Seq(Message) /\ Pending' = Tail(queue) \o sent /\ UNCHANGED library
    BY <2>2, Zenon DEF Handled, Pending, TellsSkips
  <2>5. Behind(sent)
    BY <1>1, <2>4, HeadDrives, Zenon
  <2>6. Object' = new
    BY <1>1, <2>3, Zenon DEF Object, TypeOK
  <2>7. \A th \in threads' : th.pc # "advance"
    BY <1>1, <2>3, Zenon DEF Working
  <2>8. current \notin Test
    BY <1>1, RunAssumption, Zenon
  <2>9. \A k \in 1..Len(sent) : sent[k].what = "AdvanceScenario" => sent[k].from \notin Test
    BY <2>2, <2>8 DEF TellsSkips, Skip
  <2>10. \A k \in 1..Len(sent) : \A t : About(sent[k], t) => sent[k] = Skip(S)
    BY <2>2, Zenon DEF TellsSkips, About
  <2>11. \A t : About(Skip(S), t) <=> t \in S
    BY Zenon DEF About, Skip
  <2>12. ASSUME NEW t \in TestsOf(Desc(current)), ~T[t].daemon
         PROVE  RecordTold(sent, shown', t, Object'.test_states[t])
    <3>1. t \in Test
      BY <1>1, LibraryTypes, Zenon DEF TestsOf
    <3>2. CASE t \in S
      <4>1. Object'.test_states[t] = "Skip"
        BY <2>3, <2>6, <3>1, <3>2, Zenon DEF SkipsAndKeeps
      <4>2. \E k \in 1..Len(sent) : About(sent[k], t)
        BY <2>2, <2>11, <3>2, Zenon DEF TellsSkips
      <4>3. Skip(S).what = "Skip"
        BY Zenon DEF Skip
      <4>. QED
        BY <2>10, <4>1, <4>2, <4>3, Zenon DEF RecordTold
    <3>3. CASE t \notin S
      <4>1. Object'.test_states[t] = Recorded.test_states[t]
        BY <2>3, <2>6, <3>1, <3>3, Zenon DEF SkipsAndKeeps
      <4>2. \A k \in 1..Len(sent) : ~About(sent[k], t)
        BY <2>10, <2>11, <3>3, Zenon
      <4>3. /\ \A j \in 1..Len(Pending) : ~About(Pending[j], t)
            /\ RecordTold(sent, shown, t, Object.test_states[t])
        BY <1>1, <2>12, <3>1, <4>2, OldTold, Zenon
      <4>4. CASE Object.state = "Running" /\ t = TestAt
        <5>1. Recorded.test_states[t] = Verdict(Head(queue).result)
          BY <1>0, <1>1, <3>1, <4>4, RecordedStates, Zenon
        <5>2. Head(queue).what = "AdvanceScenario" /\ Head(queue).from = t
          BY <1>0, <1>1, <4>4, Zenon DEF Handling, Advancing
        <5>3. 1 \in 1..Len(Pending)
          BY <1>1, EmptySeq, LenProperties DEF TypeOK
        <5>4. Told(Pending, shown, t, Head(queue).result)
          BY <1>1, <2>12, <3>1, <5>2, <5>3, Zenon DEF ShownInv
        <5>5. shown[t] = Word(Head(queue).result)
          BY <4>3, <5>4, Zenon DEF Told
        <5>. QED
          BY <2>3, <4>1, <4>2, <5>1, <5>5, Zenon DEF RecordTold, Word, Verdict
      <4>5. CASE ~(Object.state = "Running" /\ t = TestAt)
        <5>1. Recorded.test_states[t] = Object.test_states[t]
          BY <1>0, <1>1, <3>1, <4>5, RecordedStates, Zenon
        <5>. QED
          BY <2>3, <4>1, <4>3, <5>1, Zenon
      <4>. QED
        BY <4>4, <4>5, Zenon
    <3>. QED
      BY <3>2, <3>3, Zenon
  <2>. QED
    BY <2>3, <2>4, <2>5, <2>7, <2>9, <2>12, DrivenShown, Zenon
<1>. QED
  BY <1>2, <1>3, Zenon

\* A thread answers; what is told of simple tests does not change.
LEMMA AnswerKeepsShown ==
    ASSUME Known, TypeOK', LoneBasics, ShownInv, NEW th \in threads, NEW r \in Result,
           \/ SimpleAdvances(th) \/ DaemonReady(th) \/ DaemonNotReady(th)
           \/ DaemonGivesUp(th) \/ DaemonExits(th, r)
    PROVE  ShownInv'
<1>. DEFINE u == th.test
<1>1. /\ TypeOK /\ th \in Thread /\ u \in Test /\ current \in Scenario /\ current \notin Test
      /\ th.result \in Result /\ queue \in Seq(Message)
  BY RunAssumption, Zenon DEF Known, TypeOK, Thread, LoneBasics
<1>2. Alive /\ UNCHANGED <<library, current, scenario, shown, out>>
  BY Zenon DEF SimpleAdvances, DaemonReady, DaemonNotReady, DaemonGivesUp, DaemonExits,
         ThreadStep, managerVars, viewVars
<1>3. AdvancersKept
  <2>1. CASE SimpleAdvances(th)
    BY <2>1, Zenon DEF SimpleAdvances, ThreadStep, AdvancersKept
  <2>2. CASE DaemonReady(th)
    <3>1. [th EXCEPT !.pc = "ready"].pc # "advance"
      BY <1>1, Zenon DEF Thread
    <3>. QED
      BY <2>2, <3>1, Zenon DEF DaemonReady, ThreadStep, AdvancersKept
  <2>3. CASE DaemonNotReady(th)
    <3>1. [th EXCEPT !.pc = "failing", !.killed = TRUE].pc # "advance"
      BY <1>1, Zenon DEF Thread
    <3>. QED
      BY <2>3, <3>1, Zenon DEF DaemonNotReady, ThreadStep, AdvancersKept
  <2>4. CASE DaemonGivesUp(th) \/ DaemonExits(th, r)
    BY <2>4, Zenon DEF DaemonGivesUp, DaemonExits, ThreadStep, AdvancersKept
  <2>. QED
    BY <2>1, <2>2, <2>3, <2>4, Zenon
<1>4. ASSUME NEW w \in Unit, NEW v \in Result,
             w \in Test /\ ~T[w].daemon => Told(Pending, shown, w, v)
      PROVE  /\ AdvanceScenario(w, v) \in Message
             /\ ~Tells(T, AdvanceScenario(w, v)) /\ ResultTold(Pending, AdvanceScenario(w, v))
  BY <1>4, MessageTypes, Zenon DEF AdvanceScenario, Tells, About, ResultTold
<1>5. ASSUME NEW m \in Message, queue' = queue \o <<m>> PROVE queue' = Append(queue, m)
  BY <1>1, <1>5, AppendIsConcat, Zenon
<1>6. ASSUME NEW v \in Result, T[u].daemon, queue' = queue \o FinishedOnce(u, v)
      PROVE  \/ queue' = queue
             \/ \E m \in Message : queue' = Append(queue, m) /\ ~Tells(T, m) /\ ResultTold(Pending, m)
  <2>. DEFINE m == TestFinished({u}, v)
  <2>1. m \in Message /\ ~Tells(T, m) /\ ResultTold(Pending, m)
    BY <1>1, <1>6, MessageTypes, Zenon DEF TestFinished, Tells, About, ResultTold
  <2>2. queue' = queue \o <<m>> \/ queue' = queue \o <<>>
    BY <1>6, Zenon DEF FinishedOnce
  <2>. HIDE DEF m
  <2>3. queue \o <<>> = queue
    BY <1>1, ConcatEmptySeq, Zenon
  <2>. QED
    BY <1>5, <2>1, <2>2, <2>3, Zenon
<1>7. \/ queue' = queue
      \/ \E m \in Message : queue' = Append(queue, m) /\ ~Tells(T, m) /\ ResultTold(Pending, m)
  <2>1. CASE SimpleAdvances(th)
    <3>. DEFINE m == AdvanceScenario(u, th.result)
    <3>1. th.pc = "advance" /\ queue' = queue \o <<m>>
      BY <2>1, Zenon DEF SimpleAdvances, ThreadStep
    <3>2. Told(Pending, shown, u, th.result)
      BY <1>2, <3>1, Zenon DEF ShownInv
    <3>3. m \in Message /\ ~Tells(T, m) /\ ResultTold(Pending, m)
      BY <1>1, <1>4, <3>2, Zenon DEF Unit
    <3>. QED
      BY <1>5, <3>1, <3>3, Zenon
  <2>2. CASE DaemonReady(th) \/ DaemonNotReady(th)
    <3>1. PICK v \in Result : queue' = queue \o <<AdvanceScenario(u, v)>>
      BY <2>2, Zenon DEF DaemonReady, DaemonNotReady, ThreadStep, Result
    <3>2. T[u].daemon
      BY <2>2, Zenon DEF DaemonReady, DaemonNotReady, LoneBasics
    <3>. DEFINE m == AdvanceScenario(u, v)
    <3>3. m \in Message /\ ~Tells(T, m) /\ ResultTold(Pending, m)
      BY <1>1, <1>4, <3>2, Zenon DEF Unit
    <3>. QED
      BY <1>5, <3>1, <3>3, Zenon
  <2>3. CASE DaemonGivesUp(th) \/ DaemonExits(th, r)
    <3>1. T[u].daemon /\ 1 \in Result
          /\ (queue' = queue \o FinishedOnce(u, 1) \/ queue' = queue \o FinishedOnce(u, r))
      BY <2>3, Zenon DEF DaemonGivesUp, DaemonExits, ThreadStep, LoneBasics, Result
    <3>. QED
      BY <1>6, <3>1, Zenon
  <2>. QED
    BY <2>1, <2>2, <2>3, Zenon
<1>. QED
  BY <1>1, <1>2, <1>3, <1>7, ShownInsert, Zenon

\* A support command ends.
LEMMA CommandKeepsShown ==
    ASSUME Known, TypeOK', LoneBasics, ShownInv, NEW r \in Result, SupportExits(current, r)
    PROVE  ShownInv'
<1>. DEFINE m == AdvanceScenario(current, r)
<1>1. TypeOK /\ current \in Scenario /\ current \notin Test
  BY RunAssumption, Zenon DEF Known, LoneBasics
<1>2. /\ Alive /\ queue' = Append(queue, m)
      /\ UNCHANGED <<library, current, scenario, shown, out, threads>>
  BY Zenon DEF SupportExits, managerVars, testVars, viewVars
<1>3. m \in Message /\ ~Tells(T, m) /\ ResultTold(Pending, m)
  BY <1>1, MessageTypes, Zenon DEF AdvanceScenario, Tells, About, ResultTold, Unit
<1>4. AdvancersKept
  BY <1>2, Zenon DEF AdvancersKept
<1>. QED
  BY <1>1, <1>2, <1>3, <1>4, ShownInsert, Zenon

\* Handlers that record nothing and tell nothing of a simple test.
LEMMA QuietKeepsShown ==
    ASSUME Known, TypeOK', LoneBasics, ShownInv,
           HandleStopTest \/ HandleScenarioFinished \/ StartRefused
    PROVE  ShownInv'
<1>1. TypeOK /\ Alive /\ out = <<>> /\ queue # <<>>
      /\ Head(queue).what \in {"StopTest", "ScenarioFinished", "StartScenario"}
  BY Zenon DEF Known, HandleStopTest, HandleScenarioFinished, StartRefused, Handling
<1>2. ~Tells(T, Head(queue))
  BY <1>1, Zenon DEF Tells, About
<1>3. CASE HandleStopTest
  <2>1. PICK S : threads' = {Marked(S, th) : th \in threads}
    BY <1>1, <1>3, StopTestOutcome, Zenon
  <2>2. PICK sent \in Seq(Message) :
           Handled(sent) /\ \A k \in 1..Len(sent) : ~Drives(sent[k]) /\ ~Tells(T, sent[k])
    BY <1>1, <1>3, StopTestOutcome, Zenon
  <2>3. UNCHANGED <<current, scenario, shown>>
    BY <1>3, Zenon DEF HandleStopTest, viewVars
  <2>. QED
    BY <1>1, <1>2, <2>1, <2>2, <2>3, ShownHandler, Zenon
<1>4. CASE Handled(<<>>) /\ UNCHANGED <<current, scenario, shown, threads>>
  <2>. DEFINE sent == <<>>
  <2>1. Handled(sent) /\ sent \in Seq(Message) /\ Len(sent) = 0
    BY <1>4, EmptySeq, Zenon
  <2>. HIDE DEF sent
  <2>2. \A k \in 1..Len(sent) : ~Drives(sent[k]) /\ ~Tells(T, sent[k])
    BY <2>1
  <2>3. threads' = {Marked({}, th) : th \in threads}
    BY <1>4, MarkedForNone, Zenon
  <2>. QED
    BY <1>1, <1>2, <1>4, <2>1, <2>2, <2>3, ShownHandler, Zenon
<1>5. CASE Panic("unwrap") \/ Panic("borrow")
  BY <1>5, Zenon DEF Panic, ShownInv, Alive
<1>. QED
  BY <1>3, <1>4, <1>5, Zenon DEF HandleScenarioFinished, StartRefused, managerVars, testVars, viewVars

\* What clients and the main thread send.
LEMMA SendingKeepsShown ==
    ASSUME Lone, Known, TypeOK', LoneBasics, ShownInv, (\E r \in Requests : Request(r)) \/ Send
    PROVE  ShownInv'
<1>0. TypeOK /\ Alive /\ UNCHANGED <<library, current, scenario, shown, threads>>
  BY Zenon DEF Known, Request, Send, managerVars, testVars, viewVars
<1>1. AdvancersKept
  BY <1>0, Zenon DEF AdvancersKept
<1>2. CASE Send
  <2>1. Pending' = Pending /\ Pending \in Seq(Message)
    BY <1>0, <1>2, PendingSend, PendingTypes, Zenon
  <2>2. Carried(Pending, Pending', 1, {})
    BY <2>1, CarriedSame, Zenon
  <2>3. ShownStep(1, {})
    BY <1>0, <1>1, <2>2 DEF ShownStep
  <2>. QED
    BY <1>0, <2>3, ShownKeeps, Zenon
<1>3. ASSUME NEW r \in Requests, Request(r) PROVE ShownInv'
  <2>1. r \in Message /\ r.what = "StartScenario"
    BY MessageTypes DEF Lone, StartScenario
  <2>2. ~Tells(T, r) /\ ResultTold(Pending, r)
    BY <2>1, Zenon DEF Tells, About, ResultTold
  <2>3. queue' = Append(queue, r) /\ UNCHANGED out
    BY <1>3, Zenon DEF Request
  <2>. QED
    BY <1>0, <1>1, <2>1, <2>2, <2>3, ShownInsert, Zenon
<1>. QED
  BY <1>2, <1>3, Zenon

\* Every step of a lone scenario keeps what is told in line with what is recorded.
LEMMA ShownAlways ==
    ASSUME Lone, Known, TypeOK', LoneBasics, DriverInv, ReportInv, ShownInv, [Next]_vars
    PROVE  ShownInv'
<1>1. CASE UNCHANGED vars
  <2>1. UNCHANGED <<library, current, scenario, threads, queue, out, shown, panicked>>
    BY <1>1, Zenon DEF vars, managerVars, testVars, viewVars
  <2>2. AdvancersKept
    BY <2>1, Zenon DEF AdvancersKept
  <2>3. CASE Alive
    BY <2>1, <2>2, <2>3, ShownInsert, Zenon DEF Known
  <2>4. CASE ~Alive
    BY <2>1, <2>4, Zenon DEF ShownInv, Alive
  <2>. QED
    BY <2>3, <2>4, Zenon
<1>2. CASE TestThreads
  <2>. SUFFICES ASSUME NEW th \in threads, NEW r \in Result,
                       \/ SimpleExits(th, r) \/ SimpleAdvances(th) \/ DaemonReady(th)
                       \/ DaemonNotReady(th) \/ DaemonGivesUp(th) \/ DaemonExits(th, r)
                PROVE  ShownInv'
    BY <1>2, Zenon DEF TestThreads, Result
  <2>. QED
    BY ExitKeepsShown, AnswerKeepsShown, Zenon
<1>3. CASE \E r \in Result : SupportExits(current, r)
  <2>1. PICK r \in Result : SupportExits(current, r)
    BY <1>3, Zenon
  <2>. QED
    BY <2>1, CommandKeepsShown, Zenon
<1>4. CASE LoneNext
  BY <1>2, <1>3, <1>4, SendingKeepsShown, StartTestKeepsShown, TellingKeepsShown, QuietKeepsShown,
     StartSelectedKeepsShown, AdvanceKeepsShown, Zenon DEF LoneNext
<1>. QED
  BY <1>1, <1>4, LoneSteps, Zenon

\* What was recorded in a lone scenario was told, in every state.
LEMMA ShownInvariant ==
    ASSUME Lone
    PROVE  Spec => []ShownInv
<1>1. Init => ShownInv
  <2>. SUFFICES ASSUME Init PROVE ShownInv
    BY Zenon
  <2>1. queue = <<>> /\ out = <<>> /\ threads = {} /\ current \in Scenario
        /\ Object = FreshScenario /\ library \in Libraries
    BY Zenon DEF Init, Object
  <2>2. Len(Pending) = 0 /\ 1..0 = {}
    BY <2>1, ConcatEmptySeq, EmptySeq DEF Pending
  <2>3. \A t \in Test : Object.test_states[t] = "Pending"
    BY <2>1, Zenon DEF FreshScenario
  <2>4. TypeOK
    BY TypeInit, Zenon
  <2>5. \A t \in TestsOf(Desc(current)) : RecordTold(Pending, shown, t, Object.test_states[t])
    BY <2>1, <2>3, <2>4, PendingIsTold, LibraryTypes, Zenon DEF TestsOf
  <2>. QED
    BY <2>1, <2>2, <2>5, Zenon DEF ShownInv
<1>2. Known /\ TypeOK' /\ LoneBasics /\ DriverInv /\ ReportInv /\ ShownInv /\ [Next]_vars => ShownInv'
  BY ShownAlways, Zenon
<1>3. Known => TypeOK
  BY Zenon DEF Known
<1>. QED
  BY <1>1, <1>2, <1>3, KnownInvariant, DriverInvariant, ReportInvariant, PTL DEF Spec

\* What clients were last told of a simple test of a lone scenario (PASS, FAIL, SKIP;
\* test.rs:316-330, scenario.rs:572-643, unitmanager.rs:686-760) is what the scenario
\* has recorded, as soon as it has recorded a verdict, and a skip is on its way:
\* however the messages of its threads, its commands and its clients interleave.
THEOREM AlwaysShownIsRecorded ==
    ASSUME Lone
    PROVE  Spec => []ShownIsRecorded
<1>1. ShownInv => ShownIsRecorded
  <2>. SUFFICES ASSUME ShownInv, NEW t \in TestsOf(Desc(current)), Alive, ~T[t].daemon
                PROVE  LET verdict == scenario[current].test_states[t]
                       IN  /\ verdict = "Pass" => shown[t] = "PASS"
                           /\ verdict = "Fail" => shown[t] = "FAIL"
                           /\ verdict = "Skip" => \/ shown[t] = "SKIP"
                                                  \/ \E i \in 1..Len(Pending) :
                                                        Pending[i].what = "Skip" /\ t \in Pending[i].tests
    BY Zenon DEF ShownIsRecorded
  <2>1. RecordTold(Pending, shown, t, scenario[current].test_states[t])
    BY Zenon DEF ShownInv, Object
  <2>. QED
    BY <2>1, Zenon DEF RecordTold, About
<1>. QED
  BY <1>1, ShownInvariant, PTL
=============================================================================
