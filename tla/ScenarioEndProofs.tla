-------------------------- MODULE ScenarioEndProofs --------------------------
(***************************************************************************)
(* The end of a run of a lone scenario, on its way from the moment it is   *)
(* decided to its announcement: where the ScenarioFinished stands among    *)
(* the messages that drive (EndInv), and which steps a client that sees    *)
(* the scenario through the mapping of ScenarioRefinement can see.         *)
(***************************************************************************)
EXTENDS ScenarioRefinement, LoneScenarioProofs

-----------------------------------------------------------------------------
(***************************************************************************)
(* The end of a run on its way.  p are the messages on their way, c is the *)
(* scenario.                                                               *)
(***************************************************************************)
EndIn(p) == \E j \in 1..Len(p) : p[j].what = "ScenarioFinished"

StopIn(p, c) == \E j \in 1..Len(p) : p[j] = StopTest(c)

NotEnding(p, c) == ~EndIn(p) /\ ~StopIn(p, c)

\* Message f, and no other, announces the end.  The scenario's own StopTest comes before
\* it; a message that moves the scenario on comes behind it.
Ending(p, c, f) ==
    \A j \in 1..Len(p) : /\ p[j].what = "ScenarioFinished" <=> j = f
                         /\ p[j] = StopTest(c) => j < f
                         /\ p[j].what = "AdvanceScenario" => j > f
                         /\ p[j].what # "StartTest"

\* The code announced is that of the verdicts, unless the scenario was activated again.
EndWith(p, c, act, o, f) ==
    /\ Ending(p, c, f)
    /\ (c \notin act \/ StopIn(p, c)) => p[f].code = FinishCode(o)

EndState(p, c, act, o) ==
    NotEnding(p, c) \/ \E f \in 1..Len(p) : EndWith(p, c, act, o, f)

EndInv ==
    Alive => /\ EndState(Pending, current, active, Object)
             /\ EndIn(Pending) => Working = {} /\ support[current] = 0

\* The phase a client may see.
PhaseOf(alive, p, c, act) ==
    IF ~alive \/ (EndIn(p) /\ c \in act /\ ~StopIn(p, c)) THEN "broken"
    ELSE IF EndIn(p) THEN "finishing" ELSE IF c \in act THEN "running" ELSE "idle"

\* PhaseSeen is that phase, now and next.
LEMMA PhaseForms ==
    /\ PhaseSeen = PhaseOf(Alive, Pending, current, active)
    /\ PhaseSeen' = PhaseOf(Alive', Pending', current', active')
<1>1. PhaseSeen = PhaseOf(Alive, Pending, current, active)
  BY Zenon DEF PhaseSeen, PhaseOf, Doomed, Finishing, EndIn, StopIn
<1>2. PhaseSeen' = PhaseOf(Alive', Pending', current', active')
  BY Zenon DEF PhaseSeen, PhaseOf, Doomed, Finishing, EndIn, StopIn
<1>. QED
  BY <1>1, <1>2, Zenon

\* Messages that come in between, or the one that is taken, and do not concern the end.
LEMMA EndCarried ==
    ASSUME NEW p \in Seq(Message), NEW q \in Seq(Message), NEW first \in {1, 2}, NEW new,
           Carried(p, q, first, new), NEW c,
           \A m \in new : m.what # "ScenarioFinished" /\ m # StopTest(c)
    PROVE  /\ NotEnding(p, c) => NotEnding(q, c)
           /\ ~StopIn(p, c) => ~StopIn(q, c)
           /\ (first = 2 => p[1] # StopTest(c)) => (StopIn(q, c) <=> StopIn(p, c))
<1>1. Len(p) \in Nat /\ Len(q) \in Nat
  BY LenProperties, Zenon
<1>2. \A j \in 1..Len(q) : q[j] \in new \/ \E h \in first..Len(p) : q[j] = p[h]
  BY CarriedFrom
<1>3. \A h \in first..Len(p) : h \in 1..Len(p)
  BY <1>1
<1>4. NotEnding(p, c) => NotEnding(q, c)
  BY <1>2, <1>3 DEF NotEnding, EndIn, StopIn
<1>5. ~StopIn(p, c) => ~StopIn(q, c)
  BY <1>2, <1>3, Zenon DEF StopIn
<1>6. ASSUME first = 2 => p[1] # StopTest(c), StopIn(p, c) PROVE StopIn(q, c)
  <2>1. PICK j \in 1..Len(p) : p[j] = StopTest(c)
    BY <1>6, Zenon DEF StopIn
  <2>2. j \in first..Len(p)
    BY <1>1, <1>6, <2>1
  <2>3. PICK g \in 1..Len(q) : Placed(p, q, first, new, j, g)
    BY <2>2, CarriedPlace, Zenon
  <2>. QED
    BY <2>1, <2>3, Zenon DEF Placed, StopIn
<1>. QED
  BY <1>4, <1>5, <1>6, Zenon

\* Then the end keeps its place, too.
LEMMA EndingCarried ==
    ASSUME NEW p \in Seq(Message), NEW q \in Seq(Message), NEW first \in {1, 2}, NEW new,
           Carried(p, q, first, new), NEW c,
           \A m \in new : /\ m.what \notin {"ScenarioFinished", "AdvanceScenario", "StartTest"}
                          /\ m # StopTest(c),
           first = 2 => p[1].what # "ScenarioFinished",
           NEW f \in 1..Len(p), Ending(p, c, f)
    PROVE  \E g \in 1..Len(q) : q[g] = p[f] /\ Ending(q, c, g)
<1>1. Len(p) \in Nat /\ Len(q) \in Nat
  BY LenProperties, Zenon
<1>2. p[f].what = "ScenarioFinished"
  BY Zenon DEF Ending
<1>3. f \in first..Len(p)
  BY <1>1, <1>2
<1>4. PICK g \in 1..Len(q) : Placed(p, q, first, new, f, g)
  BY <1>3, CarriedPlace, Zenon
<1>5. q[g] = p[f]
  BY <1>4, Zenon DEF Placed
<1>6. ASSUME NEW k \in 1..Len(q)
      PROVE  /\ q[k].what = "ScenarioFinished" <=> k = g
             /\ q[k] = StopTest(c) => k < g
             /\ q[k].what = "AdvanceScenario" => k > g
             /\ q[k].what # "StartTest"
  <2>1. CASE k = g
    BY <1>2, <1>5, <2>1 DEF StopTest
  <2>2. ASSUME k # g, q[k] \in new
        PROVE  q[k].what \notin {"ScenarioFinished", "AdvanceScenario", "StartTest"} /\ q[k] # StopTest(c)
    BY <2>2, Zenon
  <2>3. ASSUME k < g, q[k] \notin new
        PROVE  q[k].what \notin {"ScenarioFinished", "AdvanceScenario", "StartTest"}
    <3>1. PICK h \in first..(f - 1) : q[k] = p[h]
      BY <1>4, <2>3, Zenon DEF Placed
    <3>2. h \in 1..Len(p) /\ h < f /\ h # f /\ ~(h > f)
      BY <1>1
    <3>. QED
      BY <3>1, <3>2, Zenon DEF Ending
  <2>4. ASSUME k > g, q[k] \notin new
        PROVE  q[k].what \notin {"ScenarioFinished", "StartTest"} /\ q[k] # StopTest(c)
    <3>1. PICK h \in (f + 1)..Len(p) : q[k] = p[h]
      BY <1>4, <2>4, Zenon DEF Placed
    <3>2. h \in 1..Len(p) /\ h > f /\ h # f /\ ~(h < f)
      BY <1>1
    <3>. QED
      BY <3>1, <3>2, Zenon DEF Ending
  <2>5. k = g \/ k < g \/ k > g
    BY <1>1
  <2>6. (k < g => k # g) /\ (k > g => k # g)
    BY <1>1
  <2>. QED
    BY <2>1, <2>2, <2>3, <2>4, <2>5, <2>6, Zenon
<1>7. Ending(q, c, g)
  BY <1>6, Zenon DEF Ending
<1>. QED
  BY <1>5, <1>7, Zenon

\* A message is added that does not concern the end, or such a one is taken: the end on
\* its way and the phase stay.
QuietEnd(first, new) ==
    /\ Carried(Pending, Pending', first, new)
    /\ \A m \in new : /\ m.what \notin {"ScenarioFinished", "AdvanceScenario", "StartTest"}
                      /\ m # StopTest(current)
    /\ first = 2 => Pending[1].what # "ScenarioFinished" /\ Pending[1] # StopTest(current)
    /\ UNCHANGED <<current, scenario, support, panicked>>
    /\ current \in active <=> current \in active'
    /\ Working = {} => Working' = {}

\* Both sequences of messages.
LEMMA PendingBoth ==
    ASSUME TypeOK, TypeOK'
    PROVE  Pending \in Seq(Message) /\ Pending' \in Seq(Message)
<1>1. queue' \in Seq(Message) /\ out' \in Seq(Message)
  BY Zenon DEF TypeOK
<1>2. Pending' \in Seq(Message)
  BY <1>1, ConcatProperties, Zenon DEF Pending
<1>. QED
  BY <1>2, PendingTypes, Zenon

\* Such a step keeps the end on its way in order, and the phase.
LEMMA QuietKeepsEnd ==
    ASSUME TypeOK, TypeOK', EndInv, Alive, NEW first \in {1, 2}, NEW new, QuietEnd(first, new)
    PROVE  EndInv' /\ PhaseSeen' = PhaseSeen
<1>. DEFINE p == Pending
            q == Pending'
            c == current
<1>1. p \in Seq(Message) /\ q \in Seq(Message)
  BY PendingBoth, Zenon
<1>2. /\ Carried(p, q, first, new)
      /\ \A m \in new : /\ m.what \notin {"ScenarioFinished", "AdvanceScenario", "StartTest"}
                        /\ m # StopTest(c)
      /\ first = 2 => p[1].what # "ScenarioFinished" /\ p[1] # StopTest(c)
  BY Zenon DEF QuietEnd
<1>3. /\ current' = c /\ Object' = Object /\ support' = support /\ Alive'
      /\ c \in active <=> c \in active'
      /\ Working = {} => Working' = {}
  BY Zenon DEF QuietEnd, Object, Alive
<1>4. /\ EndState(p, c, active, Object)
      /\ EndIn(p) => Working = {} /\ support[c] = 0
  BY Zenon DEF EndInv
<1>. HIDE DEF p, q, c
<1>5. /\ NotEnding(p, c) => NotEnding(q, c)
      /\ StopIn(q, c) <=> StopIn(p, c)
  BY <1>1, <1>2, EndCarried
<1>6. CASE NotEnding(p, c)
  <2>1. NotEnding(q, c) /\ ~EndIn(p) /\ ~EndIn(q)
    BY <1>5, <1>6, Zenon DEF NotEnding
  <2>2. EndInv'
    BY <1>3, <2>1, Zenon DEF EndInv, EndState, q, c
  <2>3. PhaseOf(Alive, p, c, active) = PhaseOf(Alive', q, c, active')
    BY <1>3, <2>1, Zenon DEF PhaseOf
  <2>. QED
    BY <1>3, <2>2, <2>3, PhaseForms, Zenon DEF p, q, c
<1>7. ASSUME NEW f \in 1..Len(p), EndWith(p, c, active, Object, f)
      PROVE  EndInv' /\ PhaseSeen' = PhaseSeen
  <2>1. PICK g \in 1..Len(q) : q[g] = p[f] /\ Ending(q, c, g)
    BY <1>1, <1>2, <1>7, EndingCarried DEF EndWith
  <2>2. p[f].what = "ScenarioFinished"
    BY <1>7, Zenon DEF EndWith, Ending
  <2>3. EndIn(p) /\ EndIn(q)
    BY <2>1, <2>2, Zenon DEF EndIn
  <2>4. EndWith(q, c, active', Object, g)
    BY <1>3, <1>5, <1>7, <2>1, Zenon DEF EndWith
  <2>5. EndState(q, c, active', Object)
    BY <2>4, Zenon DEF EndState
  <2>6. Working' = {} /\ support'[c] = 0
    BY <1>3, <1>4, <2>3, Zenon
  <2>7. EndInv'
    BY <1>3, <2>5, <2>6, Zenon DEF EndInv, q, c
  <2>8. PhaseOf(Alive, p, c, active) = PhaseOf(Alive', q, c, active')
    BY <1>3, <1>5, <2>3, Zenon DEF PhaseOf
  <2>. QED
    BY <1>3, <2>7, <2>8, PhaseForms, Zenon DEF p, q, c
<1>. QED
  BY <1>4, <1>6, <1>7, Zenon DEF EndState

-----------------------------------------------------------------------------
(***************************************************************************)
(* The end of a run: the steps that do not concern it.                     *)
(***************************************************************************)
Calm(m) ==
    /\ m.what \notin {"ScenarioFinished", "AdvanceScenario", "StartTest"}
    /\ m # StopTest(current)

\* A message of no concern is handled, and such messages are sent.
LEMMA CalmHandler ==
    ASSUME TypeOK, TypeOK', EndInv, Alive, out = <<>>, queue # <<>>,
           Head(queue).what # "ScenarioFinished", Head(queue) # StopTest(current),
           NEW sent \in Seq(Message), Handled(sent), \A k \in 1..Len(sent) : Calm(sent[k]),
           UNCHANGED <<current, scenario, support>>, current \in active <=> current \in active',
           Working = {} => Working' = {}
    PROVE  EndInv' /\ PhaseSeen' = PhaseSeen
<1>. DEFINE new == {sent[k] : k \in 1..Len(sent)}
<1>1. queue' = Tail(queue) /\ out' = sent /\ panicked' = panicked
  BY Zenon DEF Handled
<1>2. Carried(Pending, Pending', 2, new) /\ Pending = queue /\ queue[1] = Head(queue)
  BY <1>1, PendingTaken, Zenon
<1>3. \A m \in new : Calm(m)
  BY Zenon
<1>. HIDE DEF new
<1>4. QuietEnd(2, new)
  BY <1>1, <1>2, <1>3, Zenon DEF QuietEnd, Calm
<1>. QED
  BY <1>4, QuietKeepsEnd, Zenon

\* A message of no concern comes from elsewhere, or none.
LEMMA CalmInsert ==
    ASSUME TypeOK, TypeOK', EndInv, Alive,
           queue' = queue \/ \E m \in Message : queue' = Append(queue, m) /\ Calm(m),
           UNCHANGED <<current, active, scenario, support, out, panicked>>,
           Working = {} => Working' = {}
    PROVE  EndInv' /\ PhaseSeen' = PhaseSeen
<1>1. CASE queue' = queue
  <2>1. Pending' = Pending /\ Pending \in Seq(Message)
    BY <1>1, PendingTypes, Zenon DEF Pending
  <2>2. Carried(Pending, Pending', 1, {})
    BY <2>1, CarriedSame, Zenon
  <2>3. QuietEnd(1, {})
    BY <2>2 DEF QuietEnd
  <2>. QED
    BY <2>3, QuietKeepsEnd, Zenon
<1>2. ASSUME NEW m \in Message, queue' = Append(queue, m), Calm(m)
      PROVE  EndInv' /\ PhaseSeen' = PhaseSeen
  <2>. DEFINE new == {m}
  <2>1. Carried(Pending, Pending', 1, new)
    BY <1>2, PendingInsert, Zenon
  <2>2. \A x \in new : Calm(x)
    BY <1>2, Zenon
  <2>. HIDE DEF new
  <2>3. QuietEnd(1, new)
    BY <2>1, <2>2 DEF QuietEnd, Calm
  <2>. QED
    BY <2>3, QuietKeepsEnd, Zenon
<1>. QED
  BY <1>1, <1>2, Zenon

\* What the promise speaks of stays as it is.
Unseen ==
    /\ UNCHANGED <<library, current, scenario, finish>>
    /\ PhaseSeen' = PhaseSeen

\* A client asks for a start, the main thread sends, or nothing happens.
LEMMA SendingUnseen ==
    ASSUME Lone, Known, TypeOK', EndInv,
           \/ \E r \in Requests : Request(r)
           \/ Send
           \/ Alive /\ UNCHANGED vars
    PROVE  EndInv' /\ Unseen
<1>1. CASE \E r \in Requests : Request(r)
  <2>1. PICK r \in Requests : Request(r)
    BY <1>1, Zenon
  <2>2. r \in Message /\ Calm(r)
    BY MessageTypes DEF Lone, StartScenario, Calm, StopTest
  <2>3. /\ queue' = Append(queue, r) /\ Alive
        /\ UNCHANGED <<library, current, active, scenario, support, out, panicked, finish>>
        /\ Working' = Working
    BY <2>1, Zenon DEF Request, managerVars, testVars, viewVars, Working
  <2>. QED
    BY <2>2, <2>3, CalmInsert, Zenon DEF Known, Unseen
<1>2. CASE Send
  <2>1. /\ Alive
        /\ UNCHANGED <<library, current, active, scenario, support, panicked, finish>>
        /\ Working' = Working
    BY <1>2, Zenon DEF Send, managerVars, testVars, viewVars, Working
  <2>2. Pending' = Pending /\ Pending \in Seq(Message)
    BY <1>2, PendingSend, PendingTypes, Zenon DEF Known
  <2>3. Carried(Pending, Pending', 1, {})
    BY <2>2, CarriedSame, Zenon
  <2>4. QuietEnd(1, {})
    BY <2>1, <2>3 DEF QuietEnd
  <2>. QED
    BY <2>1, <2>4, QuietKeepsEnd, Zenon DEF Known, Unseen
<1>3. CASE Alive /\ UNCHANGED vars
  <2>1. /\ UNCHANGED <<library, current, active, scenario, support, queue, out, panicked, finish>>
        /\ Working' = Working
    BY <1>3, Zenon DEF vars, managerVars, testVars, viewVars, Working
  <2>. QED
    BY <1>3, <2>1, CalmInsert, Zenon DEF Known, Unseen
<1>. QED
  BY <1>1, <1>2, <1>3, Zenon

\* A report comes, or none.
LEMMA ReportCalm ==
    ASSUME TypeOK, NEW t \in Test, NEW r \in Result
    PROVE  /\ FinishedOnce(t, r) \in Seq(Message)
           /\ \A k \in 1..Len(FinishedOnce(t, r)) : Calm(FinishedOnce(t, r)[k])
           /\ queue' = queue \o FinishedOnce(t, r)
              => queue' = queue \/ \E m \in Message : queue' = Append(queue, m) /\ Calm(m)
<1>. DEFINE m == TestFinished({t}, r)
<1>1. m \in Message /\ Calm(m) /\ queue \in Seq(Message)
  BY MessageTypes, Zenon DEF Calm, TestFinished, StopTest, TypeOK
<1>. HIDE DEF m
<1>2. CASE result_arc[t] = None
  <2>1. FinishedOnce(t, r) = <<m>>
    BY <1>2, Zenon DEF FinishedOnce, m
  <2>2. queue \o <<m>> = Append(queue, m)
    BY <1>1, AppendIsConcat, Zenon
  <2>. QED
    BY <1>1, <2>1, <2>2
<1>3. CASE result_arc[t] # None
  BY <1>1, <1>3, EmptySeq, ConcatEmptySeq DEF FinishedOnce
<1>. QED
  BY <1>2, <1>3, Zenon

\* A program exits, and its thread ends or goes on.
LEMMA ExitUnseen ==
    ASSUME Known, TypeOK', EndInv, NEW th \in threads, NEW r \in Result,
           SimpleExits(th, r) \/ DaemonGivesUp(th) \/ DaemonExits(th, r)
    PROVE  EndInv' /\ Unseen
<1>1. TypeOK /\ th \in Thread /\ th.test \in Test
  BY Zenon DEF Known, TypeOK, Thread
<1>2. PICK v, next : /\ v \in Result
                     /\ ThreadStep(th, next, FinishedOnce(th.test, v))
                     /\ th.pc = "wait" \/ next = {}
  BY DEF SimpleExits, DaemonGivesUp, DaemonExits, Result
<1>3. /\ Alive /\ threads' = (threads \ {th}) \cup next
      /\ queue' = queue \o FinishedOnce(th.test, v)
      /\ UNCHANGED <<library, current, active, scenario, support, out, panicked, finish>>
  BY <1>2, Zenon DEF ThreadStep, managerVars, viewVars
<1>4. Working = {} => Working' = {}
  BY <1>2, <1>3, Zenon DEF Working
<1>5. queue' = queue \/ \E m \in Message : queue' = Append(queue, m) /\ Calm(m)
  BY <1>1, <1>2, <1>3, ReportCalm, Zenon
<1>. QED
  BY <1>1, <1>3, <1>4, <1>5, CalmInsert, Zenon DEF Unseen

\* Handlers that only tell clients, refused requests, and a start of a scenario that is
\* active.
LEMMA TellingUnseen ==
    ASSUME Known, TypeOK', EndInv,
           \/ HandleTestStarted \/ HandleTestFinished \/ HandleSkip \/ StartRefused
           \/ StartSelected /\ Named \in active
    PROVE  EndInv' /\ Unseen
<1>. DEFINE sent == <<>>
<1>1. TypeOK /\ Alive /\ out = <<>> /\ queue # <<>> /\ sent \in Seq(Message) /\ Len(sent) = 0
  BY EmptySeq, Zenon DEF Known, HandleTestStarted, HandleTestFinished, HandleSkip,
     StartRefused, StartSelected, StartAccepted, Handling
<1>2. Head(queue).what \in {"TestStarted", "TestFinished", "Skip", "StartScenario"}
  BY Zenon DEF HandleTestStarted, HandleTestFinished, HandleSkip, StartRefused, StartSelected,
     StartAccepted, Handling
<1>3. Head(queue) # StopTest(current)
  BY <1>2 DEF StopTest
<1>4. /\ Handled(sent) /\ UNCHANGED <<current, active, scenario, support, finish>>
      /\ Working' = Working
  BY Zenon DEF HandleTestStarted, HandleTestFinished, HandleSkip, StartRefused, StartSelected,
     managerVars, testVars, viewVars, Working
<1>5. UNCHANGED library
  BY <1>4, Zenon DEF Handled
<1>. HIDE DEF sent
<1>6. \A k \in 1..Len(sent) : Calm(sent[k])
  BY <1>1
<1>. QED
  BY <1>1, <1>2, <1>3, <1>4, <1>5, <1>6, CalmHandler, Zenon DEF Unseen

\* A test is stopped.
LEMMA StoppingTestUnseen ==
    ASSUME Known, TypeOK', EndInv, HandleStopTest, Head(queue).unit # current
    PROVE  EndInv' /\ Unseen
<1>. DEFINE u == Head(queue).unit
<1>1. TypeOK /\ Alive /\ out = <<>> /\ queue # <<>> /\ Head(queue).what = "StopTest"
  BY Zenon DEF Known, HandleStopTest, Handling
<1>2. Head(queue) # StopTest(current)
  BY DEF StopTest
<1>3. /\ active' = active \ {u} /\ UNCHANGED <<current, scenario, support, finish>>
  BY Zenon DEF HandleStopTest, viewVars
<1>4. current \in active <=> current \in active'
  BY <1>3, Zenon
<1>5. Working = {} => Working' = {}
  <2>1. \E S : threads' = {Marked(S, th) : th \in threads}
    BY <1>1, StopTestOutcome, Zenon
  <2>. QED
    BY <1>1, <2>1, MarkedWorking, Zenon
<1>6. PICK sent \in Seq(Message) : Handled(sent) /\ \A k \in 1..Len(sent) : Calm(sent[k])
  <2>1. CASE u \in active /\ u \in Test /\ T[u].daemon
    <3>1. Handled(FinishedOnce(u, 0)) /\ 0 \in Result
      BY <2>1, Zenon DEF HandleStopTest, Result
    <3>. QED
      BY <1>1, <2>1, <3>1, ReportCalm, Zenon
  <2>2. CASE ~(u \in active /\ u \in Test /\ T[u].daemon)
    <3>. DEFINE none == <<>>
    <3>1. none \in Seq(Message) /\ Handled(none) /\ \A k \in 1..Len(none) : FALSE
      BY <2>2, EmptySeq DEF HandleStopTest
    <3>. HIDE DEF none
    <3>. QED
      BY <3>1, Zenon
  <2>. QED
    BY <2>1, <2>2, Zenon
<1>7. UNCHANGED library
  BY <1>6, Zenon DEF Handled
<1>. HIDE DEF u
<1>. QED
  BY <1>1, <1>2, <1>3, <1>4, <1>5, <1>6, <1>7, CalmHandler, Zenon DEF Unseen

-----------------------------------------------------------------------------
(***************************************************************************)
(* The end of a run: while something else drives there is none on its way. *)
(***************************************************************************)
\* No end is on its way, and none is sent.
LEMMA NotEndingStays ==
    ASSUME TypeOK, TypeOK', Alive, UNCHANGED <<current, panicked>>,
           NotEnding(Pending, current), NEW first \in {1, 2}, NEW new,
           Carried(Pending, Pending', first, new),
           \A m \in new : m.what # "ScenarioFinished" /\ m # StopTest(current)
    PROVE  /\ EndInv'
           /\ PhaseSeen = IF current \in active THEN "running" ELSE "idle"
           /\ PhaseSeen' = IF current \in active' THEN "running" ELSE "idle"
<1>. DEFINE p == Pending
            q == Pending'
            c == current
<1>1. p \in Seq(Message) /\ q \in Seq(Message) /\ Alive' /\ c' = c
  BY PendingBoth, Zenon DEF Alive
<1>2. /\ NotEnding(p, c) /\ Carried(p, q, first, new)
      /\ \A m \in new : m.what # "ScenarioFinished" /\ m # StopTest(c)
  BY Zenon
<1>. HIDE DEF p, q, c
<1>3. NotEnding(q, c)
  BY <1>1, <1>2, EndCarried
<1>4. ~EndIn(p) /\ ~EndIn(q)
  BY <1>2, <1>3, Zenon DEF NotEnding
<1>5. EndInv'
  BY <1>3, <1>4, Zenon DEF EndInv, EndState, q, c
<1>6. /\ PhaseOf(Alive, p, c, active) = IF c \in active THEN "running" ELSE "idle"
      /\ PhaseOf(Alive', q, c, active') = IF c \in active' THEN "running" ELSE "idle"
  BY <1>1, <1>4, Zenon DEF PhaseOf
<1>. QED
  BY <1>5, <1>6, PhaseForms, Zenon DEF p, q, c

\* While a thread or a command is at work no end is on its way.
LEMMA AtWorkNotEnding ==
    ASSUME EndInv, Alive, Working # {} \/ support[current] # 0
    PROVE  NotEnding(Pending, current)
<1>1. ~EndIn(Pending) /\ EndState(Pending, current, active, Object)
  BY Zenon DEF EndInv
<1>2. ASSUME NEW f \in 1..Len(Pending), EndWith(Pending, current, active, Object, f)
      PROVE  FALSE
  BY <1>1, <1>2, Zenon DEF EndWith, Ending, EndIn
<1>. QED
  BY <1>1, <1>2, Zenon DEF EndState

\* Nor when the message that is handled moves the scenario on.
LEMMA MovingNotEnding ==
    ASSUME TypeOK, EndInv, Alive, out = <<>>, queue # <<>>,
           Head(queue).what \in {"AdvanceScenario", "StartTest"}
    PROVE  NotEnding(Pending, current)
<1>1. Pending = queue /\ Len(queue) \in Nat \ {0} /\ queue[1] = Head(queue)
  BY ConcatEmptySeq, EmptySeq, LenProperties DEF Pending, TypeOK
<1>2. EndState(Pending, current, active, Object)
  BY Zenon DEF EndInv
<1>3. ASSUME NEW f \in 1..Len(Pending), EndWith(Pending, current, active, Object, f)
      PROVE  FALSE
  <2>1. 1 \in 1..Len(Pending) /\ ~(1 > f)
    BY <1>1
  <2>. QED
    BY <1>1, <1>3, <2>1, Zenon DEF EndWith, Ending
<1>. QED
  BY <1>2, <1>3, Zenon DEF EndState

\* A result or the end of a command is sent to the scenario.
LEMMA ResultUnseen ==
    ASSUME Known, TypeOK', LoneBasics, EndInv,
           \/ \E th \in threads : SimpleAdvances(th) \/ DaemonReady(th) \/ DaemonNotReady(th)
           \/ \E r \in Result : SupportExits(current, r)
    PROVE  EndInv' /\ Unseen
<1>1. TypeOK /\ current \in Scenario /\ queue \in Seq(Message)
  BY Zenon DEF Known, TypeOK, LoneBasics
<1>2. \E m \in Message : m.what = "AdvanceScenario" /\ queue' = Append(queue, m)
  <2>1. CASE \E r \in Result : SupportExits(current, r)
    <3>1. PICK r \in Result : SupportExits(current, r)
      BY <2>1, Zenon
    <3>2. /\ AdvanceScenario(current, r) \in Message
          /\ AdvanceScenario(current, r).what = "AdvanceScenario"
      BY <1>1, MessageTypes, Zenon DEF AdvanceScenario, Unit
    <3>. QED
      BY <3>1, <3>2, Zenon DEF SupportExits
  <2>2. ASSUME NEW th \in threads, SimpleAdvances(th) \/ DaemonReady(th) \/ DaemonNotReady(th)
        PROVE  \E m \in Message : m.what = "AdvanceScenario" /\ queue' = Append(queue, m)
    <3>1. th.test \in Test /\ th.result \in Result
      BY <1>1, Zenon DEF TypeOK, Thread
    <3>2. PICK r \in Result : queue' = queue \o <<AdvanceScenario(th.test, r)>>
      BY <2>2, <3>1, Zenon DEF SimpleAdvances, DaemonReady, DaemonNotReady, ThreadStep, Result
    <3>. DEFINE m == AdvanceScenario(th.test, r)
    <3>3. m \in Message /\ m.what = "AdvanceScenario"
      BY <3>1, MessageTypes, Zenon DEF AdvanceScenario, Unit
    <3>. HIDE DEF m
    <3>4. queue' = Append(queue, m)
      BY <1>1, <3>2, <3>3, AppendIsConcat, Zenon DEF m
    <3>. QED
      BY <3>3, <3>4, Zenon
  <2>. QED
    BY <2>1, <2>2, Zenon
<1>3. PICK m \in Message : m.what = "AdvanceScenario" /\ queue' = Append(queue, m)
  BY <1>2, Zenon
<1>4. /\ Alive /\ UNCHANGED <<library, current, active, scenario, out, panicked, finish>>
  BY Zenon DEF SimpleAdvances, DaemonReady, DaemonNotReady, ThreadStep, SupportExits, managerVars, viewVars
<1>5. Working # {} \/ support[current] # 0
  <2>1. support[current] \in Nat
    BY <1>1, Zenon DEF TypeOK
  <2>2. CASE \E r \in Result : SupportExits(current, r)
    BY <2>1, <2>2 DEF SupportExits
  <2>3. CASE \E th \in threads : SimpleAdvances(th) \/ DaemonReady(th) \/ DaemonNotReady(th)
    BY <2>3, Zenon DEF SimpleAdvances, DaemonReady, DaemonNotReady, Working
  <2>. QED
    BY <2>2, <2>3, Zenon
<1>6. NotEnding(Pending, current)
  BY <1>4, <1>5, AtWorkNotEnding, Zenon
<1>. DEFINE new == {m}
<1>7. Carried(Pending, Pending', 1, new)
  BY <1>1, <1>3, <1>4, PendingInsert, Zenon
<1>8. \A y \in new : y.what # "ScenarioFinished" /\ y # StopTest(current)
  BY <1>3 DEF StopTest
<1>. HIDE DEF new
<1>. QED
  BY <1>1, <1>4, <1>6, <1>7, <1>8, NotEndingStays, Zenon DEF Unseen

\* A test is started, or could not be.
LEMMA StartTestUnseen ==
    ASSUME Lone, Known, TypeOK', LoneBasics, EndInv, HandleStartTest
    PROVE  EndInv' /\ Unseen
<1>. DEFINE t == Head(queue).unit
            bag == <<TestStarted(t), TestFinished({t}, 1), AdvanceScenario(t, 1)>>
<1>1. TypeOK /\ Alive /\ out = <<>> /\ queue # <<>> /\ Head(queue).what = "StartTest"
      /\ queue \in Seq(Message) /\ <<>> \in Seq(Message)
  BY EmptySeq, Zenon DEF Known, HandleStartTest, Handling, TypeOK
<1>2. Head(queue) \in Message /\ t \in Test /\ current \notin Test
  BY <1>1, HeadTailProperties, MessageFields, RunAssumption, Zenon DEF LoneBasics
<1>3. UNCHANGED <<library, current, scenario, support, panicked, finish>>
  BY Zenon DEF HandleStartTest, ActivateTest, viewVars
<1>4. active' \in {active, active \cup {t}}
  BY Zenon DEF HandleStartTest, ActivateTest, testVars
<1>5. current \in active <=> current \in active'
  BY <1>2, <1>4, Zenon
<1>6. NotEnding(Pending, current)
  BY <1>1, MovingNotEnding, Zenon
<1>7. /\ TestStarted(t) \in Message /\ TestFinished({t}, 1) \in Message
      /\ AdvanceScenario(t, 1) \in Message
  BY <1>2, MessageTypes, Zenon DEF Result, Unit
<1>8. \A m \in {TestStarted(t), TestFinished({t}, 1), AdvanceScenario(t, 1)} :
         m.what # "ScenarioFinished" /\ m # StopTest(current)
  BY DEF TestStarted, TestFinished, AdvanceScenario, StopTest
<1>9. \/ queue' = Tail(queue) /\ out' = <<>>
      \/ queue' = Tail(queue) /\ out' = bag
      \/ queue' = Append(Tail(queue), TestStarted(t)) /\ out' = <<>>
  BY <1>1, Zenon DEF HandleStartTest, ActivateTest
<1>10. PICK sent \in Seq(Message) :
          /\ Pending' = Tail(queue) \o sent
          /\ \A k \in 1..Len(sent) : sent[k].what # "ScenarioFinished" /\ sent[k] # StopTest(current)
  <2>1. CASE queue' = Tail(queue) /\ out' = <<>>
    <3>. DEFINE sent == <<>>
    <3>1. sent \in Seq(Message) /\ Pending' = Tail(queue) \o sent /\ \A k \in 1..Len(sent) : FALSE
      BY <1>1, <2>1 DEF Pending
    <3>. HIDE DEF sent
    <3>. QED
      BY <3>1, Zenon
  <2>2. CASE queue' = Tail(queue) /\ out' = bag
    <3>1. /\ bag \in Seq(Message) /\ Len(bag) = 3
          /\ bag[1] = TestStarted(t) /\ bag[2] = TestFinished({t}, 1) /\ bag[3] = AdvanceScenario(t, 1)
      BY <1>7
    <3>2. Pending' = Tail(queue) \o bag
      BY <2>2, Zenon DEF Pending
    <3>. HIDE DEF bag, t
    <3>3. \A k \in 1..Len(bag) : k = 1 \/ k = 2 \/ k = 3
      BY <3>1
    <3>4. \A k \in 1..Len(bag) : bag[k].what # "ScenarioFinished" /\ bag[k] # StopTest(current)
      BY <1>8, <3>1, <3>3, Zenon
    <3>. QED
      BY <3>1, <3>2, <3>4, Zenon
  <2>3. CASE queue' = Append(Tail(queue), TestStarted(t)) /\ out' = <<>>
    <3>. DEFINE m == TestStarted(t)
                sent == <<m>>
    <3>1. m \in Message /\ m.what # "ScenarioFinished" /\ m # StopTest(current)
      BY <1>7, <1>8, Zenon
    <3>. HIDE DEF m
    <3>2. sent \in Seq(Message) /\ Len(sent) = 1 /\ sent[1] = m
      BY <3>1
    <3>3. queue' = Tail(queue) \o sent /\ Tail(queue) \in Seq(Message)
      BY <1>1, <2>3, <3>1, HeadTailProperties, AppendIsConcat, Zenon DEF m
    <3>. HIDE DEF sent
    <3>4. Pending' = Tail(queue) \o sent
      BY <2>3, <3>2, <3>3, ConcatEmptySeq, ConcatProperties DEF Pending
    <3>5. \A k \in 1..Len(sent) : sent[k].what # "ScenarioFinished" /\ sent[k] # StopTest(current)
      BY <3>1, <3>2
    <3>. QED
      BY <3>2, <3>4, <3>5, Zenon
  <2>. QED
    BY <1>9, <2>1, <2>2, <2>3, Zenon
<1>. DEFINE new == {sent[k] : k \in 1..Len(sent)}
<1>11. Carried(Pending, Pending', 2, new)
  <2>1. Carried(queue, Tail(queue) \o sent, 2, new)
    BY <1>1, CarriedTaken, Zenon
  <2>2. Pending = queue
    BY <1>1, ConcatEmptySeq, Zenon DEF Pending
  <2>. QED
    BY <1>10, <2>1, <2>2, Zenon
<1>12. \A m \in new : m.what # "ScenarioFinished" /\ m # StopTest(current)
  BY <1>10, Zenon
<1>. HIDE DEF new, t
<1>. QED
  BY <1>1, <1>3, <1>5, <1>6, <1>11, <1>12, NotEndingStays, Zenon DEF Unseen

-----------------------------------------------------------------------------
(***************************************************************************)
(* The end of a run: the steps that bring it about.                        *)
(***************************************************************************)
\* The end on its way: the phase, with the place of the announcement.
LEMMA EndingPhase ==
    ASSUME NEW p, NEW c, NEW act, NEW alive \in BOOLEAN, alive, NEW f \in 1..Len(p), Ending(p, c, f)
    PROVE  /\ EndIn(p) /\ p[f].what = "ScenarioFinished"
           /\ PhaseOf(alive, p, c, act) =
                 IF c \in act /\ ~StopIn(p, c) THEN "broken" ELSE "finishing"
<1>1. p[f].what = "ScenarioFinished"
  BY Zenon DEF Ending
<1>2. EndIn(p)
  BY <1>1, Zenon DEF EndIn
<1>. QED
  BY <1>1, <1>2, Zenon DEF PhaseOf

\* A StopTest for the scenario is on its way only before the announcement of its end.
LEMMA StopBeforeEnd ==
    ASSUME NEW p, NEW c, NEW act, NEW o, EndState(p, c, act, o), StopIn(p, c) \/ EndIn(p)
    PROVE  \E f \in 1..Len(p) : EndWith(p, c, act, o, f)
BY Zenon DEF EndState, NotEnding

\* The scenario's own StopTest: its run is over, the announcement follows.
LEMMA StoppingScenarioUnseen ==
    ASSUME Lone, Known, TypeOK', LoneBasics, DriverInv, EndInv, HandleStopTest,
           Head(queue).unit = current
    PROVE  EndInv' /\ Unseen
<1>. DEFINE p == Pending
            q == Pending'
            c == current
<1>1. TypeOK /\ Alive /\ out = <<>> /\ queue # <<>> /\ <<>> \in Seq(Message)
      /\ Head(queue).what = "StopTest" /\ Drives(Head(queue)) /\ Head(queue) \in Message
  BY EmptySeq, HeadTypes, Zenon DEF Known, HandleStopTest, Handling, Drives
<1>2. Head(queue) = StopTest(c)
  BY <1>1, MessageFields, Zenon DEF StopTest, Message
<1>3. current \in Scenario /\ current \notin Test
  BY <1>1, RunAssumption, Zenon DEF LoneBasics, Unit
<1>4. /\ Handled(<<>>) /\ active' = active \ {c}
      /\ UNCHANGED <<current, scenario, support, finish>>
  BY <1>3, Zenon DEF HandleStopTest, viewVars
<1>5. /\ UNCHANGED <<library, panicked>> /\ queue' = Tail(queue) /\ out' = <<>>
  BY <1>4, Zenon DEF Handled
<1>6. OnMessage(1) /\ Pending = queue /\ Pending[1] = Head(queue) /\ Working = {} /\ support[c] = 0
  BY <1>1, HeadIsDriver, Zenon DEF OnMessage
<1>7. Working' = {} /\ support'[c] = 0
  <2>1. \E S : threads' = {Marked(S, th) : th \in threads}
    BY <1>1, StopTestOutcome, Zenon
  <2>. QED
    BY <1>1, <1>4, <1>6, <2>1, MarkedWorking, Zenon
<1>8. p \in Seq(Message) /\ q \in Seq(Message) /\ Len(queue) \in Nat \ {0}
      /\ Carried(p, q, 2, {})
  <2>. DEFINE sent == <<>>
              new == {sent[k] : k \in 1..Len(sent)}
  <2>1. sent \in Seq(Message) /\ out' = sent /\ new = {}
    BY <1>1, <1>5
  <2>. HIDE DEF sent
  <2>2. Carried(p, q, 2, new) /\ Len(queue) \in Nat \ {0}
    BY <1>1, <1>5, <2>1, PendingTaken, Zenon
  <2>. QED
    BY <1>1, <2>1, <2>2, PendingBoth, Zenon
<1>9. /\ 1 \in 1..Len(p) /\ p[1] = StopTest(c) /\ p[1].what = "StopTest"
      /\ \A j \in 1..Len(p) : Drives(p[j]) <=> j = 1
  BY <1>1, <1>2, <1>6, <1>8 DEF OnMessage
<1>10. StopIn(p, c) /\ EndState(p, c, active, Object)
  BY <1>1, <1>9, Zenon DEF StopIn, EndInv
<1>11. Drives(StopTest(c))
  BY <1>1, <1>2, Zenon
<1>12. c' = c /\ Object' = Object /\ Alive' /\ Alive \in BOOLEAN /\ Alive' \in BOOLEAN
  BY <1>1, <1>4, <1>5, Zenon DEF Object, Alive
<1>. HIDE DEF p, q, c
<1>13. PICK f \in 1..Len(p) : EndWith(p, c, active, Object, f)
  BY <1>10, StopBeforeEnd, Zenon
<1>14. Ending(p, c, f) /\ p[f].code = FinishCode(Object)
  BY <1>10, <1>13, Zenon DEF EndWith
<1>15. PICK g \in 1..Len(q) : q[g] = p[f] /\ Ending(q, c, g)
  BY <1>8, <1>9, <1>14, EndingCarried
<1>16. EndWith(q, c, active', Object, g)
  BY <1>14, <1>15, Zenon DEF EndWith
<1>17. EndInv'
  BY <1>7, <1>12, <1>16, Zenon DEF EndInv, EndState, q, c
<1>18. /\ PhaseOf(Alive, p, c, active) = "finishing"
       /\ PhaseOf(Alive', q, c, active') = "finishing"
  <2>1. PhaseOf(Alive, p, c, active) = IF c \in active /\ ~StopIn(p, c) THEN "broken" ELSE "finishing"
    BY <1>1, <1>12, <1>14, EndingPhase, Zenon
  <2>2. PhaseOf(Alive', q, c, active') =
           IF c \in active' /\ ~StopIn(q, c) THEN "broken" ELSE "finishing"
    BY <1>12, <1>15, EndingPhase, Zenon
  <2>. QED
    BY <1>4, <1>10, <2>1, <2>2, Zenon
<1>. QED
  BY <1>4, <1>5, <1>12, <1>17, <1>18, PhaseForms, Zenon DEF Unseen, p, q, c

\* The end is announced, with the code of the verdicts; or the scenario was activated
\* again, and the second borrow ends the program.
LEMMA EndAnnounced ==
    ASSUME Lone, Known, TypeOK', LoneBasics, DriverInv, EndInv, HandleScenarioFinished
    PROVE  /\ EndInv' /\ UNCHANGED <<library, current, scenario>>
           /\ \/ finish' = finish /\ PhaseSeen' = PhaseSeen
              \/ /\ PhaseSeen = "finishing" /\ PhaseSeen' = "idle"
                 /\ finish' = FinishCode(Object)
<1>. DEFINE p == Pending
            q == Pending'
            c == current
<1>1. TypeOK /\ Alive /\ out = <<>> /\ queue # <<>> /\ <<>> \in Seq(Message)
      /\ Head(queue).what = "ScenarioFinished" /\ current # None
  BY EmptySeq, RunAssumption DEF Known, HandleScenarioFinished, Handling, LoneBasics, Unit
<1>2. p = queue /\ Len(queue) \in Nat \ {0} /\ queue[1] = Head(queue) /\ p \in Seq(Message)
  BY <1>1, ConcatEmptySeq, LenProperties, EmptySeq DEF Pending, TypeOK
<1>3. 1 \in 1..Len(p) /\ p[1].what = "ScenarioFinished" /\ EndState(p, c, active, Object)
  BY <1>1, <1>2 DEF EndInv
<1>4. EndIn(p)
  BY <1>3, Zenon DEF EndIn
<1>5. Alive \in BOOLEAN /\ Alive' \in BOOLEAN
  BY Zenon DEF Alive
<1>. HIDE DEF p, c
<1>6. PICK f \in 1..Len(p) : EndWith(p, c, active, Object, f)
  BY <1>3, <1>4, StopBeforeEnd, Zenon
<1>7. f = 1 /\ Ending(p, c, 1)
  BY <1>3, <1>6, Zenon DEF EndWith, Ending
<1>8. ~StopIn(p, c)
  <2>1. \A j \in 1..Len(p) : ~(j < 1)
    BY <1>2
  <2>. QED
    BY <1>7, <2>1, Zenon DEF StopIn, Ending
<1>9. /\ c \in active => PhaseOf(Alive, p, c, active) = "broken"
      /\ c \notin active => /\ PhaseOf(Alive, p, c, active) = "finishing"
                            /\ p[1].code = FinishCode(Object)
  <2>1. PhaseOf(Alive, p, c, active) = IF c \in active /\ ~StopIn(p, c) THEN "broken" ELSE "finishing"
    BY <1>1, <1>3, <1>5, <1>7, EndingPhase, Zenon
  <2>. QED
    BY <1>6, <1>7, <1>8, <2>1, Zenon DEF EndWith
<1>10. CASE c \in active
  <2>1. Panic("borrow")
    BY <1>1, <1>10, Zenon DEF HandleScenarioFinished, c
  <2>2. ~Alive' /\ UNCHANGED <<library, current, scenario, finish>>
    BY <2>1, Zenon DEF Panic, Alive, managerVars, viewVars
  <2>3. EndInv' /\ PhaseOf(Alive', q, c', active') = "broken"
    BY <2>2, Zenon DEF EndInv, PhaseOf
  <2>. QED
    BY <1>9, <1>10, <2>2, <2>3, PhaseForms, Zenon DEF p, c
<1>11. CASE c \notin active
  <2>1. /\ finish' = Head(queue).code /\ Handled(<<>>)
        /\ UNCHANGED <<current, active, scenario>>
    BY <1>1, <1>11, Zenon DEF HandleScenarioFinished, c, managerVars
  <2>2. /\ UNCHANGED <<library, panicked>> /\ queue' = Tail(queue) /\ out' = <<>> /\ Alive'
    BY <1>1, <2>1, Zenon DEF Handled, Alive
  <2>3. /\ Len(q) = Len(queue) - 1
        /\ \A j \in 1..(Len(queue) - 1) : q[j] = queue[j + 1]
    <3>. DEFINE sent == <<>>
    <3>1. sent \in Seq(Message) /\ out' = sent /\ Len(sent) = 0
      BY <1>1, <2>2, Zenon
    <3>. HIDE DEF sent
    <3>2. /\ Len(q) = Len(queue) - 1 + Len(sent)
          /\ \A j \in 1..(Len(queue) - 1) : q[j] = queue[j + 1]
      BY <1>1, <2>2, <3>1, PendingTaken, Zenon
    <3>. QED
      BY <1>2, <3>1, <3>2
  <2>. HIDE DEF q
  <2>4. ASSUME NEW j \in 1..Len(q) PROVE q[j].what # "ScenarioFinished" /\ q[j] # StopTest(c)
    <3>1. j + 1 \in 1..Len(p) /\ j + 1 # 1 /\ q[j] = p[j + 1]
      BY <1>2, <2>3
    <3>. QED
      BY <1>7, <1>8, <3>1, Zenon DEF Ending, StopIn
  <2>5. NotEnding(q, c) /\ ~EndIn(q)
    BY <2>4, Zenon DEF NotEnding, EndIn, StopIn
  <2>6. EndInv'
    BY <2>1, <2>5, Zenon DEF EndInv, EndState, q, c
  <2>7. PhaseOf(Alive', q, c, active') = "idle"
    BY <1>11, <2>1, <2>2, <2>5, Zenon DEF PhaseOf
  <2>8. finish' = FinishCode(Object)
    BY <1>2, <1>9, <1>11, <2>1, Zenon
  <2>. QED
    BY <1>9, <1>11, <2>1, <2>2, <2>6, <2>7, <2>8, PhaseForms, Zenon DEF p, q, c
<1>. QED
  BY <1>10, <1>11, Zenon

\* The scenario is started: a new run, or, with an end still to be announced, the
\* program is bound to die.
LEMMA RunStarted ==
    ASSUME Lone, Known, TypeOK', LoneBasics, DriverInv, EndInv, StartSelected, Named \notin active
    PROVE  /\ EndInv' /\ UNCHANGED <<library, current, finish>> /\ Object' = FreshScenario
           /\ \/ PhaseSeen = "idle" /\ PhaseSeen' = "running"
              \/ PhaseSeen = "finishing" /\ PhaseSeen' = "broken"
<1>. DEFINE p == Pending
            q == Pending'
            c == current
            m == AdvanceScenario(current, 0)
            sent == <<m>>
<1>1. TypeOK /\ Alive /\ out = <<>> /\ queue # <<>> /\ Head(queue).what = "StartScenario"
  BY Zenon DEF Known, StartSelected, StartAccepted, Handling
<1>2. current \in Scenario /\ Named = current /\ current \notin active
  BY <1>1, Zenon DEF LoneBasics, Lone, StartSelected
<1>3. /\ UNCHANGED <<current, threads, support, finish>> /\ active' = active \cup {c}
      /\ scenario' = [scenario EXCEPT ![current] = FreshScenario] /\ Handled(Append(<<>>, m))
  BY <1>2, Zenon DEF StartSelected, ActivateScenario, testVars, viewVars
<1>4. Object' = FreshScenario
  BY <1>1, <1>2, <1>3, Zenon DEF Object, TypeOK
<1>5. m \in Message /\ m.what = "AdvanceScenario"
  BY <1>2, MessageTypes, Zenon DEF AdvanceScenario, Unit, Result
<1>. HIDE DEF m
<1>6. sent \in Seq(Message) /\ Len(sent) = 1 /\ sent[1] = m /\ Append(<<>>, m) = sent
  BY <1>5
<1>. HIDE DEF sent
<1>7. queue' = Tail(queue) /\ out' = sent /\ UNCHANGED <<library, panicked>> /\ Alive'
  BY <1>1, <1>3, <1>6, Zenon DEF Handled, Alive
<1>8. AtRest
  BY <1>1, <1>2, Zenon DEF DriverInv, MessageDrives, OnMessage, ThreadDrives, CommandDrives
<1>9. /\ p = queue /\ Len(queue) \in Nat \ {0} /\ queue[1] = Head(queue)
      /\ Len(q) = Len(queue) - 1 + Len(sent)
      /\ \A j \in 1..(Len(queue) - 1) : q[j] = queue[j + 1]
      /\ \A j \in 1..Len(sent) : q[Len(queue) - 1 + j] = sent[j]
  BY <1>1, <1>6, <1>7, PendingTaken, Zenon
<1>10. Len(q) = Len(p) /\ q[Len(p)] = m /\ Len(p) \in Nat \ {0} /\ p[1].what = "StartScenario"
  <2>1. 1 \in 1..Len(sent) /\ Len(queue) - 1 + 1 = Len(queue) /\ Len(queue) - 1 + Len(sent) = Len(queue)
    BY <1>6, <1>9
  <2>. QED
    BY <1>1, <1>6, <1>9, <2>1, Zenon
<1>11. \A j \in 1..Len(p) : ~Drives(p[j])
  BY <1>8, Zenon DEF AtRest, NoMessageDrives
<1>12. Drives(StopTest(c)) /\ m # StopTest(c)
  BY <1>5 DEF Drives, StopTest
<1>13. /\ Working' = {} /\ support'[current'] = 0 /\ Alive \in BOOLEAN /\ Alive' \in BOOLEAN
  BY <1>3, <1>8, Zenon DEF AtRest, Working, Alive
<1>14. \A j \in 1..(Len(p) - 1) : q[j] = p[j + 1]
  BY <1>9, Zenon
<1>15. EndState(p, c, active, Object)
  BY <1>1, Zenon DEF EndInv
<1>16. c' = c /\ c \notin active /\ c \in active'
  BY <1>2, <1>3, Zenon
<1>. HIDE DEF p, q, c
<1>17. ~StopIn(p, c)
  BY <1>11, <1>12, Zenon DEF StopIn
<1>18. ASSUME NEW j \in 1..Len(q)
       PROVE  (j = Len(p) /\ q[j] = m) \/ (j + 1 \in 1..Len(p) /\ q[j] = p[j + 1])
  <2>1. j = Len(p) \/ (j \in 1..(Len(p) - 1) /\ j + 1 \in 1..Len(p))
    BY <1>10
  <2>. QED
    BY <1>10, <1>14, <2>1, Zenon
<1>19. ~StopIn(q, c)
  BY <1>12, <1>17, <1>18, Zenon DEF StopIn
<1>20. CASE NotEnding(p, c)
  <2>1. ~EndIn(q) /\ ~EndIn(p)
    BY <1>5, <1>18, <1>20, Zenon DEF NotEnding, EndIn
  <2>2. NotEnding(q, c)
    BY <1>19, <2>1, Zenon DEF NotEnding
  <2>3. EndInv'
    BY <1>16, <2>1, <2>2, Zenon DEF EndInv, EndState, q, c
  <2>4. PhaseOf(Alive, p, c, active) = "idle" /\ PhaseOf(Alive', q, c, active') = "running"
    BY <1>1, <1>7, <1>16, <2>1, Zenon DEF PhaseOf
  <2>. QED
    BY <1>3, <1>4, <1>7, <1>16, <2>3, <2>4, PhaseForms, Zenon DEF p, q, c
<1>21. ASSUME NEW f \in 1..Len(p), EndWith(p, c, active, Object, f)
       PROVE  /\ EndInv' /\ PhaseOf(Alive, p, c, active) = "finishing"
              /\ PhaseOf(Alive', q, c, active') = "broken"
  <2>1. Ending(p, c, f) /\ p[f].what = "ScenarioFinished"
    BY <1>21, Zenon DEF EndWith, Ending
  <2>2. f # 1
    BY <1>10, <2>1, Zenon
  <2>3. PICK g \in Nat : g = f - 1
    <3>1. f - 1 \in Nat
      BY <1>10
    <3>. QED
      BY <3>1, Zenon
  <2>4. g \in 1..Len(q) /\ g + 1 = f /\ g < Len(p)
    BY <1>10, <2>2, <2>3
  <2>5. ASSUME NEW j \in 1..Len(q)
        PROVE  /\ q[j].what = "ScenarioFinished" <=> j = g
               /\ q[j] # StopTest(c)
               /\ q[j].what = "AdvanceScenario" => j > g
               /\ q[j].what # "StartTest"
    <3>1. CASE j = Len(p) /\ q[j] = m
      <4>1. j # g /\ j > g
        BY <1>10, <2>4, <3>1
      <4>. QED
        BY <1>5, <1>12, <3>1, <4>1, Zenon
    <3>2. CASE j + 1 \in 1..Len(p) /\ q[j] = p[j + 1]
      <4>1. (j + 1 = f <=> j = g) /\ (j + 1 > f => j > g)
        BY <2>3, <2>4
      <4>2. /\ p[j + 1].what = "ScenarioFinished" <=> j + 1 = f
            /\ p[j + 1].what = "AdvanceScenario" => j + 1 > f
            /\ p[j + 1].what # "StartTest" /\ p[j + 1] # StopTest(c)
        BY <1>17, <2>1, <3>2, Zenon DEF Ending, StopIn
      <4>. QED
        BY <3>2, <4>1, <4>2, Zenon
    <3>. QED
      BY <1>18, <3>1, <3>2, Zenon
  <2>6. Ending(q, c, g)
    BY <2>5, Zenon DEF Ending
  <2>7. EndWith(q, c, active', Object', g)
    BY <1>16, <1>19, <2>6, Zenon DEF EndWith
  <2>8. EndInv'
    BY <1>13, <1>16, <2>4, <2>7, Zenon DEF EndInv, EndState, q, c
  <2>9. PhaseOf(Alive, p, c, active) = IF c \in active /\ ~StopIn(p, c) THEN "broken" ELSE "finishing"
    BY <1>1, <1>13, <2>1, EndingPhase, Zenon
  <2>10. PhaseOf(Alive', q, c, active') =
            IF c \in active' /\ ~StopIn(q, c) THEN "broken" ELSE "finishing"
    BY <1>7, <1>13, <2>4, <2>6, EndingPhase, Zenon
  <2>. QED
    BY <1>16, <1>19, <2>8, <2>9, <2>10, Zenon
<1>. QED
  BY <1>3, <1>4, <1>7, <1>15, <1>16, <1>20, <1>21, PhaseForms, Zenon DEF EndState, p, q, c

\* What is sent before the scenario goes on does not concern its end.
LEMMA BeforeIsCalm ==
    ASSUME Known, Handling("AdvanceScenario"), current \in Scenario, NEW S \in SUBSET Test
    PROVE  /\ Before(S) \in Seq(Message) /\ Len(Before(S)) \in Nat
           /\ \A j \in 1..Len(Before(S)) : /\ Before(S)[j].what \in {"StopTest", "Skip"}
                                           /\ Before(S)[j] # StopTest(current)
<1>. DEFINE before == Before(S)
            M == {StopTest(t) : t \in Test} \cup {Skip(S)}
<1>1. before \in Seq(M) /\ before \in Seq(Message) /\ Len(before) \in Nat
  BY BeforeFacts, BeforeDrivesNothing, RunAssumption DEF Unit
<1>2. current \notin Test
  BY RunAssumption, Zenon
<1>3. \A m \in M : m.what \in {"StopTest", "Skip"} /\ m # StopTest(current)
  BY <1>2 DEF StopTest, Skip
<1>. HIDE DEF M, before
<1>4. \A j \in 1..Len(before) : before[j] \in M
  BY <1>1, LenProperties, ElementOfSeq, Zenon
<1>5. /\ before \in Seq(Message) /\ Len(before) \in Nat
      /\ \A j \in 1..Len(before) : before[j].what \in {"StopTest", "Skip"} /\ before[j] # StopTest(current)
  BY <1>1, <1>3, <1>4, Zenon
<1>. QED
  BY <1>5, Zenon DEF before

\* The run is over: its tests, the scenario itself and then the announcement are sent
\* behind what was on its way.
LEMMA EndBegins ==
    ASSUME Lone, Known, TypeOK', LoneBasics, DriverInv, EndInv, HandleAdvanceScenario,
           NEW S, NEW new, AdvancedTo(S, new), GoesToEnd(S, new)
    PROVE  EndInv' /\ PhaseSeen' = "finishing"
<1>. DEFINE c == current
            q == Pending'
            before == Before(S)
            n == TestCount(Desc(current))
            stops == StopMessages(current)
            f == ScenarioFinished(current, FinishCode(new))
            sent == before \o stops \o <<f>>
<1>0. Handling("AdvanceScenario") /\ Head(queue).what = "AdvanceScenario"
  BY Zenon DEF HandleAdvanceScenario, Handling
<1>1. /\ TypeOK /\ Alive /\ out = <<>> /\ queue # <<>> /\ current \in Scenario
      /\ Drives(Head(queue)) /\ Working = {} /\ support[current] = 0
  BY <1>0, AdvanceFrom, Zenon
<1>2. /\ S \in SUBSET Test /\ scenario' = [scenario EXCEPT ![current] = new]
      /\ UNCHANGED <<current, threads, support>> /\ new \in ScenarioObject /\ Handled(sent)
  BY Zenon DEF AdvancedTo, SkipsAndKeeps, managerVars, testVars, GoesToEnd
<1>3. /\ before \in Seq(Message) /\ Len(before) \in Nat
      /\ \A j \in 1..Len(before) : before[j].what \in {"StopTest", "Skip"}
  BY <1>0, <1>1, <1>2, BeforeIsCalm, Zenon
<1>4. /\ n \in Nat /\ stops \in Seq(RunMessage) /\ Len(stops) = n + 1
      /\ \A k \in 1..n : stops[k] = StopTest(Desc(current).test_sequence[k])
      /\ stops[n + 1] = StopTest(current)
  BY <1>1, StopMessagesFacts, Zenon
<1>5. stops \in Seq(Message)
  <2>1. RunMessage \subseteq Message
    BY Zenon DEF RunMessage
  <2>. QED
    BY <1>4, <2>1, SeqMonotonic, Zenon
<1>6. f \in Message /\ f.what = "ScenarioFinished" /\ f.code = FinishCode(new)
  <2>1. FinishCode(new) \in Nat
    BY <1>2 DEF FinishCode, ScenarioObject
  <2>. QED
    BY <1>1, <2>1, MessageTypes, Zenon DEF ScenarioFinished
<1>7. \A k \in 1..(n + 1) : stops[k].what = "StopTest"
  <2>1. \A k \in 1..(n + 1) : k \in 1..n \/ k = n + 1
    BY <1>4
  <2>2. \A u : StopTest(u).what = "StopTest"
    BY Zenon DEF StopTest
  <2>. HIDE DEF stops, n
  <2>. QED
    BY <1>4, <2>1, <2>2, Zenon
<1>8. /\ Object' = new /\ Working' = {} /\ support'[current'] = 0 /\ c' = c
      /\ Alive \in BOOLEAN /\ Alive' \in BOOLEAN /\ Alive'
  BY <1>1, <1>2, Zenon DEF Object, TypeOK, Working, Handled, Alive
<1>9. NotEnding(Pending, c)
  BY <1>0, <1>1, MovingNotEnding, Zenon
<1>10. Drives(StopTest(c)) /\ StopTest(c).what = "StopTest"
  BY Zenon DEF Drives, StopTest
<1>. HIDE DEF before, stops, f, n
<1>11. EndPlaces(before, stops, n, f, sent)
  BY <1>3, <1>4, <1>5, <1>6, EndSent, Zenon
<1>. HIDE DEF sent
<1>12. /\ sent \in Seq(Message) /\ Len(sent) = Len(before) + n + 2
       /\ \A j \in 1..Len(before) : sent[j] = before[j]
       /\ \A j \in 1..(n + 1) : sent[Len(before) + j] = stops[j]
       /\ sent[Len(before) + n + 2] = f
       /\ \A j \in 1..Len(sent) : \/ j \in 1..Len(before)
                                  \/ \E k \in 1..(n + 1) : j = Len(before) + k
                                  \/ j = Len(before) + n + 2
  BY <1>11, Zenon DEF EndPlaces
<1>13. Pending' = Tail(queue) \o sent /\ queue' = Tail(queue) /\ out' = sent
  BY <1>2, Zenon DEF Handled, Pending
<1>14. Behind(sent)
  BY <1>1, <1>12, <1>13, HeadDrives, Zenon
<1>15. /\ Len(queue) \in Nat \ {0} /\ Pending = queue
       /\ \A j \in 1..(Len(queue) - 1) : q[j] = queue[j + 1]
  BY <1>1, <1>12, <1>13, PendingTaken, Zenon
<1>16. /\ q \in Seq(Message) /\ Len(q) = Len(queue) - 1 + Len(sent)
       /\ \A j \in 1..(Len(queue) - 1) : ~Drives(q[j])
       /\ \A j \in 1..Len(sent) : q[Len(queue) - 1 + j] = sent[j]
  BY <1>14, Zenon DEF Behind
<1>17. \A j \in 1..Len(q) : \/ j \in 1..(Len(queue) - 1)
                            \/ \E k \in 1..Len(sent) : j = Len(queue) - 1 + k /\ q[j] = sent[k]
  BY <1>14, BehindPlaces, Zenon
<1>. HIDE DEF q, c
<1>18. \A j \in 1..Len(sent) :
          \/ j < Len(sent) /\ sent[j].what \in {"StopTest", "Skip"}
          \/ j = Len(sent) /\ sent[j] = f
  <2>. SUFFICES ASSUME NEW j \in 1..Len(sent)
                PROVE  \/ j < Len(sent) /\ sent[j].what \in {"StopTest", "Skip"}
                       \/ j = Len(sent) /\ sent[j] = f
    BY Zenon
  <2>1. CASE j \in 1..Len(before)
    <3>1. j < Len(sent)
      BY <1>3, <1>4, <1>12, <2>1
    <3>. QED
      BY <1>3, <1>12, <2>1, <3>1, Zenon
  <2>2. ASSUME NEW k \in 1..(n + 1), j = Len(before) + k
        PROVE  j < Len(sent) /\ sent[j].what \in {"StopTest", "Skip"}
    <3>1. j < Len(sent)
      BY <1>3, <1>4, <1>12, <2>2
    <3>. QED
      BY <1>7, <1>12, <2>2, <3>1, Zenon
  <2>3. CASE j = Len(before) + n + 2
    BY <1>12, <2>3, Zenon
  <2>. QED
    BY <1>12, <2>1, <2>2, <2>3, Zenon
<1>19. Len(sent) \in Nat \ {0} /\ Len(sent) \in 1..Len(sent) /\ sent[Len(sent)] = f
  BY <1>3, <1>4, <1>12
<1>20. PICK e \in 1..Len(q) : e = Len(q)
  BY <1>15, <1>16, <1>19
<1>21. e = Len(queue) - 1 + Len(sent) /\ q[e] = f
  BY <1>16, <1>19, <1>20, Zenon
<1>Places. Len(queue) - 1 \in Nat /\ Len(sent) \in Nat /\ e = Len(queue) - 1 + Len(sent)
  BY <1>15, <1>19, <1>21
<1>22. ASSUME NEW j \in 1..Len(q)
       PROVE  \/ j < e /\ q[j].what \notin {"ScenarioFinished", "AdvanceScenario", "StartTest"}
              \/ j = e /\ q[j] = f
  <2>1. CASE j \in 1..(Len(queue) - 1)
    <3>1. j < e /\ j + 1 \in 1..Len(queue) /\ q[j] = queue[j + 1] /\ ~Drives(q[j])
      BY <1>15, <1>16, <1>19, <1>21, <2>1
    <3>2. queue[j + 1].what # "ScenarioFinished"
      BY <1>9, <1>15, <3>1, Zenon DEF NotEnding, EndIn
    <3>. QED
      BY <3>1, <3>2, Zenon DEF Drives
  <2>2. ASSUME NEW k \in 1..Len(sent), j = Len(queue) - 1 + k, q[j] = sent[k]
        PROVE  \/ j < e /\ q[j].what \in {"StopTest", "Skip"}
               \/ j = e /\ q[j] = f
    <3>1. (k < Len(sent) => j < e) /\ (k = Len(sent) => j = e)
      BY <1>Places, <2>2
    <3>. QED
      BY <1>18, <2>2, <3>1, Zenon
  <2>. QED
    BY <1>17, <2>1, <2>2, Zenon
<1>23. Ending(q, c, e)
  BY <1>6, <1>10, <1>20, <1>22 DEF Ending
<1>24. StopIn(q, c)
  <2>1. PICK k \in 1..Len(sent) : k = Len(before) + (n + 1)
    <3>1. Len(before) + (n + 1) \in 1..Len(sent)
      BY <1>3, <1>4, <1>12
    <3>. QED
      BY <3>1, Zenon
  <2>2. n + 1 \in 1..(n + 1)
    BY <1>4
  <2>3. sent[k] = StopTest(c)
    BY <1>4, <1>12, <2>1, <2>2, Zenon DEF c
  <2>4. PICK j \in 1..Len(q) : j = Len(queue) - 1 + k
    <3>1. Len(queue) - 1 + k \in 1..Len(q)
      BY <1>15, <1>16
    <3>. QED
      BY <3>1, Zenon
  <2>. QED
    BY <1>16, <2>3, <2>4, Zenon DEF StopIn
<1>25. EndWith(q, c, active', Object', e)
  BY <1>6, <1>8, <1>21, <1>23, Zenon DEF EndWith
<1>26. EndInv'
  BY <1>8, <1>25, Zenon DEF EndInv, EndState, q, c
<1>27. PhaseOf(Alive', q, c, active') =
          IF c \in active' /\ ~StopIn(q, c) THEN "broken" ELSE "finishing"
  BY <1>8, <1>23, EndingPhase, Zenon
<1>. QED
  BY <1>8, <1>24, <1>26, <1>27, PhaseForms, Zenon DEF q, c

\* The scenario moves on, or comes to its end.
LEMMA RunAdvanced ==
    ASSUME Lone, Known, TypeOK', LoneBasics, DriverInv, EndInv, HandleAdvanceScenario,
           NEW S, NEW new, AdvancedTo(S, new)
    PROVE  /\ EndInv' /\ UNCHANGED <<library, current, finish>> /\ Object' = new
           /\ PhaseSeen = "running"
           /\ \/ PhaseSeen' = "running"
              \/ PhaseSeen' = "finishing" /\ new.state = "ScenarioFinished"
<1>. DEFINE c == current
            before == Before(S)
<1>0. Handling("AdvanceScenario") /\ Head(queue).what = "AdvanceScenario"
  BY Zenon DEF HandleAdvanceScenario, Handling
<1>1. /\ TypeOK /\ Alive /\ out = <<>> /\ queue # <<>> /\ current \in Scenario
      /\ Drives(Head(queue)) /\ Working = {} /\ support[current] = 0 /\ current \in active
  BY <1>0, AdvanceFrom, Zenon
<1>2. /\ S \in SUBSET Test /\ scenario' = [scenario EXCEPT ![current] = new]
      /\ UNCHANGED <<current, active, threads, finish>>
      /\ GoesToTest(S, new) \/ GoesToCommand(S, new) \/ GoesToEnd(S, new)
  BY Zenon DEF AdvancedTo, SkipsAndKeeps, managerVars, testVars, viewVars
<1>3. /\ before \in Seq(Message) /\ Len(before) \in Nat
      /\ \A j \in 1..Len(before) : before[j].what \in {"StopTest", "Skip"} /\ before[j] # StopTest(c)
  BY <1>0, <1>1, <1>2, BeforeIsCalm, Zenon
<1>4. Object' = new /\ Working' = {} /\ c' = c /\ c \in active'
  BY <1>1, <1>2, Zenon DEF Object, TypeOK, Working
<1>5. NotEnding(Pending, c)
  BY <1>0, <1>1, MovingNotEnding, Zenon
<1>6. UNCHANGED <<library, panicked>>
  BY <1>2, Zenon DEF GoesToTest, GoesToCommand, GoesToEnd, RunSupportCommand, Handled
<1>7. ASSUME NEW sent \in Seq(Message), Handled(sent),
             \A j \in 1..Len(sent) : sent[j].what # "ScenarioFinished" /\ sent[j] # StopTest(c)
      PROVE  EndInv' /\ PhaseSeen = "running" /\ PhaseSeen' = "running"
  <2>. DEFINE all == {sent[k] : k \in 1..Len(sent)}
  <2>1. Carried(Pending, Pending', 2, all)
    BY <1>1, <1>7, PendingTaken, Zenon DEF Handled
  <2>2. \A m \in all : m.what # "ScenarioFinished" /\ m # StopTest(c)
    BY <1>7, Zenon
  <2>. HIDE DEF all
  <2>3. /\ EndInv'
        /\ PhaseSeen = IF current \in active THEN "running" ELSE "idle"
        /\ PhaseSeen' = IF current \in active' THEN "running" ELSE "idle"
    BY <1>1, <1>2, <1>5, <1>6, <2>1, <2>2, NotEndingStays, Zenon
  <2>. QED
    BY <1>1, <1>4, <2>3, Zenon
<1>8. ASSUME NEW m \in Message, m.what # "ScenarioFinished", m # StopTest(c), Handled(before \o <<m>>)
      PROVE  EndInv' /\ PhaseSeen = "running" /\ PhaseSeen' = "running"
  <2>. HIDE DEF before, c
  <2>. DEFINE sent == before \o <<m>>
  <2>1. /\ sent \in Seq(Message) /\ sent[Len(before) + 1] = m
        /\ \A j \in 1..Len(before) : sent[j] = before[j]
        /\ \A j \in 1..Len(sent) : j \in 1..Len(before) \/ j = Len(before) + 1
    BY <1>3, OneMore
  <2>2. Handled(sent)
    BY <1>8, Zenon
  <2>. HIDE DEF sent
  <2>3. \A j \in 1..Len(sent) : sent[j].what # "ScenarioFinished" /\ sent[j] # StopTest(c)
    BY <1>3, <1>8, <2>1, Zenon
  <2>. QED
    BY <1>7, <2>1, <2>2, <2>3, Zenon
<1>9. CASE GoesToTest(S, new)
  <2>. DEFINE t == Desc(current).test_sequence[new.step]
              m == StartTest(t)
  <2>1. Handled(before \o <<m>>) /\ new.step \in 1..TestCount(Desc(current))
    BY <1>9, Zenon DEF GoesToTest
  <2>2. t \in Test
    BY <1>1, <2>1, LibraryTypes, Zenon
  <2>3. m \in Message /\ m.what # "ScenarioFinished" /\ m # StopTest(c)
    BY <2>2, MessageTypes, Zenon DEF StartTest, StopTest
  <2>. HIDE DEF m, before
  <2>. QED
    BY <1>2, <1>4, <1>6, <1>8, <2>1, <2>3, Zenon
<1>10. CASE GoesToCommand(S, new)
  <2>. DEFINE m == AdvanceScenario(current, 1)
  <2>1. Handled(before) \/ Handled(Append(before, m))
    BY <1>10, Zenon DEF GoesToCommand, RunSupportCommand
  <2>2. m \in Message /\ m.what # "ScenarioFinished" /\ m # StopTest(c)
    BY <1>1, MessageTypes, Zenon DEF AdvanceScenario, StopTest, Unit, Result
  <2>. HIDE DEF m, before
  <2>3. Append(before, m) = before \o <<m>>
    BY <1>3, <2>2, AppendIsConcat, Zenon
  <2>4. EndInv' /\ PhaseSeen = "running" /\ PhaseSeen' = "running"
    BY <1>3, <1>7, <1>8, <2>1, <2>2, <2>3, Zenon
  <2>. QED
    BY <1>2, <1>4, <1>6, <2>4, Zenon
<1>11. CASE GoesToEnd(S, new)
  <2>1. EndInv' /\ PhaseSeen' = "finishing" /\ new.state = "ScenarioFinished"
    BY <1>11, EndBegins, Zenon DEF GoesToEnd
  <2>2. PhaseSeen = "running"
    <3>1. PhaseOf(Alive, Pending, c, active) = "running"
      BY <1>1, <1>5, Zenon DEF PhaseOf, NotEnding
    <3>. QED
      BY <3>1, PhaseForms, Zenon
  <2>. QED
    BY <1>2, <1>4, <1>6, <2>1, <2>2, Zenon
<1>. QED
  BY <1>2, <1>9, <1>10, <1>11, Zenon
=============================================================================
