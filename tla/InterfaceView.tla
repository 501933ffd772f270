---------------------------- MODULE InterfaceView ----------------------------
(***************************************************************************)
(* What the manager tells the interfaces (unitmanager.rs) of the jig, the  *)
(* scenarios and their tests, and what an interface therefore believes.    *)
(*                                                                         *)
(* Loading and selecting units puts events on the bus; the main thread     *)
(* handles them later, and tells all interfaces what is the case by then.  *)
(* An interface that starts sends itself a greeting through the control    *)
(* channel and the bus, and asks questions the same way.  Meanwhile a      *)
(* rescan may load, reload or delete any units.                            *)
(*                                                                         *)
(* Each load of a jig or scenario has a number, the version, which stands  *)
(* for the contents of its file: name, description, list of tests.         *)
(***************************************************************************)
EXTENDS UnitManager

CONSTANTS MaxInputs,    \* bound: how many rescans and requests of interfaces
          MaxChanged    \* bound: how many units each rescan but the first changes

(* A library has finitely many files.                                       *)
ASSUME ViewAssumption ==
    /\ MaxInputs \in Nat /\ MaxChanged \in Nat
    /\ IsFiniteSet(Unit)

Described == Jig \cup Scenario

VARIABLES
    loaded,      \* the units in the manager's tables
    version,     \* the versions of the loaded jigs and scenarios, 0 for the others
    bus,         \* events and requests that the main thread has yet to handle
    control,     \* requests that the monitor has yet to put on the bus
    told,        \* what the process of each interface was told last
    rescans, requests,
    panicked     \* the main thread panicked

vars == <<manager, loaded, version, bus, control, told, rescans, requests, panicked>>

(* A new process was told nothing: no HELLO, no jig, no list of scenarios,  *)
(* no current scenario, no names (describe) and no test lists (tests), the  *)
(* last two by version, 0 for none.                                         *)
Nothing ==
    [hello |-> FALSE, jig |-> None, list |-> {}, scenario |-> None,
     describe |-> [u \in Described |-> 0], tests |-> [s \in Scenario |-> 0]]

Init ==
    /\ manager = NewManager
    /\ loaded = {}
    /\ version = [u \in Described |-> 0]
    /\ bus = <<>> /\ control = <<>>
    /\ told = [i \in Interface |-> Nothing]
    /\ rescans = 0 /\ requests = 0
    /\ panicked = FALSE

-----------------------------------------------------------------------------
(* The messages, by what they do to the belief b of an interface.           *)

Scenarios == loaded \cap Scenario

TellJig(b) == [b EXCEPT !.jig = manager.jig]

TellDescribe(b, units) ==
    [b EXCEPT !.describe = [u \in Described |-> IF u \in units THEN version[u] ELSE @[u]]]

TellScenarios(b) == [b EXCEPT !.list = Scenarios]

TellTests(b, s) == [b EXCEPT !.tests[s] = version[s]]

TellScenario(b, s) == TellTests([b EXCEPT !.scenario = s], s)

(* send_jig_to, send_scenarios_to                                           *)
SendJig(b) == TellDescribe(TellJig(b), {manager.jig} \ {None})
SendScenarios(b) == TellDescribe(TellScenarios(b), Scenarios)

(* Seeded mistake: a greeting without a HELLO.                              *)
SendGreetingSilent(b) == SendScenarios(SendJig(b))

SendGreeting(b) ==
    LET greeted == SendScenarios(SendJig([b EXCEPT !.hello = TRUE]))
    IN IF manager.scenario = None THEN greeted ELSE TellScenario(greeted, manager.scenario)

(* Seeded mistake: a loaded scenario is described, the list is not sent.    *)
SendNamedOnly(b, u) == TellDescribe(b, {u})

(* broadcast_jig_named, broadcast_scenario_named                            *)
SendNamed(b, u) ==
    TellDescribe(IF u \in Scenario THEN TellScenarios(b) ELSE b, {u})

(* broadcast_selected_jig, broadcast_selected_scenario: the current one, by *)
(* now, and nothing if there is none.                                       *)
SendSelected(b, u) ==
    CASE u \in Jig /\ manager.jig # None -> TellJig(b)
      [] u \in Scenario /\ manager.scenario # None -> TellScenario(b, manager.scenario)
      [] OTHER -> b

(* send_messages_to, for each of the interfaces: one that has no process or *)
(* cannot be written to (broken) is deactivated, the others believe the     *)
(* news.                                                                    *)
Sends(m, interfaces, news) ==
    \E broken \in SUBSET (interfaces \cap m.process) :
       LET deaf == broken \cup (interfaces \ m.process)
       IN /\ told' = [i \in Interface |->
                IF i \in interfaces \ deaf THEN news[i] ELSE told[i]]
          /\ \E failing \in SUBSET broken : manager' = Deactivate(m, deaf, failing)

Interfaces == loaded \cap Interface

-----------------------------------------------------------------------------
Event(what, u) == [what |-> what, unit |-> u, by |-> None]

(* select announces what was not selected before.                           *)
SelectedEvents(before, after) ==
    (IF after.scenario \notin {before.scenario, None}
     THEN <<Event("Selected", after.scenario)>> ELSE <<>>)
    \o (IF after.jig \notin {before.jig, None} THEN <<Event("Selected", after.jig)>> ELSE <<>>)

(* One of the orders in which S may be listed.                              *)
AnyOrder(S) == CHOOSE order \in Orders(S) : TRUE

LoadedEvents(units) ==
    LET order == AnyOrder(units \cap Jig) \o AnyOrder(units \cap Scenario)
    IN [n \in 1 .. Len(order) |-> Event("Loaded", order[n])]

Ask(what, s, i) == [what |-> what, unit |-> s, by |-> i]

(* An interface that is activated asks for its greeting.                    *)
Greetings(new) ==
    [n \in 1 .. Cardinality(new) |-> Ask("InitialGreeting", None, AnyOrder(new)[n])]

(* unload_scenario sends the list of scenarios to the interfaces that have  *)
(* a process.  The last time in a rescan, all are loaded again, except the  *)
(* one that is being unloaded.                                              *)
ListAtLastUnload(last) == (loaded' \cap Scenario) \ {last}

(* A rescan: some units are deleted or cannot be loaded, others are loaded  *)
(* for the first time or again; see UnitLibrary for how it comes to that.   *)
Rescan(deleted, reloaded) ==
    LET gone == deleted \cup reloaded
    IN
    /\ ~panicked
    /\ rescans + requests < MaxInputs
    /\ rescans' = rescans + 1
    /\ loaded' = (loaded \ gone) \cup reloaded
    /\ version' = [u \in Described |-> IF u \in deleted THEN 0
                                       ELSE IF u \in reloaded THEN rescans + 1 ELSE version[u]]
    /\ \E failing \in SUBSET (manager.process \cap gone) :
          LET kept == Unload(manager, gone, failing)
          IN \E broken \in SUBSET (kept.process \cap Interface) : \E stuck \in SUBSET broken :
             /\ broken # {} => gone \cap Scenario # {}
             /\ Settle(Deactivate(kept, broken, stuck), reloaded, loaded')
             /\ bus' = bus \o LoadedEvents(reloaded) \o SelectedEvents(kept, manager')
    /\ LET new == manager'.process \cap reloaded
       IN /\ control' = control \o Greetings(new)
          /\ \E last \in IF gone \cap Scenario = {} THEN {None} ELSE gone \cap Scenario :
                told' = [i \in Interface |->
                   IF i \notin manager'.process \/ i \in new THEN Nothing
                   ELSE IF last = None THEN told[i]
                   ELSE [told[i] EXCEPT !.list = ListAtLastUnload(last)]]
    /\ UNCHANGED <<requests, panicked>>

-----------------------------------------------------------------------------
(* An interface writes a line.                                              *)
InterfaceAsks(i, what, s) ==
    /\ ~panicked
    /\ rescans + requests < MaxInputs
    /\ i \in manager.process
    /\ requests' = requests + 1
    /\ control' = Append(control, Ask(what, s, i))
    /\ UNCHANGED <<manager, loaded, version, bus, told, rescans, panicked>>

(* control_message_monitor                                                  *)
MonitorForwards ==
    /\ ~panicked
    /\ control # <<>>
    /\ bus' = Append(bus, Head(control))
    /\ control' = Tail(control)
    /\ UNCHANGED <<manager, loaded, version, told, rescans, requests, panicked>>

(* The main thread takes the next message off the bus.                      *)
Takes(what) ==
    /\ ~panicked
    /\ bus # <<>>
    /\ Head(bus).what = what
    /\ UNCHANGED <<loaded, version, rescans, requests>>

HandleLoaded ==
    /\ Takes("Loaded")
    /\ LET u == Head(bus).unit
       IN IF u \in loaded
          THEN Sends(manager, Interfaces, [i \in Interface |-> SendNamed(told[i], u)])
          ELSE UNCHANGED <<manager, told>>
    /\ bus' = Tail(bus)
    /\ UNCHANGED <<control, panicked>>

HandleSelected ==
    /\ Takes("Selected")
    /\ LET u == Head(bus).unit
       IN IF (u \in Jig /\ manager.jig # None) \/ (u \in Scenario /\ manager.scenario # None)
          THEN Sends(manager, Interfaces, [i \in Interface |-> SendSelected(told[i], u)])
          ELSE UNCHANGED <<manager, told>>
    /\ bus' = Tail(bus)
    /\ UNCHANGED <<control, panicked>>

(* Answers go to the one who asked, whom send_messages_to expects to find.  *)
Answers(what, news) ==
    /\ Takes(what)
    /\ bus' = Tail(bus)
    /\ UNCHANGED control
    /\ LET i == Head(bus).by
       IN IF i \in loaded THEN Sends(manager, {i}, news) /\ UNCHANGED panicked
          ELSE panicked' = TRUE /\ UNCHANGED <<manager, told>>

HandleGreeting == Answers("InitialGreeting", [i \in Interface |-> SendGreeting(told[i])])
HandleJig == Answers("Jig", [i \in Interface |-> SendJig(told[i])])
HandleScenarios == Answers("Scenarios", [i \in Interface |-> SendScenarios(told[i])])

(* send_tests_to: of the scenario that is named, or of the current one; if  *)
(* there is none, an error is logged.                                       *)
HandleTests ==
    /\ Takes("Tests")
    /\ LET s == IF Head(bus).unit = None THEN manager.scenario ELSE Head(bus).unit
       IN IF s \in loaded
          THEN Answers("Tests", [i \in Interface |-> TellTests(told[i], s)])
          ELSE bus' = Tail(bus) /\ UNCHANGED <<manager, told, control, panicked>>

(* A scenario is chosen, and everyone is told at once, and once more when   *)
(* the event comes round.                                                   *)
HandleScenario ==
    /\ Takes("Scenario")
    /\ LET s == Head(bus).unit
           m == SelectScenario(manager, s, loaded)
       IN IF s \in loaded
          THEN /\ Sends(m, Interfaces, [i \in Interface |-> TellScenario(told[i], m.scenario)])
               /\ bus' = Tail(bus) \o SelectedEvents(manager, m)
          ELSE bus' = Tail(bus) /\ UNCHANGED <<manager, told>>
    /\ UNCHANGED <<control, panicked>>

(* StartScenario: the unit that is named, of whatever kind, or the current  *)
(* scenario is selected and activated, an interface with a new process, and *)
(* all interfaces hear of it.  Refused while a scenario runs, which may be  *)
(* whenever one is current.                                                 *)
Start(u) ==
    \E up \in BOOLEAN :
       LET m == ActivateUnit(manager, u, loaded, up)
           new == m.process \ manager.process
       IN /\ Sends(m, Interfaces, [i \in Interface |-> IF i \in new THEN Nothing ELSE told[i]])
          /\ bus' = Tail(bus) \o SelectedEvents(manager, m)
          /\ control' = control \o Greetings(new)

HandleStart ==
    /\ Takes("Start")
    /\ LET u == IF Head(bus).unit = None THEN manager.scenario ELSE Head(bus).unit
       IN \/ u # None /\ Start(u)
          \/ /\ u = None \/ manager.scenario # None
             /\ bus' = Tail(bus) /\ UNCHANGED <<manager, told, control>>
    /\ UNCHANGED panicked

MainThread ==
    \/ HandleLoaded \/ HandleSelected \/ HandleGreeting \/ HandleJig \/ HandleScenarios
    \/ HandleTests \/ HandleScenario \/ HandleStart

Next ==
    \/ MainThread
    \/ MonitorForwards
    \/ \E i \in Interface, what \in {"Jig", "Scenarios"} : InterfaceAsks(i, what, None)
    \/ \E i \in Interface, s \in Scenario \cup {None} : InterfaceAsks(i, "Tests", s)
    \/ \E i \in Interface, s \in Scenario : InterfaceAsks(i, "Scenario", s)
    \/ \E i \in Interface, u \in Unit \cup {None} : InterfaceAsks(i, "Start", u)
    \/ \E deleted, reloaded \in SUBSET Unit :
          /\ deleted \cap reloaded = {}
          /\ rescans = 0 \/ Cardinality(deleted \cup reloaded) \in 1 .. MaxChanged
          /\ Rescan(deleted, reloaded)

Spec == Init /\ [][Next]_vars

(* The main thread and the monitor run.                                     *)
FairSpec == Spec /\ WF_vars(MainThread) /\ WF_vars(MonitorForwards)

-----------------------------------------------------------------------------
Coming(what, units) ==
    \E n \in 1 .. Len(bus) : bus[n].what = what /\ bus[n].unit \in units

GreetingComing(i) ==
    \E n \in 1 .. Len(bus \o control) :
       (bus \o control)[n].what = "InitialGreeting" /\ (bus \o control)[n].by = i

(* An interface that believes something of the jigs, of the scenarios or of *)
(* their tests that is no longer so, whatever was loaded, deleted or chosen *)
(* meanwhile, has the event that will tell it still before it.  (When there *)
(* is no jig or no scenario any more, it is not told.)  The names of a jig  *)
(* that was loaded before the greeting it may not know at all: neither the  *)
(* greeting nor broadcast_selected_jig tells them, unless the jig is the    *)
(* current one at the greeting.                                             *)
StaleIsAnnounced ==
    ~panicked => \A i \in manager.process \cap Interface :
       LET b == told[i]
       IN /\ \A j \in loaded \cap Jig : b.describe[j] \in {0, version[j]} \/ Coming("Loaded", {j})
          /\ \/ GreetingComing(i)
             \/ /\ b.hello
                /\ b.list = Scenarios \/ Coming("Loaded", Scenarios)
                /\ manager.jig \in {b.jig, None} \/ Coming("Selected", Jig)
                /\ \/ manager.scenario = None
                   \/ b.scenario = manager.scenario
                      /\ b.tests[manager.scenario] = version[manager.scenario]
                   \/ Coming("Selected", Scenario)
                /\ \A s \in Scenarios : b.describe[s] = version[s] \/ Coming("Loaded", {s})

(* Every interface that starts is greeted, unless its process is lost.      *)
Greeted ==
    \A i \in Interface :
       i \in manager.process ~> told[i].hello \/ i \notin manager.process \/ panicked
=============================================================================
