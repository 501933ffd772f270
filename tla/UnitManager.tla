----------------------------- MODULE UnitManager -----------------------------
(***************************************************************************)
(* The tables of the manager (unitmanager.rs) that say which units are     *)
(* selected and active, and its operations on them: select, activate,      *)
(* deselect, deactivate, unload, refresh_defaults.  An operation takes a   *)
(* record m of the tables and returns the new one; `units' is what is      *)
(* loaded.  When they are called is in UnitLibrary and InterfaceView.      *)
(***************************************************************************)
EXTENDS Naturals, Sequences, FiniteSets, Functions

CONSTANTS
    Jig, Test, Scenario, Interface, Logger, Trigger,   \* unit names, by kind
    Jigs,          \* Jigs[u]: the jigs that the file of unit u lists
    TestsOf,       \* TestsOf[s]: the test order of scenario s
    Default,       \* Default[j]: the default scenario of jig j, or None
    None

Client == Interface \cup Logger \cup Trigger
Unit == Jig \cup Test \cup Scenario \cup Client

(* A jig names no jig, only scenarios have tests, a file is of one kind,    *)
(* and there are finitely many.                                             *)
ASSUME ManagerAssumption ==
    /\ Jigs \in [Unit -> SUBSET Jig]
    /\ \A j \in Jig : Jigs[j] = {}
    /\ TestsOf \in [Scenario -> SUBSET Test]
    /\ Default \in [Jig -> Scenario \cup {None}]
    /\ None \notin Unit
    /\ Jig \cap (Test \cup Scenario \cup Client) = {}
    /\ Test \cap (Scenario \cup Client) = {}
    /\ Scenario \cap Client = {}
    /\ IsFiniteSet(Jig)

VARIABLE
    manager      \* current jig and scenario, selected and active units, and
                 \* the clients whose process field is Some

ManagerTables ==
    [jig : Jig \cup {None}, scenario : Scenario \cup {None},
     selected : SUBSET Unit, active : SUBSET Unit, process : SUBSET Client]

NewManager ==
    [jig |-> None, scenario |-> None, selected |-> {}, active |-> {}, process |-> {}]

-----------------------------------------------------------------------------
Fits(u, units) == Jigs[u] = {} \/ Jigs[u] \cap units # {}

(* deselect deactivates first; the current scenario takes its tests along.  *)
DeselectScenario(m, s) ==
    LET left == {s} \cup IF s \in m.selected /\ m.scenario = s THEN TestsOf[s] ELSE {}
    IN [m EXCEPT !.scenario = IF s \in m.selected /\ @ = s THEN None ELSE @,
                 !.selected = @ \ left, !.active = @ \ left]

(* Seeded mistake: the old scenario is not deselected.                      *)
SelectScenarioOverOld(m, s, units) ==
    IF s \in m.selected \/ s \notin units THEN m
    ELSE [m EXCEPT !.scenario = s,
                   !.selected = @ \cup {s}
                        \cup {t \in TestsOf[s] \cap units : Fits(t, units)}]

(* The current scenario goes first, "There Can Only Be One"; then the tests *)
(* of the new one are selected, as far as their jigs are loaded.            *)
SelectScenario(m, s, units) ==
    IF s \in m.selected \/ s \notin units THEN m
    ELSE LET d == DeselectScenario(m, m.scenario)
         IN [d EXCEPT !.scenario = s,
                      !.selected = @ \cup {s}
                           \cup {t \in TestsOf[s] \cap units : Fits(t, units)}]

DeselectJig(m, j) ==
    IF j \notin m.selected THEN [m EXCEPT !.active = @ \ {j}]
    ELSE IF m.jig # j THEN [m EXCEPT !.active = @ \ {j}, !.selected = @ \ {j}]
    ELSE [DeselectScenario(m, Default[j]) EXCEPT
             !.jig = None, !.selected = @ \ {j}, !.active = @ \ {j}]

SelectJig(m, j, units) ==
    IF j \in m.selected \/ j \notin units THEN m
    ELSE LET d == [DeselectJig(m, m.jig) EXCEPT !.jig = j]
         IN [SelectScenario(d, Default[j], units) EXCEPT !.selected = @ \cup {j}]

ActivateJig(m, j, units) ==
    LET d == SelectJig(m, j, units)
    IN IF j \in d.selected /\ d.jig = j THEN [d EXCEPT !.active = @ \cup {j}] ELSE d

(* deactivate: nothing for an inactive client; else its process is taken    *)
(* out and terminated, and when that does not end with 0 (failing), the     *)
(* client stays in the active table.                                        *)
Deactivate(m, clients, failing) ==
    [m EXCEPT !.active = @ \ (clients \ (failing \cap m.process)),
              !.process = @ \ (clients \cap m.active)]

(* Seeded mistake: one attempt to stop a client.                            *)
UnloadClientsOnce(m, clients, failing) ==
    [Deactivate(m, clients, failing) EXCEPT !.selected = @ \ clients]

(* unload deactivates twice: in deselect and in unload_<kind>.              *)
UnloadClients(m, clients, failing) ==
    [Deactivate(Deactivate(m, clients, failing), clients, failing) EXCEPT
        !.selected = @ \ clients]

Unload(m, units, failing) ==
    LET noJig == IF m.jig \in units THEN DeselectJig(m, m.jig) ELSE m
        noScenario == IF noJig.scenario \in units
                      THEN DeselectScenario(noJig, noJig.scenario) ELSE noJig
        noTest == [noScenario EXCEPT !.selected = @ \ (units \cap Test),
                                     !.active = @ \ (units \cap Test)]
    IN UnloadClients(noTest, units \cap Client, failing)

(* select and activate of clients that were just loaded; those in started   *)
(* get a process, the others cannot be started.                             *)
ActivateClients(m, clients, started) ==
    LET new == started \ m.active
    IN [m EXCEPT !.selected = @ \cup clients, !.active = @ \cup new, !.process = @ \cup new]

(* A test is selected only for a loaded jig.                                *)
SelectTest(m, t, units) ==
    IF t \in units /\ Fits(t, units) THEN [m EXCEPT !.selected = @ \cup {t}] ELSE m

(* A unit that is selected as far as possible becomes active: a scenario if *)
(* it is the current one, a test if its program starts (up).                *)
Activate(d, u, up) ==
    IF u \in d.selected /\ up /\ (u \in Scenario => d.scenario = u)
    THEN [d EXCEPT !.active = @ \cup {u}] ELSE d

(* activate of any unit; up: its program, if it has one, can be started.    *)
ActivateUnit(m, u, units, up) ==
    CASE u \in Jig -> ActivateJig(m, u, units)
      [] u \in Scenario -> Activate(SelectScenario(m, u, units), u, TRUE)
      [] u \in Test -> Activate(SelectTest(m, u, units), u, up)
      [] OTHER -> ActivateClients(m, {u} \cap units, IF up THEN {u} \cap units ELSE {})

-----------------------------------------------------------------------------
(* Seeded mistake: no default is chosen.                                    *)
RefreshNothing(m, units) == {m}

(* 13. refresh_defaults: any loaded jig, any loaded scenario.               *)
RefreshJig(m, units) ==
    IF m.jig = None /\ units \cap Jig # {}
    THEN {ActivateJig(m, j, units) : j \in units \cap Jig} ELSE {m}

(* Seeded mistake: the scenario is stored as the jig.                       *)
RefreshScenarioAsJig(m, units) ==
    IF m.scenario = None /\ units \cap Scenario # {}
    THEN {[m EXCEPT !.jig = s] : s \in units \cap Scenario} ELSE {m}

RefreshScenario(m, units) ==
    IF m.scenario = None /\ units \cap Scenario # {}
    THEN {SelectScenario(m, s, units) : s \in units \cap Scenario} ELSE {m}

(* 10.: the jigs of a sequence are activated one after the other.           *)
ActivateJigs(m, order, units) ==
    LET after[n \in 0 .. Len(order)] ==
          IF n = 0 THEN m ELSE ActivateJig(after[n - 1], order[n], units)
    IN after[Len(order)]

(* The orders in which a hash table may list the members of S.              *)
Orders(S) == Injection(1 .. Cardinality(S), S)

(* 10. to 13.: the new jigs, then the new clients, then the defaults.       *)
Settle(m, new, units) ==
    \E order \in Orders(new \cap Jig), started \in SUBSET (new \cap Client) :
       LET jigs == ActivateJigs(m, order, units)
           clients == ActivateClients(jigs, new \cap Client, started)
       IN \E r \in RefreshJig(clients, units) : manager' \in RefreshScenario(r, units)
=============================================================================
