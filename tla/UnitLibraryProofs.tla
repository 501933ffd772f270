------------------------- MODULE UnitLibraryProofs -------------------------
(***************************************************************************)
(* Proofs about UnitLibrary, for any sets of units, any dependencies       *)
(* between them and any number of file changes, requests and failures to   *)
(* stop a client: what the operations of the manager preserve, what a      *)
(* rescan loads, and, from the two, the manager's tables.                  *)
(***************************************************************************)
EXTENDS UnitLibrary, FiniteSetTheorems, WellFoundedInduction, TLAPS

-----------------------------------------------------------------------------
(***************************************************************************)
(* What the operations of the manager preserve, for any sets of units: one *)
(* jig and one scenario are selected, with the tests that suit, and a      *)
(* process belongs to an active, selected and loaded unit.                 *)
(***************************************************************************)

(* A set of natural numbers with 0 and with every successor is all of them. *)
LEMMA NatSetInduction ==
    ASSUME NEW S \in SUBSET Nat, 0 \in S, \A n \in S : n + 1 \in S
    PROVE  S = Nat
<1> DEFINE R == {ss \in Nat \X Nat : ss[1] < ss[2]}
           T == Nat \ S
<1>1. IsWellFoundedOn(R, Nat)
    BY NatLessThanWellFounded, Zenon DEF OpToRel
<1>2. SUFFICES ASSUME T # {} PROVE FALSE
    BY Zenon
<1>3. PICK x \in T : \A y \in T : ~(<<y, x>> \in R)
  <2>1. T \subseteq Nat
      BY Zenon
  <2> HIDE DEF R, T
  <2>2. QED
      BY <1>1, <1>2, <2>1, WFMin, Zenon
<1>4. x - 1 \in Nat /\ x - 1 < x
    OBVIOUS
<1>5. <<x - 1, x>> \in R
    BY <1>4, Zenon
<1>6. x - 1 \in S
    BY <1>3, <1>4, <1>5, Zenon
<1>7. QED
    BY <1>6

-----------------------------------------------------------------------------
(* The tests of a loaded scenario are loaded.                               *)
TestsLoaded(units) == \A s \in units \cap Scenario : TestsOf[s] \subseteq units

(* The tests of the current scenario.                                       *)
Chosen(m) == IF m.scenario = None THEN {} ELSE TestsOf[m.scenario]

(* free: the tests that may be selected besides those of the current        *)
(* scenario.                                                                *)
OneScenario(m, units, free) ==
    /\ m.selected \cap Scenario = {m.scenario} \ {None}
    /\ \A t \in Chosen(m) : Fits(t, units) => t \in m.selected
    /\ \A t \in m.selected \cap Test : Fits(t, units) /\ t \in Chosen(m) \cup free

(* What no operation on scenarios and tests touches.                        *)
Rest(m) == m.selected \ (Scenario \cup Test)
RestActive(m) == m.active \ (Scenario \cup Test)

OneJig(m) == m.selected \cap Jig = {m.jig} \ {None}

ProcessesUsed(m) == m.process \subseteq m.active /\ m.active \subseteq m.selected

(* What every operation of the manager preserves.                           *)
ManagerInv(m, units, free) ==
    /\ m \in ManagerTables
    /\ m.selected \subseteq units
    /\ ProcessesUsed(m)
    /\ OneJig(m)
    /\ OneScenario(m, units, free)

(* The fields of the tables.                                                *)
LEMMA TableFields ==
    ASSUME NEW m \in ManagerTables
    PROVE  /\ m.jig \in Jig \cup {None} /\ m.scenario \in Scenario \cup {None}
           /\ m.selected \subseteq Unit /\ None \notin m.selected
           /\ m.active \subseteq Unit /\ m.process \subseteq Client
<1>1. /\ m.jig \in Jig \cup {None} /\ m.scenario \in Scenario \cup {None}
      /\ m.selected \subseteq Unit /\ m.active \subseteq Unit /\ m.process \subseteq Client
    BY Zenon DEF ManagerTables
<1>2. None \notin m.selected
    BY <1>1, ManagerAssumption, Zenon
<1>3. QED
    BY <1>1, <1>2, Zenon

(* The tests of the current scenario are tests.                             *)
LEMMA ChosenAreTests ==
    ASSUME NEW m \in ManagerTables
    PROVE  Chosen(m) \subseteq Test
<1>1. m.scenario \in Scenario \cup {None}
    BY TableFields, Zenon
<1>2. QED
    BY <1>1, ManagerAssumption DEF Chosen

(* deselect of a scenario: the current one goes, with its tests; any other  *)
(* is not selected anyway.                                                  *)
LEMMA DeselectScenarioClears ==
    ASSUME NEW units \in SUBSET Unit, NEW free, NEW m \in ManagerTables,
           OneScenario(m, units, free), m.active \subseteq m.selected,
           NEW s \in Scenario \cup {None}
    PROVE  LET d == DeselectScenario(m, s)
           IN  /\ d \in ManagerTables
               /\ OneScenario(d, units, free)
               /\ Rest(d) = Rest(m) /\ RestActive(d) = RestActive(m)
               /\ d.selected \subseteq m.selected /\ d.active \subseteq d.selected
               /\ d.jig = m.jig /\ d.process = m.process
               /\ d.scenario \in {m.scenario, None}
               /\ s = m.scenario => d.scenario = None
<1> DEFINE d == DeselectScenario(m, s)
<1>0. /\ m.scenario \in Scenario \cup {None} /\ m.selected \subseteq Unit /\ None \notin m.selected
      /\ m.active \subseteq Unit
    BY TableFields, Zenon
<1>1. CASE s = None \/ s # m.scenario
  <2>1. s \notin m.selected /\ s \notin m.active
      BY <1>0, <1>1, Zenon DEF OneScenario
  <2>2. d = [m EXCEPT !.scenario = m.scenario, !.selected = @ \ {s}, !.active = @ \ {s}]
      BY <2>1 DEF DeselectScenario
  <2>3. m.selected \ {s} = m.selected /\ m.active \ {s} = m.active
      BY <2>1, Zenon
  <2>4. d = m
      BY <2>2, <2>3, Zenon DEF ManagerTables
  <2>5. s = m.scenario => m.scenario = None
      BY <1>1, Zenon
  <2>6. QED
      BY <2>4, <2>5, Zenon
<1>2. CASE s # None /\ s = m.scenario
  <2> DEFINE left == {s} \cup TestsOf[s]
  <2>1. s \in m.selected /\ s \in Scenario /\ TestsOf[s] \subseteq Test /\ Chosen(m) = TestsOf[s]
      BY <1>0, <1>2, ManagerAssumption, Zenon DEF OneScenario, Chosen
  <2>2. d = [m EXCEPT !.scenario = None, !.selected = @ \ left, !.active = @ \ left]
      BY <1>2, <2>1 DEF DeselectScenario
  <2>3. left \subseteq Scenario \cup Test
      BY <2>1, Zenon
  <2> HIDE DEF left
  <2>4. /\ d \in ManagerTables /\ d.scenario = None
        /\ d.selected = m.selected \ left /\ d.active = m.active \ left
        /\ d.jig = m.jig /\ d.process = m.process
      BY <2>2, Zenon DEF ManagerTables
  <2> HIDE DEF d
  <2>5. Chosen(d) = {}
      BY <2>4, Zenon DEF Chosen
  <2>6. OneScenario(d, units, free)
      BY <1>2, <2>1, <2>4, <2>5, Zenon DEF OneScenario, left
  <2>7. Rest(d) = Rest(m) /\ RestActive(d) = RestActive(m)
      BY <2>3, <2>4, Zenon DEF Rest, RestActive
  <2>8. QED
      BY <2>4, <2>6, <2>7, Zenon DEF d
<1>3. QED
    BY <1>1, <1>2, Zenon

(* So without the current scenario the manager is still consistent.         *)
LEMMA DeselectCurrent ==
    ASSUME NEW units \in SUBSET Unit, NEW free, NEW m, ManagerInv(m, units, free)
    PROVE  LET d == DeselectScenario(m, m.scenario)
           IN  ManagerInv(d, units, free) /\ d.scenario = None /\ d.jig = m.jig
<1> DEFINE d == DeselectScenario(m, m.scenario)
<1>1. /\ m \in ManagerTables /\ OneScenario(m, units, free) /\ m.active \subseteq m.selected
      /\ m.process \subseteq m.active /\ m.selected \subseteq units /\ OneJig(m)
    BY Zenon DEF ManagerInv, ProcessesUsed
<1>2. m.scenario \in Scenario \cup {None} /\ m.process \subseteq Client
    BY <1>1, TableFields, Zenon
<1>3. /\ d \in ManagerTables /\ OneScenario(d, units, free)
      /\ Rest(d) = Rest(m) /\ RestActive(d) = RestActive(m)
      /\ d.selected \subseteq m.selected /\ d.active \subseteq d.selected
      /\ d.scenario = None /\ d.jig = m.jig /\ d.process = m.process
    BY <1>1, <1>2, DeselectScenarioClears
<1> HIDE DEF d
<1>4. m.process \subseteq RestActive(d)
    BY <1>1, <1>2, <1>3, ManagerAssumption, Zenon DEF RestActive
<1>5. OneJig(d) /\ ProcessesUsed(d)
    BY <1>1, <1>3, <1>4, ManagerAssumption, Zenon DEF OneJig, ProcessesUsed, Rest, RestActive
<1>6. QED
    BY <1>1, <1>3, <1>5, Zenon DEF ManagerInv, d

(* select of a scenario: a loaded one becomes the current one, with its     *)
(* suitable tests; nothing else changes.                                    *)
LEMMA SelectScenarioKeeps ==
    ASSUME NEW units \in SUBSET Unit, NEW free, NEW m \in ManagerTables,
           OneScenario(m, units, free), m.active \subseteq m.selected,
           TestsLoaded(units), NEW s \in Scenario \cup {None}
    PROVE  LET d == SelectScenario(m, s, units)
           IN  /\ d \in ManagerTables
               /\ OneScenario(d, units, free)
               /\ Rest(d) = Rest(m) /\ RestActive(d) = RestActive(m)
               /\ m.selected \subseteq units => d.selected \subseteq units
               /\ d.active \subseteq d.selected
               /\ d.jig = m.jig /\ d.process = m.process
               /\ d.scenario = IF s \in units THEN s ELSE m.scenario
<1> DEFINE c == DeselectScenario(m, m.scenario)
           d == SelectScenario(m, s, units)
<1>0. m.scenario \in Scenario \cup {None} /\ None \notin m.selected
    BY TableFields, Zenon
<1>1. CASE s \in m.selected \/ s \notin units
  <2>1. s \in m.selected => s = m.scenario
      BY <1>0, Zenon DEF OneScenario
  <2>2. QED
      BY <1>1, <2>1, Zenon DEF SelectScenario
<1>2. CASE s \notin m.selected /\ s \in units
  <2>1. /\ c \in ManagerTables /\ Rest(c) = Rest(m) /\ RestActive(c) = RestActive(m)
        /\ c.scenario = None /\ c.selected \subseteq m.selected /\ c.active \subseteq c.selected
        /\ OneScenario(c, units, free) /\ c.jig = m.jig /\ c.process = m.process
      BY <1>0, DeselectScenarioClears
  <2> HIDE DEF c
  <2>2. s \in Scenario /\ s # None /\ TestsOf[s] \subseteq Test /\ TestsOf[s] \subseteq units
      BY <1>2, ManagerAssumption, Zenon DEF TestsLoaded
  <2> DEFINE tests == {t \in TestsOf[s] \cap units : Fits(t, units)}
  <2>3. /\ tests = {t \in TestsOf[s] : Fits(t, units)}
        /\ tests \subseteq Test /\ tests \subseteq units /\ tests \subseteq Unit /\ s \in Unit
      BY <2>2, Zenon DEF Unit
  <2>4. d = [c EXCEPT !.scenario = s, !.selected = @ \cup {s} \cup tests]
      BY <1>2, Zenon DEF SelectScenario, c
  <2> HIDE DEF tests
  <2>5. /\ d \in ManagerTables /\ d.selected = c.selected \cup {s} \cup tests
        /\ d.scenario = s /\ d.jig = m.jig /\ d.active = c.active /\ d.process = m.process
      BY <2>1, <2>2, <2>3, <2>4, Zenon DEF ManagerTables
  <2> HIDE DEF d
  <2>6. OneScenario(d, units, free)
    <3>1. Chosen(d) = TestsOf[s] /\ Chosen(c) = {}
        BY <2>1, <2>2, <2>5, Zenon DEF Chosen
    <3>2. d.selected \cap Scenario = {d.scenario} \ {None}
        BY <2>1, <2>2, <2>3, <2>5, ManagerAssumption DEF OneScenario
    <3>3. \A t \in Chosen(d) : Fits(t, units) => t \in d.selected
        BY <2>3, <2>5, <3>1, Zenon
    <3>4. \A t \in d.selected \cap Test : Fits(t, units) /\ t \in Chosen(d) \cup free
        BY <2>1, <2>2, <2>3, <2>5, <3>1, ManagerAssumption DEF OneScenario
    <3>5. QED
        BY <3>2, <3>3, <3>4, Zenon DEF OneScenario
  <2>7. Rest(d) = Rest(m) /\ RestActive(d) = RestActive(m)
      BY <2>1, <2>2, <2>3, <2>5, Zenon DEF Rest, RestActive
  <2>8. QED
      BY <1>2, <2>1, <2>2, <2>3, <2>5, <2>6, <2>7, Zenon DEF d
<1>3. QED
    BY <1>1, <1>2, Zenon

(* So a request to select any scenario leaves the manager consistent.       *)
LEMMA SelectScenarioInv ==
    ASSUME NEW units \in SUBSET Unit, TestsLoaded(units), NEW free, NEW m,
           ManagerInv(m, units, free), NEW s \in Scenario \cup {None}
    PROVE  LET d == SelectScenario(m, s, units)
           IN  /\ ManagerInv(d, units, free)
               /\ d.jig = m.jig /\ d.process = m.process
               /\ d.active \cap Client = m.active \cap Client
               /\ d.scenario = IF s \in units THEN s ELSE m.scenario
<1> DEFINE d == SelectScenario(m, s, units)
<1>1. /\ d \in ManagerTables /\ OneScenario(d, units, free)
      /\ Rest(d) = Rest(m) /\ RestActive(d) = RestActive(m)
      /\ d.selected \subseteq units /\ d.active \subseteq d.selected
      /\ d.jig = m.jig /\ d.process = m.process
      /\ d.scenario = IF s \in units THEN s ELSE m.scenario
    BY SelectScenarioKeeps DEF ManagerInv, ProcessesUsed
<1> HIDE DEF d
<1>2. m.process \subseteq Client
    BY TableFields, Zenon DEF ManagerInv
<1>3. d.active \cap Client = m.active \cap Client
    BY <1>1, ManagerAssumption, Zenon DEF RestActive
<1>4. OneJig(d) /\ ProcessesUsed(d)
    BY <1>1, <1>2, <1>3, ManagerAssumption, Zenon DEF ManagerInv, OneJig, ProcessesUsed, Rest
<1>5. QED
    BY <1>1, <1>3, <1>4, Zenon DEF ManagerInv, d

(* deselect of the current jig: no jig is selected or active; its default   *)
(* scenario goes with it.                                                   *)
LEMMA DeselectJigClears ==
    ASSUME NEW units \in SUBSET Unit, NEW free, NEW m, ManagerInv(m, units, free)
    PROVE  LET d == DeselectJig(m, m.jig)
           IN  /\ d \in ManagerTables
               /\ OneScenario(d, units, free)
               /\ Rest(d) = Rest(m) \ Jig /\ RestActive(d) = RestActive(m) \ Jig
               /\ d.selected \subseteq m.selected /\ d.active \subseteq d.selected
               /\ d.jig = None /\ d.process = m.process
<1> DEFINE d == DeselectJig(m, m.jig)
           j == m.jig
<1>0. /\ m \in ManagerTables /\ OneScenario(m, units, free) /\ OneJig(m)
      /\ m.active \subseteq m.selected
      /\ None \notin m.selected /\ j \in Jig \cup {None}
    BY ManagerAssumption, Zenon DEF ManagerInv, ManagerTables, ProcessesUsed
<1>1. m.active \ {j} = m.active \ Jig
    BY <1>0, Zenon DEF OneJig
<1>2. CASE j = None
  <2>1. d = [m EXCEPT !.active = @ \ {j}]
      BY <1>0, <1>2, Zenon DEF DeselectJig
  <2>2. /\ d \in ManagerTables /\ d.selected = m.selected /\ d.jig = None
        /\ d.active = m.active \ Jig /\ d.process = m.process /\ d.scenario = m.scenario
      BY <1>0, <1>1, <1>2, <2>1, Zenon DEF ManagerTables
  <2> HIDE DEF d
  <2>3. Rest(d) = Rest(m) \ Jig /\ RestActive(d) = RestActive(m) \ Jig
      BY <1>0, <1>2, <2>2, Zenon DEF Rest, RestActive, OneJig
  <2>4. OneScenario(d, units, free)
      BY <1>0, <2>2, Zenon DEF OneScenario, Chosen
  <2>5. QED
      BY <1>0, <2>2, <2>3, <2>4, Zenon DEF d
<1>3. CASE j # None
  <2> DEFINE c == DeselectScenario(m, Default[j])
  <2>1. j \in Jig /\ j \in m.selected /\ Default[j] \in Scenario \cup {None}
      BY <1>0, <1>3, ManagerAssumption, Zenon DEF OneJig
  <2>2. /\ c \in ManagerTables /\ OneScenario(c, units, free)
        /\ Rest(c) = Rest(m) /\ RestActive(c) = RestActive(m)
        /\ c.selected \subseteq m.selected /\ c.active \subseteq c.selected
        /\ c.process = m.process
      BY <1>0, <2>1, DeselectScenarioClears, Zenon
  <2>3. d = [c EXCEPT !.jig = None, !.selected = @ \ {j}, !.active = @ \ {j}]
      BY <2>1, Zenon DEF DeselectJig
  <2> HIDE DEF c
  <2>4. /\ d \in ManagerTables /\ d.selected = c.selected \ {j} /\ d.jig = None
        /\ d.active = c.active \ {j} /\ d.process = m.process /\ d.scenario = c.scenario
      BY <2>2, <2>3, Zenon DEF ManagerTables
  <2> HIDE DEF d
  <2>5. Rest(d) = Rest(m) \ Jig /\ RestActive(d) = RestActive(m) \ Jig
      BY <1>0, <2>1, <2>2, <2>4, Zenon DEF Rest, RestActive, OneJig
  <2>6. OneScenario(d, units, free)
    <3>1. Chosen(d) = Chosen(c) /\ Chosen(c) \subseteq Test
        BY <2>2, <2>4, ManagerAssumption, Zenon DEF Chosen, ManagerTables
    <3>2. QED
        BY <2>1, <2>2, <2>4, <3>1, ManagerAssumption DEF OneScenario
  <2>7. QED
      BY <2>2, <2>4, <2>5, <2>6, Zenon DEF d
<1>4. QED
    BY <1>2, <1>3, Zenon

(* activate of a loaded jig: it becomes the only selected and active jig;   *)
(* the clients stay as they are, and so does everything when it is the      *)
(* current jig already.                                                     *)
LEMMA ActivateJigKeeps ==
    ASSUME NEW units \in SUBSET Unit, TestsLoaded(units), NEW free, NEW m,
           ManagerInv(m, units, free), NEW j \in units \cap Jig
    PROVE  LET r == ActivateJig(m, j, units)
           IN  /\ ManagerInv(r, units, free)
               /\ r.jig = j
               /\ r.process = m.process
               /\ r.active \cap Client = m.active \cap Client
               /\ m.jig = j => r.scenario = m.scenario
<1> DEFINE d == SelectJig(m, j, units)
           r == ActivateJig(m, j, units)
<1>0. /\ m \in ManagerTables /\ OneScenario(m, units, free) /\ OneJig(m) /\ ProcessesUsed(m)
      /\ m.selected \subseteq units /\ j \in Jig /\ j # None /\ j \notin Client /\ j \in Unit
    BY ManagerAssumption, Zenon DEF ManagerInv, Unit
<1>1. /\ d \in ManagerTables /\ OneScenario(d, units, free) /\ OneJig(d) /\ d.jig = j
      /\ d.selected \subseteq units /\ d.process = m.process
      /\ d.active \subseteq d.selected
      /\ d.active \cap Client = m.active \cap Client
      /\ m.jig = j => d.scenario = m.scenario
  <2>1. CASE j \in m.selected
    <3>1. d = m
        BY <2>1, Zenon DEF SelectJig
    <3>2. m.jig = j
        BY <1>0, <2>1, Zenon DEF OneJig
    <3>3. QED
        BY <1>0, <3>1, <3>2, Zenon DEF ProcessesUsed
  <2>2. CASE j \notin m.selected
    <3> DEFINE a == DeselectJig(m, m.jig)
               b == [a EXCEPT !.jig = j]
               c == SelectScenario(b, Default[j], units)
    <3>0. m.jig # j
        BY <1>0, <2>2, Zenon DEF OneJig
    <3>1. /\ a \in ManagerTables /\ OneScenario(a, units, free)
          /\ Rest(a) = Rest(m) \ Jig /\ RestActive(a) = RestActive(m) \ Jig
          /\ a.selected \subseteq m.selected /\ a.active \subseteq a.selected
          /\ a.process = m.process
        BY DeselectJigClears, Zenon
    <3>2. d = [c EXCEPT !.selected = @ \cup {j}]
        BY <2>2, Zenon DEF SelectJig
    <3> HIDE DEF a
    <3>3. /\ b \in ManagerTables /\ b.jig = j /\ b.selected = a.selected
          /\ b.scenario = a.scenario /\ b.active = a.active /\ b.process = a.process
        BY <1>0, <3>1, Zenon DEF ManagerTables
    <3> HIDE DEF b
    <3>4. /\ OneScenario(b, units, free)
          /\ Rest(b) = Rest(m) \ Jig /\ RestActive(b) = RestActive(m) \ Jig
        BY <3>1, <3>3, Zenon DEF OneScenario, Chosen, Rest, RestActive
    <3>5. /\ b.selected \subseteq units /\ b.active \subseteq b.selected
          /\ Default[j] \in Scenario \cup {None}
        BY <1>0, <3>1, <3>3, ManagerAssumption, Zenon
    <3>6. /\ c \in ManagerTables /\ OneScenario(c, units, free)
          /\ Rest(c) = Rest(b) /\ RestActive(c) = RestActive(b)
          /\ c.selected \subseteq units /\ c.active \subseteq c.selected
          /\ c.jig = j /\ c.process = m.process
        BY <3>1, <3>3, <3>4, <3>5, SelectScenarioKeeps
    <3> HIDE DEF c
    <3>7. /\ d \in ManagerTables /\ d.selected = c.selected \cup {j} /\ d.jig = j
          /\ d.scenario = c.scenario /\ d.active = c.active /\ d.process = m.process
        BY <1>0, <3>2, <3>6 DEF ManagerTables
    <3> HIDE DEF d
    <3>8. OneScenario(d, units, free)
      <4>1. Chosen(d) = Chosen(c)
          BY <3>7, Zenon DEF Chosen
      <4>2. QED
          BY <1>0, <3>6, <3>7, <4>1, ManagerAssumption DEF OneScenario
    <3>9. OneJig(d)
        BY <1>0, <3>4, <3>6, <3>7, ManagerAssumption DEF OneJig, Rest
    <3>10. d.active \subseteq d.selected
        BY <3>6, <3>7, Zenon
    <3>11. d.active \cap Client = m.active \cap Client
        BY <3>4, <3>6, <3>7, ManagerAssumption, Zenon DEF RestActive
    <3>12. QED
        BY <1>0, <3>0, <3>6, <3>7, <3>8, <3>9, <3>10, <3>11, Zenon
  <2>3. QED
      BY <2>1, <2>2, Zenon
<1>2. j \in d.selected
    BY <1>0, <1>1, Zenon DEF OneJig
<1>3. r = [d EXCEPT !.active = @ \cup {j}]
    BY <1>1, <1>2, Zenon DEF ActivateJig
<1> HIDE DEF d
<1>4. /\ r \in ManagerTables /\ r.selected = d.selected /\ r.jig = j /\ r.scenario = d.scenario
      /\ r.active = d.active \cup {j} /\ r.process = m.process
    BY <1>0, <1>1, <1>3 DEF ManagerTables
<1> HIDE DEF r
<1>5. OneScenario(r, units, free) /\ OneJig(r)
    BY <1>1, <1>4, Zenon DEF OneScenario, Chosen, OneJig
<1>6. m.process \subseteq Client
    BY <1>0, Zenon DEF ManagerTables
<1>7. ProcessesUsed(r)
    BY <1>0, <1>1, <1>2, <1>4, <1>6, Zenon DEF ProcessesUsed
<1>8. QED
    BY <1>0, <1>1, <1>4, <1>5, <1>7, Zenon DEF ManagerInv, r

(* Jigs activated one after the other: what one activation preserves, all   *)
(* of them do.  The recursive function exists for every length, and so does *)
(* what it preserves, by induction on the number of jigs.                   *)
LEMMA ActivateJigsKeeps ==
    ASSUME NEW units \in SUBSET Unit, TestsLoaded(units), NEW free, NEW m, ManagerInv(m, units, free),
           NEW order \in Seq(units \cap Jig)
    PROVE  LET r == ActivateJigs(m, order, units)
           IN  /\ ManagerInv(r, units, free)
               /\ r.process = m.process
               /\ r.active \cap Client = m.active \cap Client
<1> DEFINE Step(a, n) == ActivateJig(a, order[n], units)
           F(f, N) == [n \in 0 .. N |-> IF n = 0 THEN m ELSE Step(f[n - 1], n)]
           after == CHOOSE f : f = F(f, Len(order))
           Kept(a) == /\ ManagerInv(a, units, free)
                      /\ a.process = m.process
                      /\ a.active \cap Client = m.active \cap Client
<1>0. Len(order) \in Nat /\ \A n \in 1 .. Len(order) : order[n] \in units \cap Jig
    OBVIOUS
<1>1. ActivateJigs(m, order, units) = after[Len(order)]
    BY Zenon DEF ActivateJigs
<1>2. \A a : \A n \in 1 .. Len(order) : Kept(a) => Kept(Step(a, n))
  <2> SUFFICES ASSUME NEW a, NEW n \in 1 .. Len(order), Kept(a) PROVE Kept(Step(a, n))
      BY Zenon
  <2> DEFINE j == order[n]
  <2>1. j \in units \cap Jig
      BY <1>0, Zenon
  <2> HIDE DEF j
  <2>2. ManagerInv(a, units, free) /\ units \in SUBSET Unit /\ TestsLoaded(units)
      BY Zenon
  <2>3. /\ ManagerInv(ActivateJig(a, j, units), units, free)
        /\ ActivateJig(a, j, units).process = a.process
        /\ ActivateJig(a, j, units).active \cap Client = a.active \cap Client
      BY ONLY <2>1, <2>2, ActivateJigKeeps
  <2>4. QED
      BY <2>3, Zenon DEF j
<1> HIDE DEF Step
<1>3. after = F(after, Len(order))
  <2> DEFINE S == {N \in Nat : \E f : f = F(f, N)}
  <2>1. 0 \in S
    <3> DEFINE f == [n \in 0 .. 0 |-> m]
    <3>1. f = F(f, 0)
        OBVIOUS
    <3>2. QED
        BY <3>1, Zenon
  <2>2. ASSUME NEW N \in S PROVE N + 1 \in S
    <3>1. PICK f : f = F(f, N)
        BY Zenon
    <3> DEFINE g == [n \in 0 .. N + 1 |-> IF n <= N THEN f[n] ELSE Step(f[N], N + 1)]
    <3>2. ASSUME NEW n \in 0 .. N + 1
          PROVE  g[n] = IF n = 0 THEN m ELSE Step(g[n - 1], n)
      <4>1. CASE n = 0
          BY <3>1, <4>1
      <4>2. CASE n # 0 /\ n <= N
        <5>1. n \in 0 .. N /\ n - 1 \in 0 .. N /\ n - 1 \in 0 .. N + 1 /\ n - 1 <= N
            BY <4>2
        <5>2. f[n] = Step(f[n - 1], n)
            BY <3>1, <4>2, <5>1, Zenon
        <5>3. g[n] = f[n] /\ g[n - 1] = f[n - 1]
            BY <4>2, <5>1, Zenon
        <5>4. QED
            BY <4>2, <5>2, <5>3, Zenon
      <4>3. CASE n = N + 1
        <5>1. n # 0 /\ ~(n <= N) /\ n - 1 = N /\ N \in 0 .. N + 1 /\ N <= N
            BY <4>3
        <5>2. g[n] = Step(f[N], N + 1) /\ g[N] = f[N]
            BY <5>1, Zenon
        <5>3. QED
            BY <4>3, <5>1, <5>2, Zenon
      <4>4. QED
          BY <4>1, <4>2, <4>3
    <3> HIDE DEF Step
    <3>3. g = F(g, N + 1)
      <4>1. g = [n \in 0 .. N + 1 |-> g[n]]
          BY Zenon
      <4> HIDE DEF g
      <4>2. QED
          BY <3>2, <4>1, Zenon
    <3>4. N + 1 \in Nat
        OBVIOUS
    <3> HIDE DEF F, g
    <3>5. QED
        BY <3>3, <3>4, Zenon
  <2>3. S = Nat
    <3>1. S \in SUBSET Nat
        BY Zenon
    <3> HIDE DEF S
    <3>2. QED
        BY <2>1, <2>2, <3>1, NatSetInduction, Zenon
  <2>4. \E f : f = F(f, Len(order))
      BY <1>0, <2>3, Zenon
  <2> HIDE DEF F
  <2>5. QED
      BY <2>4, Zenon
<1> HIDE DEF after, Kept
<1>4. \A n \in Nat : n <= Len(order) => Kept(after[n])
  <2> DEFINE S == {N \in Nat : N <= Len(order) => Kept(after[N])}
  <2>1. 0 \in S
    <3>1. after[0] = m
        BY <1>0, <1>3
    <3>2. QED
        BY <3>1, Zenon DEF Kept
  <2>2. ASSUME NEW N \in S PROVE N + 1 \in S
    <3>1. SUFFICES ASSUME N + 1 <= Len(order) PROVE Kept(after[N + 1])
        OBVIOUS
    <3>2. after[N + 1] = Step(after[N], N + 1)
        BY <1>0, <1>3, <3>1
    <3>3. Kept(after[N]) /\ N + 1 \in 1 .. Len(order)
        BY <1>0, <3>1
    <3>4. QED
        BY <1>2, <3>2, <3>3, Zenon
  <2>3. S = Nat
    <3>1. S \in SUBSET Nat
        BY Zenon
    <3> HIDE DEF S
    <3>2. QED
        BY <2>1, <2>2, <3>1, NatSetInduction, Zenon
  <2>4. QED
      BY <2>3, Zenon
<1>5. Kept(after[Len(order)])
    BY <1>0, <1>4
<1>6. QED
    BY <1>1, <1>5, Zenon DEF Kept

(* An order of finitely many units is a sequence of them.                   *)
LEMMA OrdersAreSequences ==
    ASSUME NEW S \in SUBSET Jig, NEW order \in Orders(S)
    PROVE  order \in Seq(S)
<1>1. IsFiniteSet(S)
    BY ManagerAssumption, FS_Subset, Zenon
<1>2. Cardinality(S) \in Nat
    BY <1>1, FS_CardinalityType, Zenon
<1>3. order \in [1 .. Cardinality(S) -> S]
    BY Zenon DEF Orders, Injection
<1>4. QED
    BY <1>2, <1>3

(* The clients of a rescan: activated ones get a process.                   *)
LEMMA ActivateClientsKeeps ==
    ASSUME NEW units \in SUBSET Unit, NEW free, NEW m, ManagerInv(m, units, free),
           NEW clients \in SUBSET (units \cap Client), NEW up \in SUBSET clients
    PROVE  LET r == ActivateClients(m, clients, up)
           IN  /\ ManagerInv(r, units, free)
               /\ r.active \cap Client \subseteq (m.active \cap Client) \cup r.process
               /\ m.process \subseteq r.process
<1> DEFINE r == ActivateClients(m, clients, up)
           new == up \ m.active
<1>1. /\ r \in ManagerTables /\ r.jig = m.jig /\ r.scenario = m.scenario
      /\ r.selected = m.selected \cup clients /\ r.active = m.active \cup new
      /\ r.process = m.process \cup new
    BY Zenon DEF ActivateClients, ManagerInv, ManagerTables, Unit
<1> HIDE DEF r
<1>2. clients \cap Jig = {} /\ clients \cap Scenario = {} /\ clients \cap Test = {}
    BY ManagerAssumption, Zenon
<1>3. OneJig(r) /\ OneScenario(r, units, free)
    BY <1>1, <1>2, Zenon DEF ManagerInv, OneJig, OneScenario, Chosen
<1>4. ProcessesUsed(r)
    BY <1>1, Zenon DEF ManagerInv, ProcessesUsed
<1>5. r.selected \subseteq units
    BY <1>1, Zenon DEF ManagerInv
<1>6. ManagerInv(r, units, free)
    BY <1>1, <1>3, <1>4, <1>5, Zenon DEF ManagerInv
<1>7. QED
    BY <1>1, <1>6, Zenon DEF r

(* 10. to 13. of a rescan: the manager is left consistent, a jig and a      *)
(* scenario are current if any are loaded, and a client is active only if   *)
(* it was before or has a new process.                                      *)
LEMMA SettleKeeps ==
    ASSUME NEW units \in SUBSET Unit, TestsLoaded(units), NEW free, NEW m, ManagerInv(m, units, free),
           NEW new \in SUBSET units, Settle(m, new, units)
    PROVE  /\ ManagerInv(manager', units, free)
           /\ manager'.jig = None => units \cap Jig = {}
           /\ manager'.scenario = None => units \cap Scenario = {}
           /\ manager'.active \cap Client \subseteq (m.active \cap Client) \cup manager'.process
           /\ m.process \subseteq manager'.process
<1>1. PICK order \in Orders(new \cap Jig), up \in SUBSET (new \cap Client) :
         \E r \in RefreshJig(ActivateClients(ActivateJigs(m, order, units),
                                             new \cap Client, up), units) :
            manager' \in RefreshScenario(r, units)
    BY Zenon DEF Settle
<1> DEFINE jigs == ActivateJigs(m, order, units)
           clients == ActivateClients(jigs, new \cap Client, up)
<1>2. PICK r \in RefreshJig(clients, units) : manager' \in RefreshScenario(r, units)
    BY <1>1, Zenon
<1>3. order \in Seq(units \cap Jig)
  <2>1. order \in Seq(new \cap Jig)
      BY OrdersAreSequences, Zenon
  <2>2. QED
      BY <2>1
<1>4. /\ ManagerInv(jigs, units, free) /\ jigs.process = m.process
      /\ jigs.active \cap Client = m.active \cap Client
    BY <1>3, ActivateJigsKeeps
<1> HIDE DEF jigs
<1>5. /\ ManagerInv(clients, units, free)
      /\ clients.active \cap Client \subseteq (m.active \cap Client) \cup clients.process
      /\ m.process \subseteq clients.process
  <2>1. new \cap Client \in SUBSET (units \cap Client)
      BY Zenon
  <2>2. QED
      BY <1>4, <2>1, ActivateClientsKeeps, Zenon
<1> HIDE DEF clients
<1>6. /\ ManagerInv(r, units, free)
      /\ r.jig = None => units \cap Jig = {}
      /\ r.process = clients.process /\ r.active \cap Client = clients.active \cap Client
  <2>1. CASE clients.jig = None /\ units \cap Jig # {}
    <3>1. PICK j \in units \cap Jig : r = ActivateJig(clients, j, units)
        BY <1>2, <2>1, Zenon DEF RefreshJig
    <3>2. j # None
        BY ManagerAssumption, Zenon DEF Unit
    <3>3. QED
        BY <1>5, <3>1, <3>2, ActivateJigKeeps
  <2>2. CASE ~(clients.jig = None /\ units \cap Jig # {})
    <3>1. r = clients
        BY <1>2, <2>2, Zenon DEF RefreshJig
    <3>2. QED
        BY <1>5, <2>2, <3>1, Zenon
  <2>3. QED
      BY <2>1, <2>2, Zenon
<1>7. /\ ManagerInv(manager', units, free)
      /\ manager'.scenario = None => units \cap Scenario = {}
      /\ manager'.jig = r.jig /\ manager'.process = r.process
      /\ manager'.active \cap Client = r.active \cap Client
  <2>1. CASE r.scenario = None /\ units \cap Scenario # {}
    <3>1. PICK s \in units \cap Scenario : manager' = SelectScenario(r, s, units)
        BY <1>2, <2>1, Zenon DEF RefreshScenario
    <3>2. s # None
        BY ManagerAssumption, Zenon DEF Unit
    <3>3. QED
        BY <1>6, <3>1, <3>2, SelectScenarioInv
  <2>2. CASE ~(r.scenario = None /\ units \cap Scenario # {})
    <3>1. manager' = r
        BY <1>2, <2>2, Zenon DEF RefreshScenario
    <3>2. QED
        BY <1>6, <2>2, <3>1, Zenon
  <2>3. QED
      BY <2>1, <2>2, Zenon
<1>8. QED
    BY <1>5, <1>6, <1>7, Zenon

-----------------------------------------------------------------------------
(* What clients that are deactivated lose: r are the tables after.          *)
Deactivated(m, r, clients, failing) ==
    /\ r.jig = m.jig /\ r.scenario = m.scenario /\ r.selected = m.selected
    /\ r.active = m.active \ (clients \ (failing \cap m.process))
    /\ r.process = m.process \ clients

ClientsUnloaded(m, r, clients) ==
    r.jig = m.jig /\ r.scenario = m.scenario /\ r.selected = m.selected \ clients

(* deactivate of clients: they lose their processes, and only those whose   *)
(* termination failed stay active.                                          *)
LEMMA DeactivateKeeps ==
    ASSUME NEW units \in SUBSET Unit, NEW free, NEW m, ManagerInv(m, units, free),
           NEW clients, NEW failing
    PROVE  LET r == Deactivate(m, clients, failing)
           IN  ManagerInv(r, units, free) /\ Deactivated(m, r, clients, failing)
<1> DEFINE r == Deactivate(m, clients, failing)
<1>1. /\ r \in ManagerTables /\ r.jig = m.jig /\ r.scenario = m.scenario
      /\ r.selected = m.selected
      /\ r.active = m.active \ (clients \ (failing \cap m.process))
      /\ r.process = m.process \ (clients \cap m.active)
    BY Zenon DEF Deactivate, ManagerInv, ManagerTables
<1> HIDE DEF r
<1>2. r.process = m.process \ clients
    BY <1>1, Zenon DEF ManagerInv, ProcessesUsed
<1>3. OneJig(r) /\ OneScenario(r, units, free) /\ r.selected \subseteq units
    BY <1>1, Zenon DEF ManagerInv, OneJig, OneScenario, Chosen
<1>4. ProcessesUsed(r)
    BY <1>1, <1>2, Zenon DEF ManagerInv, ProcessesUsed
<1>5. QED
    BY <1>1, <1>2, <1>3, <1>4, Zenon DEF ManagerInv, Deactivated, r

(* unload of clients: after the second attempt none is active, whether or   *)
(* not its process could be terminated.                                     *)
LEMMA UnloadClientsKeeps ==
    ASSUME NEW units \in SUBSET Unit, NEW free, NEW m, ManagerInv(m, units, free),
           NEW clients \in SUBSET Client, NEW failing \in SUBSET Client
    PROVE  LET r == UnloadClients(m, clients, failing)
           IN  ManagerInv(r, units, free) /\ ClientsUnloaded(m, r, clients)
<1> DEFINE a == Deactivate(m, clients, failing)
           b == Deactivate(a, clients, failing)
           r == UnloadClients(m, clients, failing)
<1>1. ManagerInv(a, units, free) /\ Deactivated(m, a, clients, failing)
    BY DeactivateKeeps, Zenon
<1>2. r = [b EXCEPT !.selected = @ \ clients]
    BY Zenon DEF UnloadClients
<1> HIDE DEF a
<1>3. ManagerInv(b, units, free) /\ Deactivated(a, b, clients, failing)
    BY <1>1, DeactivateKeeps, Zenon
<1> HIDE DEF b
<1>4. b.active \cap clients = {}
    BY <1>1, <1>3, Zenon DEF Deactivated
<1>5. /\ r \in ManagerTables /\ r.jig = m.jig /\ r.scenario = m.scenario
      /\ r.selected = m.selected \ clients /\ r.active = b.active /\ r.process = b.process
    BY <1>1, <1>2, <1>3 DEF ManagerInv, ManagerTables, Deactivated
<1> HIDE DEF r
<1>6. clients \cap (Jig \cup Scenario \cup Test) = {}
    BY ManagerAssumption, Zenon
<1>a. Chosen(r) = Chosen(m) /\ Chosen(m) \subseteq Test
    BY <1>5, ChosenAreTests, Zenon DEF Chosen, ManagerInv
<1>7. OneJig(r) /\ OneScenario(r, units, free)
    BY <1>5, <1>6, <1>a, Zenon DEF ManagerInv, OneJig, OneScenario
<1>8. ProcessesUsed(r) /\ r.selected \subseteq units
    BY <1>1, <1>3, <1>4, <1>5, Zenon DEF ManagerInv, ProcessesUsed, Deactivated
<1>9. QED
    BY <1>5, <1>7, <1>8, Zenon DEF ManagerInv, ClientsUnloaded, r

(* When the units `gone' are taken out of the loaded ones, the rest stays,  *)
(* the tests of the scenarios that stay do, and the tests that stay suit    *)
(* the jigs as before.                                                      *)
LeavesTheRest(units, gone, left) ==
    /\ units \ gone \subseteq left
    /\ \A s \in (units \cap Scenario) \ gone : \A t \in TestsOf[s] :
          t \notin gone /\ (Fits(t, units) <=> Fits(t, left))
    /\ \A t \in (units \cap Test) \ gone : Fits(t, units) => Fits(t, left)

NoneSelected(m, gone) == m.selected \cap gone = {}

(* unload of the units `gone', after which `left' is loaded: none of them   *)
(* is selected, active or has a process; and when no scenario stays whose   *)
(* tests are gone or fit differently, the tests that stay selected are      *)
(* again the suitable ones.                                                 *)
LEMMA UnloadKeeps ==
    ASSUME NEW units \in SUBSET Unit, NEW left \in SUBSET Unit, NEW gone \in SUBSET Unit,
           NEW free, NEW m, ManagerInv(m, units, free), NEW failing \in SUBSET Client,
           LeavesTheRest(units, gone, left)
    PROVE  LET r == Unload(m, gone, failing)
           IN  ManagerInv(r, left, free) /\ NoneSelected(r, gone)
<1> DEFINE a == IF m.jig \in gone THEN DeselectJig(m, m.jig) ELSE m
           b == IF a.scenario \in gone THEN DeselectScenario(a, a.scenario) ELSE a
           tests == gone \cap Test
           c == [b EXCEPT !.selected = @ \ tests, !.active = @ \ tests]
           r == UnloadClients(c, gone \cap Client, failing)
<1>0. None \notin gone
    BY ManagerAssumption, Zenon
<1>1. Unload(m, gone, failing) = r
    BY Zenon DEF Unload
<1>2. ManagerInv(a, units, free) /\ a.jig \notin gone
  <2>1. CASE m.jig \in gone
    <3> DEFINE d == DeselectJig(m, m.jig)
    <3>1. /\ d \in ManagerTables /\ OneScenario(d, units, free)
          /\ Rest(d) = Rest(m) \ Jig /\ RestActive(d) = RestActive(m) \ Jig
          /\ d.selected \subseteq m.selected /\ d.active \subseteq d.selected
          /\ d.jig = None /\ d.process = m.process
        BY DeselectJigClears, Zenon
    <3> HIDE DEF d
    <3>2. OneJig(d)
        BY <3>1, ManagerAssumption, Zenon DEF OneJig, Rest
    <3>3. m.process \subseteq Client /\ m.process \subseteq m.active
        BY Zenon DEF ManagerInv, ManagerTables, ProcessesUsed
    <3>4. m.process \subseteq RestActive(d)
        BY <3>1, <3>3, ManagerAssumption, Zenon DEF RestActive
    <3>5. ProcessesUsed(d)
        BY <3>1, <3>4, Zenon DEF ProcessesUsed, RestActive
    <3>6. ManagerInv(d, units, free)
        BY <3>1, <3>2, <3>5, Zenon DEF ManagerInv
    <3>7. QED
        BY <1>0, <2>1, <3>1, <3>6, Zenon DEF d
  <2>2. CASE m.jig \notin gone
      BY <2>2, Zenon
  <2>3. QED
      BY <2>1, <2>2, Zenon
<1> HIDE DEF a
<1>3. ManagerInv(b, units, free) /\ b.jig \notin gone /\ b.scenario \notin gone
  <2>1. CASE a.scenario \in gone
    <3>1. b = DeselectScenario(a, a.scenario)
        BY <2>1, Zenon
    <3> HIDE DEF b
    <3>2. ManagerInv(b, units, free) /\ b.scenario = None /\ b.jig = a.jig
        BY <1>2, <3>1, DeselectCurrent
    <3>3. QED
        BY <1>0, <1>2, <3>2, Zenon
  <2>2. CASE a.scenario \notin gone
      BY <1>2, <2>2, Zenon
  <2>3. QED
      BY <2>1, <2>2, Zenon
<1> HIDE DEF b
<1>4. b.scenario # None => b.scenario \in (units \cap Scenario) \ gone
    BY <1>3, Zenon DEF ManagerInv, ManagerTables, OneScenario
<1>5. /\ c \in ManagerTables /\ c.jig = b.jig /\ c.scenario = b.scenario
      /\ c.selected = b.selected \ tests /\ c.active = b.active \ tests /\ c.process = b.process
    BY <1>3, Zenon DEF ManagerInv, ManagerTables
<1>6. ManagerInv(c, units, free)
  <2> HIDE DEF c
  <2>1. Chosen(c) = Chosen(b) /\ Chosen(b) \cap gone = {}
    <3>1. CASE b.scenario = None
        BY <1>5, <3>1, Zenon DEF Chosen
    <3>2. CASE b.scenario # None
        BY <1>4, <1>5, <3>2, Zenon DEF Chosen, LeavesTheRest
    <3>3. QED
        BY <3>1, <3>2, Zenon
  <2>2. tests \cap (Jig \cup Scenario \cup Client) = {} /\ b.process \subseteq Client
      BY <1>3, ManagerAssumption, Zenon DEF ManagerInv, ManagerTables
  <2>3. OneScenario(c, units, free)
      BY <1>3, <1>5, <2>1, <2>2, Zenon DEF ManagerInv, OneScenario
  <2>4. OneJig(c) /\ ProcessesUsed(c) /\ c.selected \subseteq units
      BY <1>3, <1>5, <2>2, Zenon DEF ManagerInv, OneJig, ProcessesUsed
  <2>5. QED
      BY <1>5, <2>3, <2>4, Zenon DEF ManagerInv
<1> HIDE DEF c
<1>7. /\ ManagerInv(r, units, free) /\ r.jig = b.jig /\ r.scenario = b.scenario
      /\ r.selected = (b.selected \ tests) \ (gone \cap Client)
  <2>1. gone \cap Client \in SUBSET Client
      BY Zenon
  <2>2. ManagerInv(r, units, free) /\ ClientsUnloaded(c, r, gone \cap Client)
      BY <1>6, <2>1, UnloadClientsKeeps, Zenon
  <2>3. QED
      BY <1>5, <2>2, Zenon DEF ClientsUnloaded
<1> HIDE DEF r
<1>8. r.selected \cap gone = {}
  <2>1. b.selected \cap gone \cap Jig = {} /\ b.selected \cap gone \cap Scenario = {}
      BY <1>3 DEF ManagerInv, OneJig, OneScenario
  <2>2. gone \subseteq Jig \cup Scenario \cup Test \cup Client
      BY Zenon DEF Unit
  <2>3. QED
      BY <1>7, <2>1, <2>2, Zenon
<1>9. OneScenario(r, left, free)
  <2>1. \A t \in Chosen(r) : Fits(t, left) => t \in r.selected
    <3>1. CASE r.scenario = None
        BY <3>1, Zenon DEF Chosen
    <3>2. CASE r.scenario # None
      <4>1. \A t \in TestsOf[r.scenario] : Fits(t, units) <=> Fits(t, left)
          BY <1>4, <1>7, <3>2, Zenon DEF LeavesTheRest
      <4>2. QED
          BY <1>7, <3>2, <4>1, Zenon DEF ManagerInv, OneScenario, Chosen
    <3>3. QED
        BY <3>1, <3>2, Zenon
  <2>2. \A t \in r.selected \cap Test : Fits(t, left)
      BY <1>7, <1>8, Zenon DEF ManagerInv, OneScenario, LeavesTheRest
  <2>3. QED
      BY <1>7, <2>1, <2>2, Zenon DEF ManagerInv, OneScenario
<1>10. r.selected \subseteq left
    BY <1>7, <1>8, Zenon DEF ManagerInv, LeavesTheRest
<1>11. QED
    BY <1>1, <1>7, <1>8, <1>9, <1>10, Zenon DEF ManagerInv, NoneSelected

(* More tests may stray than do.                                            *)
LEMMA MoreMayStray ==
    ASSUME NEW units, NEW free, NEW more, free \subseteq more, NEW m, ManagerInv(m, units, free)
    PROVE  ManagerInv(m, units, more)
BY Zenon DEF ManagerInv, OneScenario

(* select of a test.                                                        *)
LEMMA SelectTestKeeps ==
    ASSUME NEW units \in SUBSET Unit, NEW free, NEW m, ManagerInv(m, units, free),
           NEW t \in Test, t \in free
    PROVE  LET d == SelectTest(m, t, units)
           IN  /\ ManagerInv(d, units, free)
               /\ d.jig = m.jig /\ d.scenario = m.scenario
               /\ d.active = m.active /\ d.process = m.process
<1> DEFINE d == SelectTest(m, t, units)
<1>1. CASE t \in units /\ Fits(t, units)
  <2>1. d = [m EXCEPT !.selected = @ \cup {t}]
      BY <1>1, Zenon DEF SelectTest
  <2>2. /\ d \in ManagerTables /\ d.selected = m.selected \cup {t} /\ d.jig = m.jig
        /\ d.scenario = m.scenario /\ d.active = m.active /\ d.process = m.process
      BY <1>1, <2>1, Zenon DEF ManagerInv, ManagerTables
  <2> HIDE DEF d
  <2>3. Chosen(d) = Chosen(m) /\ t \notin Jig \cup Scenario
      BY <2>2, ManagerAssumption, Zenon DEF Chosen
  <2>4. OneScenario(d, units, free) /\ OneJig(d) /\ ProcessesUsed(d) /\ d.selected \subseteq units
      BY <1>1, <2>2, <2>3, Zenon DEF ManagerInv, OneScenario, OneJig, ProcessesUsed
  <2>5. QED
      BY <2>2, <2>4, Zenon DEF ManagerInv, d
<1>2. CASE ~(t \in units /\ Fits(t, units))
    BY <1>2, Zenon DEF SelectTest
<1>3. QED
    BY <1>1, <1>2, Zenon

(* A selected scenario or test becomes active.                              *)
LEMMA ActivateKeeps ==
    ASSUME NEW units \in SUBSET Unit, NEW free, NEW m, ManagerInv(m, units, free),
           NEW u \in Scenario \cup Test, NEW up
    PROVE  LET d == Activate(m, u, up)
           IN  ManagerInv(d, units, free) /\ d.jig = m.jig /\ d.scenario = m.scenario
<1> DEFINE d == Activate(m, u, up)
<1>1. CASE d = m
    BY <1>1, Zenon
<1>2. CASE u \in m.selected /\ d = [m EXCEPT !.active = @ \cup {u}]
  <2>1. /\ d \in ManagerTables /\ d.selected = m.selected /\ d.jig = m.jig
        /\ d.scenario = m.scenario /\ d.active = m.active \cup {u} /\ d.process = m.process
      BY <1>2, Zenon DEF ManagerInv, ManagerTables
  <2> HIDE DEF d
  <2>2. OneScenario(d, units, free) /\ OneJig(d) /\ ProcessesUsed(d)
      BY <1>2, <2>1, Zenon DEF ManagerInv, OneScenario, Chosen, OneJig, ProcessesUsed
  <2>3. QED
      BY <2>1, <2>2, Zenon DEF ManagerInv, d
<1>3. QED
    BY <1>1, <1>2, Zenon DEF Activate

(* activate of any unit: the manager stays consistent, a jig is current if  *)
(* one was, and a scenario if one was and the jig is the same.              *)
LEMMA ActivateUnitKeeps ==
    ASSUME NEW units \in SUBSET Unit, TestsLoaded(units), NEW free, NEW m,
           ManagerInv(m, units, free), NEW u \in Unit, u \in Test => u \in free, NEW up \in BOOLEAN
    PROVE  LET r == ActivateUnit(m, u, units, up)
           IN  /\ ManagerInv(r, units, free)
               /\ r.jig = None => m.jig = None
               /\ r.jig = m.jig /\ r.scenario = None => m.scenario = None
<1> DEFINE r == ActivateUnit(m, u, units, up)
<1>0. None \notin Unit /\ m.jig \in Jig \cup {None}
    BY ManagerAssumption, Zenon DEF ManagerInv, ManagerTables
<1>1. CASE u \in Jig
  <2>1. r = ActivateJig(m, u, units)
      BY <1>1, ManagerAssumption, Zenon DEF ActivateUnit
  <2>2. CASE u \in units
    <3>1. /\ ManagerInv(r, units, free) /\ r.jig = u
          /\ m.jig = u => r.scenario = m.scenario
        BY <1>1, <2>1, <2>2, ActivateJigKeeps
    <3>2. QED
        BY <1>0, <3>1, Zenon
  <2>3. CASE u \notin units
    <3>1. u \notin m.selected
        BY <2>3, Zenon DEF ManagerInv
    <3>2. r = m
        BY <2>1, <2>3, <3>1, Zenon DEF ActivateJig, SelectJig
    <3>3. QED
        BY <3>2, Zenon
  <2>4. QED
      BY <2>2, <2>3, Zenon
<1>2. CASE u \in Scenario
  <2> DEFINE d == SelectScenario(m, u, units)
  <2>1. r = Activate(d, u, TRUE)
      BY <1>2, ManagerAssumption, Zenon DEF ActivateUnit
  <2>2. /\ ManagerInv(d, units, free) /\ d.jig = m.jig
        /\ d.scenario = IF u \in units THEN u ELSE m.scenario
      BY <1>2, SelectScenarioInv
  <2> HIDE DEF d
  <2> DEFINE yes == TRUE
  <2>3. r = Activate(d, u, yes)
      BY <2>1, Zenon
  <2> HIDE DEF yes, r
  <2>4. ManagerInv(r, units, free) /\ r.jig = d.jig /\ r.scenario = d.scenario
      BY <1>2, <2>2, <2>3, ActivateKeeps
  <2> USE DEF r
  <2>5. QED
      BY <1>0, <2>2, <2>4, Zenon
<1>3. CASE u \in Test
  <2> DEFINE d == SelectTest(m, u, units)
  <2>1. r = Activate(d, u, up)
      BY <1>3, ManagerAssumption, Zenon DEF ActivateUnit
  <2>2. ManagerInv(d, units, free) /\ d.jig = m.jig /\ d.scenario = m.scenario
      BY <1>3, SelectTestKeeps
  <2> HIDE DEF d
  <2>3. ManagerInv(r, units, free) /\ r.jig = d.jig /\ r.scenario = d.scenario
      BY <1>3, <2>1, <2>2, ActivateKeeps
  <2>4. QED
      BY <2>2, <2>3, Zenon
<1>4. CASE u \in Client
  <2> DEFINE clients == {u} \cap units
             up2 == IF up THEN {u} \cap units ELSE {}
  <2>1. r = ActivateClients(m, clients, up2)
      BY <1>4, ManagerAssumption DEF ActivateUnit
  <2>2. clients \in SUBSET (units \cap Client) /\ up2 \in SUBSET clients
      BY <1>4
  <2> HIDE DEF clients, up2
  <2>3. ManagerInv(r, units, free)
      BY <2>1, <2>2, ActivateClientsKeeps, Zenon
  <2>4. r.jig = m.jig /\ r.scenario = m.scenario
      BY <2>1, Zenon DEF ActivateClients, ManagerInv, ManagerTables
  <2>5. QED
      BY <2>3, <2>4, Zenon
<1>5. QED
    BY <1>1, <1>2, <1>3, <1>4, Zenon DEF Unit

-----------------------------------------------------------------------------
(***************************************************************************)
(* The library.                                                            *)
(***************************************************************************)

(* What the library knows of a unit, and what the manager has loaded.       *)
TablesOK ==
    /\ disk \in [Unit -> FileState]
    /\ queue \in Seq([unit : Unit, kind : Report \cup Request])
    /\ status \in [Unit -> Status]
    /\ described \subseteq Unit
    /\ dirty \subseteq Unit

Known == {u \in Unit : status[u] # "Unknown"}

(* The inductive invariant: dirty, described and loaded units are known,    *)
(* loaded ones are described, and they fit together.                        *)
LibraryInv ==
    /\ TablesOK
    /\ dirty \subseteq Known
    /\ described \subseteq Known
    /\ LoadedAreDescribed
    /\ LoadedUnitsFit
    /\ ScenariosAreFresh
    /\ NoStatusPanic

(* An action that leaves the library's tables, the loaded units and the     *)
(* panics of rescan alone preserves the invariant.                          *)
LEMMA ManagerKeepsLibraryInv ==
    ASSUME LibraryInv, UNCHANGED <<disk, queue, libraryVars, loaded, stale>>,
           panicked' \in {panicked, "client"}
    PROVE  LibraryInv'
BY Zenon DEF LibraryInv, TablesOK, Known, LoadedAreDescribed, LoadedUnitsFit, Fits,
       ScenariosAreFresh, NoStatusPanic, libraryVars, Unit, Client

(* The queue of a message more, or of a message less.                       *)
LEMMA QueueTypes ==
    ASSUME NEW S, NEW q \in Seq(S)
    PROVE  /\ \A m \in S : Append(q, m) \in Seq(S)
           /\ q # <<>> => Head(q) \in S /\ Tail(q) \in Seq(S)
OBVIOUS

(* A file changes; the report is queued.                                    *)
LEMMA FileChangesInv ==
    ASSUME LibraryInv, NEW u \in Unit, FileChanges(u)
    PROVE  LibraryInv'
<1> DEFINE M == [unit : Unit, kind : Report \cup Request]
<1>1. PICK after \in FileState :
          /\ disk' = [disk EXCEPT ![u] = after]
          /\ queue' = Append(queue, [unit |-> u, kind |-> ReportOf(disk[u], after)])
    BY Zenon DEF FileChanges
<1>2. [unit |-> u, kind |-> ReportOf(disk[u], after)] \in M
    BY Zenon DEF ReportOf, Report
<1>3. TablesOK'
    BY <1>1, <1>2, QueueTypes, Zenon DEF LibraryInv, TablesOK, FileChanges, libraryVars
<1>4. QED
    BY <1>3, Zenon DEF LibraryInv, FileChanges, libraryVars, managerVars, Known, LoadedAreDescribed,
                LoadedUnitsFit, Fits, ScenariosAreFresh, NoStatusPanic, Unit, Client

(* The loader turns a report into a request.                                *)
LEMMA LoaderHandlesInv ==
    ASSUME LibraryInv, LoaderHandles
    PROVE  LibraryInv'
<1> DEFINE M == [unit : Unit, kind : Report \cup Request]
<1>1. Head(queue) \in M /\ Tail(queue) \in Seq(M)
    BY QueueTypes, Zenon DEF LibraryInv, TablesOK, LoaderHandles
<1>2. [unit |-> Head(queue).unit, kind |-> RequestFor[Head(queue).kind]] \in M
    BY <1>1 DEF LoaderHandles, RequestFor, Report, Request
<1>3. TablesOK'
    BY <1>1, <1>2, QueueTypes, Zenon DEF LibraryInv, TablesOK, LoaderHandles, libraryVars
<1>4. QED
    BY <1>3, Zenon DEF LibraryInv, LoaderHandles, libraryVars, managerVars, Known, LoadedAreDescribed,
                LoadedUnitsFit, Fits, ScenariosAreFresh, NoStatusPanic, Unit, Client

(* The library parses a file: what it marks dirty or describes, it knows.   *)
LEMMA LibraryParsesInv ==
    ASSUME LibraryInv, LibraryParses
    PROVE  LibraryInv'
<1> DEFINE M == [unit : Unit, kind : Report \cup Request]
           u == Head(queue).unit
           request == Head(queue).kind
<1>1. u \in Unit /\ Tail(queue) \in Seq(M)
    BY QueueTypes, Zenon DEF LibraryInv, TablesOK, LibraryParses
<1>2. /\ TablesOK'
      /\ Known \subseteq Known'
      /\ dirty' \subseteq Known'
      /\ described' \subseteq Known'
      /\ described \subseteq described'
  <2>1. CASE u \in HandledKinds[request]
      BY <1>1, <2>1 DEF LibraryInv, TablesOK, LibraryParses, Descriptions, Known, Status, Request
  <2>2. CASE u \notin HandledKinds[request]
      BY <1>1, <2>2, Zenon DEF LibraryInv, TablesOK, LibraryParses, libraryVars, Known
  <2>3. QED
      BY <2>1, <2>2, Zenon
<1>3. QED
    BY <1>2, Zenon DEF LibraryInv, LibraryParses, managerVars, LoadedAreDescribed,
                LoadedUnitsFit, Fits, ScenariosAreFresh, NoStatusPanic, Unit, Client

(* The library takes note of a deleted file, also of one it never knew.     *)
LEMMA LibraryUnloadsInv ==
    ASSUME LibraryInv, LibraryUnloads
    PROVE  LibraryInv'
<1> DEFINE M == [unit : Unit, kind : Report \cup Request]
<1> HIDE DEF M
<1>0. queue \in Seq(M) /\ queue # <<>>
    BY Zenon DEF LibraryInv, TablesOK, LibraryUnloads, M
<1>a. Head(queue) \in M /\ Tail(queue) \in Seq(M)
    BY <1>0, QueueTypes, Zenon
<1>1. Head(queue).unit \in Unit /\ Tail(queue) \in Seq(M)
    BY <1>a, Zenon DEF M
<1> USE DEF M
<1>2. /\ TablesOK'
      /\ Known \subseteq Known'
      /\ dirty' \subseteq Known'
    BY <1>1, Zenon DEF LibraryInv, TablesOK, LibraryUnloads, Known, Status, Request
<1>3. QED
    BY <1>2, Zenon DEF LibraryInv, LibraryUnloads, managerVars, LoadedAreDescribed,
                LoadedUnitsFit, Fits, ScenariosAreFresh, NoStatusPanic, Unit, Client

(* What a rescan touches is known; what stays loaded is untouched.          *)
LEMMA AffectedUnits ==
    ASSUME LibraryInv
    PROVE  /\ Affected \subseteq Known
           /\ Unexpected = {}
           /\ Reloaded \subseteq described \ Deleted
           /\ loaded \cap Affected \subseteq Deleted \cup Reloaded
<1>1. Affected \subseteq Known
    BY Zenon DEF LibraryInv, Affected, JigDependents, TestDependents, LoadedAreDescribed
<1>2. Reloaded \subseteq described \ Deleted
    BY Zenon DEF Reloaded
<1>3. loaded \cap Affected \subseteq Deleted \cup Reloaded
    BY Zenon DEF LibraryInv, LoadedAreDescribed, Reloaded
<1>4. \A u \in Reloaded : status[u] \in {"LoadStarted", "UpdateStarted"}
    BY <1>1, Zenon DEF LibraryInv, TablesOK, Reloaded, Deleted, Known, Status, Request
<1>5. Unexpected = {}
    BY <1>1, <1>4, Zenon DEF Unexpected, Known
<1>6. QED
    BY <1>1, <1>2, <1>3, <1>5, Zenon

(* The units loaded by a rescan: reloaded ones, and untouched ones.         *)
LEMMA LoadedByUnits ==
    ASSUME LibraryInv, NEW refused
    PROVE  /\ LoadedBy(refused) \subseteq described \ Deleted
           /\ \A u \in LoadedBy(refused) : u \notin Reloaded => u \in loaded \ Affected
BY AffectedUnits, Zenon DEF LibraryInv, TablesOK, LoadedAreDescribed, LoadedBy, Reloaded, Deleted

(* The jigs and the tests a rescan leaves loaded include every loaded one   *)
(* that it does not touch, and every test it reloads.                       *)
LEMMA LoadedByKeeps ==
    ASSUME LibraryInv, NEW refused
    PROVE  /\ (loaded \ Affected) \cap (Jig \cup Test) \subseteq LoadedBy(refused)
           /\ Reloaded \cap Test \subseteq LoadedBy(refused)
BY ManagerAssumption, Zenon DEF LoadedBy, Reloaded, Deleted

(* A unit that a rescan leaves loaded fits the units it leaves loaded.      *)
LEMMA LoadedByFits ==
    ASSUME LibraryInv, NEW refused, NEW u \in LoadedBy(refused)
    PROVE  /\ u \in Client \cup Scenario => Fits(u, LoadedBy(refused))
           /\ u \in Scenario => TestsOf[u] \subseteq LoadedBy(refused)
<1> DEFINE L == LoadedBy(refused)
<1>0. u \in Unit
    BY LoadedByUnits, Zenon DEF LibraryInv, TablesOK
<1>1. CASE u \in Reloaded
  <2>1. u \in Client \cup Scenario => Fits(u, L \cap Jig)
      BY <1>0, <1>1, ManagerAssumption, AffectedUnits, Zenon DEF LoadedBy, Unit
  <2>2. u \in Scenario => TestsOf[u] \subseteq L
      BY <1>1, ManagerAssumption, AffectedUnits, Zenon DEF LoadedBy
  <2>3. QED
      BY <2>1, <2>2, Zenon DEF Fits
<1>2. CASE u \notin Reloaded
  <2>1. u \in loaded /\ u \notin Affected
      BY <1>2, LoadedByUnits, Zenon
  <2>2. u \in described
      BY <2>1, Zenon DEF LibraryInv, LoadedAreDescribed
  <2>3. Jigs[u] \cap dirty = {}
      BY <2>1, <2>2, Zenon DEF Affected, JigDependents
  <2>4. ASSUME u \in Client \cup Scenario, Jigs[u] # {}
        PROVE  Jigs[u] \cap L # {}
    <3>1. PICK j \in Jigs[u] : j \in loaded
        BY <2>1, <2>4, Zenon DEF LibraryInv, LoadedUnitsFit, Fits
    <3>2. j \in Jig /\ Jigs[j] = {} /\ j \notin dirty
        BY <1>0, <2>3, <3>1, ManagerAssumption, Zenon
    <3>3. j \notin Affected
        BY <3>2, ManagerAssumption, Zenon DEF Affected, JigDependents, TestDependents
    <3>4. QED
        BY <3>1, <3>2, <3>3, LoadedByKeeps, Zenon
  <2>5. ASSUME u \in Scenario, NEW k \in TestsOf[u]
        PROVE  k \in L
    <3>1. k \in loaded /\ k \in Test
        BY <2>1, <2>5, ManagerAssumption, Zenon DEF LibraryInv, LoadedUnitsFit
    <3>2. k \notin dirty \cup JigDependents
        BY <2>1, <2>5, <3>1, Zenon DEF Affected, TestDependents
    <3>3. k \notin Affected
        BY <3>1, <3>2, ManagerAssumption, Zenon DEF Affected, TestDependents
    <3>4. QED
        BY <3>1, <3>3, LoadedByKeeps, Zenon
  <2>6. QED
      BY <2>4, <2>5, Zenon DEF Fits
<1>3. QED
    BY <1>1, <1>2, Zenon

(* A rescan does not panic, and leaves consistent tables.                   *)
LEMMA RescanInv ==
    ASSUME LibraryInv, Rescan
    PROVE  LibraryInv'
<1>1. PICK refused \in SUBSET (Reloaded \cap Jig) :
          /\ described' = described \ Deleted
          /\ loaded' = LoadedBy(refused)
          /\ status' = [u \in Unit |->
                IF u \in Deleted THEN "Unknown"
                ELSE IF u \in Reloaded \ LoadedBy(refused) THEN "LoadFailed"
                ELSE status[u]]
          /\ dirty' = {}
          /\ stale' = {s \in (loaded' \cap Scenario) \ Reloaded :
                s \in stale \/ TestsOf[s] \cap (Deleted \cup Reloaded) # {}}
          /\ UNCHANGED panicked
    BY AffectedUnits, Zenon DEF Rescan
<1>2. TablesOK'
    BY <1>1, Zenon DEF LibraryInv, TablesOK, Rescan, Status
<1>3. described' \subseteq Known'
    BY <1>1, Zenon DEF LibraryInv, TablesOK, Known
<1>4. LoadedAreDescribed'
    BY <1>1, LoadedByUnits, Zenon DEF LoadedAreDescribed
<1>5. LoadedUnitsFit'
    BY <1>1, LoadedByFits, Zenon DEF LoadedUnitsFit, Fits
<1>6. ScenariosAreFresh'
  <2>1. SUFFICES ASSUME NEW s \in stale' PROVE FALSE
      BY Zenon DEF ScenariosAreFresh
  <2>2. s \in Scenario /\ s \in loaded /\ s \notin Affected
      BY <1>1, LoadedByUnits, Zenon
  <2>3. PICK k \in TestsOf[s] : k \in Deleted \cup Reloaded
      BY <1>1, Zenon DEF LibraryInv, ScenariosAreFresh
  <2>4. k \in Test /\ k \in Affected
      BY <2>2, <2>3, ManagerAssumption, Zenon DEF Deleted, Reloaded
  <2>5. k \in dirty \cup JigDependents
      BY <2>4, ManagerAssumption, Zenon DEF Affected, TestDependents
  <2>6. QED
      BY <2>2, <2>3, <2>4, <2>5, Zenon DEF Affected, TestDependents
<1>7. QED
    BY <1>1, <1>2, <1>3, <1>4, <1>5, <1>6, Zenon DEF LibraryInv, NoStatusPanic, Known

(* The steps of the main thread that concern the manager, rescans apart.    *)
ManagerStep ==
    \/ \E c \in Interface \cup Trigger : ClientAsks(c)
    \/ \E i \in Interface : AnswerRequest(i)
    \/ \E i \in Interface, s \in Scenario : ScenarioRequest(i, s)
    \/ \E c \in Interface \cup Trigger, name \in Unit \cup {None} : StartRequest(c, name)
    \/ EnterKey
    \/ \E t \in Test : StartTest(t)
    \/ \E u \in Test \cup Scenario : StopTest(u)
    \/ LogEntry

(* They leave the library and the loaded units alone.                       *)
LEMMA ManagerStepLeaves ==
    ASSUME ManagerStep
    PROVE  /\ UNCHANGED <<disk, queue, libraryVars, loaded, stale, reports>>
           /\ panicked' \in {panicked, "client"}
BY Zenon DEF ManagerStep, ClientAsks, Takes, AnswerRequest, ScenarioRequest, StartRequest, EnterKey,
             StartTest, StopTest, LogEntry, managerVars

(* What a step can be.                                                      *)
LEMMA NextCases ==
    ASSUME [Next]_vars
    PROVE  \/ \E u \in Unit : FileChanges(u)
           \/ LoaderHandles \/ LibraryParses \/ LibraryUnloads \/ Rescan
           \/ ManagerStep \/ UNCHANGED vars
BY Zenon DEF Next, ManagerStep

(* Every step preserves the invariant.                                      *)
LEMMA LibraryInvStep ==
    ASSUME LibraryInv, [Next]_vars
    PROVE  LibraryInv'
<1>1. CASE \E u \in Unit : FileChanges(u)
    BY <1>1, FileChangesInv, Zenon
<1>2. CASE LoaderHandles
    BY <1>2, LoaderHandlesInv, Zenon
<1>3. CASE LibraryParses
    BY <1>3, LibraryParsesInv, Zenon
<1>4. CASE LibraryUnloads
    BY <1>4, LibraryUnloadsInv, Zenon
<1>5. CASE Rescan
    BY <1>5, RescanInv, Zenon
<1>6. CASE ManagerStep
    BY <1>6, ManagerStepLeaves, ManagerKeepsLibraryInv, Zenon
<1>7. CASE UNCHANGED vars
    BY <1>7, ManagerKeepsLibraryInv, Zenon DEF vars, managerVars
<1>8. QED
    BY <1>1, <1>2, <1>3, <1>4, <1>5, <1>6, <1>7, NextCases, Zenon

(* The invariant holds of the library as it starts.                         *)
LEMMA LibraryInvInit == Init => LibraryInv
<1> SUFFICES ASSUME Init PROVE LibraryInv
    BY Zenon
<1>1. PICK listing \in Listings :
          /\ disk = [u \in Unit |-> IF u \in Range(listing) THEN "good" ELSE "absent"]
          /\ queue = [n \in 1 .. Len(listing) |-> [unit |-> listing[n], kind |-> "Added"]]
    BY Zenon DEF Init
<1>2. disk \in [Unit -> FileState]
    BY <1>1, Zenon DEF FileState
<1>3. queue \in Seq([unit : Unit, kind : Report \cup Request])
  <2>1. listing \in Seq(Unit)
      BY LibraryAssumption, Zenon
  <2>2. \A n \in 1 .. Len(listing) : listing[n] \in Unit
      BY <2>1
  <2>3. "Added" \in Report \cup Request
      BY Zenon DEF Report
  <2>4. QED
      BY <1>1, <2>1, <2>2, <2>3
<1>4. QED
    BY <1>2, <1>3, Zenon DEF Init, LibraryInv, TablesOK, Status, LoadedAreDescribed,
                      LoadedUnitsFit, ScenariosAreFresh, NoStatusPanic

(* The library's tables are consistent at all times.                        *)
THEOREM LibraryStaysConsistent == Spec => []LibraryInv
BY LibraryInvInit, LibraryInvStep, PTL DEF Spec

(* rescan never panics over the status of a unit, whatever files come, go   *)
(* and change, in whatever order, between one rescan and the next.          *)
THEOREM RescanNeverPanics == Spec => []NoStatusPanic
<1>1. LibraryInv => NoStatusPanic
    BY Zenon DEF LibraryInv
<1>2. QED
    BY <1>1, LibraryStaysConsistent, PTL

(* A loaded unit never loses its description, so that a rescan finds every  *)
(* loaded unit that depends on a jig which goes away.                       *)
THEOREM LoadedUnitsStayDescribed == Spec => []LoadedAreDescribed
<1>1. LibraryInv => LoadedAreDescribed
    BY Zenon DEF LibraryInv
<1>2. QED
    BY <1>1, LibraryStaysConsistent, PTL

(* Every loaded client and scenario has a loaded jig among those it lists,  *)
(* and every loaded scenario has all of its tests.                          *)
THEOREM LoadedUnitsAlwaysFit == Spec => []LoadedUnitsFit
<1>1. LibraryInv => LoadedUnitsFit
    BY Zenon DEF LibraryInv
<1>2. QED
    BY <1>1, LibraryStaysConsistent, PTL

(* No scenario is left with a test object that the manager has replaced.    *)
THEOREM ScenariosNeverStale == Spec => []ScenariosAreFresh
<1>1. LibraryInv => ScenariosAreFresh
    BY Zenon DEF LibraryInv
<1>2. QED
    BY <1>1, LibraryStaysConsistent, PTL

(* What is loaded is a set of units.                                        *)
LEMMA LoadedUnits ==
    ASSUME LibraryInv
    PROVE  loaded \in SUBSET Unit
BY Zenon DEF LibraryInv, TablesOK, LoadedAreDescribed

(* What a rescan unloads no more is left loaded.                            *)
LEMMA KeptStayLoaded ==
    ASSUME LibraryInv, NEW refused
    PROVE  loaded \ (Deleted \cup Reloaded) \subseteq LoadedBy(refused)
BY LoadedUnits, Zenon DEF LoadedBy, Unit

-----------------------------------------------------------------------------
(* The library follows the disk.  The loader puts its request behind what   *)
(* is queued, so a report in the queue is newer than any request there; of  *)
(* two reports, or two requests, the one behind is newer.                   *)

Newer(q, k, n) ==
    IF q[k].kind \in Report THEN q[n].kind \in Report => k > n
    ELSE q[n].kind \in Request /\ k > n

Latest(q, n) == \A k \in 1 .. Len(q) : q[k].unit = q[n].unit => ~Newer(q, k, n)

(* The latest message about a unit says whether its file is there.          *)
NewsAreTrue(q, d) ==
    \A n \in 1 .. Len(q) : Latest(q, n) =>
       (q[n].kind \in {"Removed", "UnloadStarted"} <=> d[q[n].unit] = "absent")

Pending(q, u) == \E n \in 1 .. Len(q) : q[n].unit = u

Loadable == {"LoadStarted", "UpdateStarted"}

(* What loads whenever its file is correct: it needs no jig and no test.    *)
Free == {u \in Client \cup {s \in Scenario : TestsOf[s] = {}} : Jigs[u] = {}}

(* The inductive invariant: when no message about a unit is left, a status  *)
(* to load says that its file is there, and a free unit whose file is       *)
(* correct has that status and is loaded or about to be.                    *)
FollowsInv ==
    /\ NewsAreTrue(queue, disk)
    /\ \A u \in Unit : ~Pending(queue, u) /\ status[u] \in Loadable
          => disk[u] # "absent" /\ (u \in Test \/ disk[u] = "good")
    /\ \A u \in loaded \ dirty : status[u] \in Loadable
    /\ \A u \in Free : ~Pending(queue, u) /\ disk[u] = "good"
          => u \in described /\ status[u] \in Loadable /\ u \in dirty \cup loaded

Message == [unit : Unit, kind : Report \cup Request]

(* The elements of a queue of a message more, or of a message less.         *)
LEMMA QueueElements ==
    ASSUME NEW S, NEW q \in Seq(S)
    PROVE  /\ Len(q) \in Nat /\ \A k \in 1 .. Len(q) : q[k] \in S
           /\ \A m \in S : /\ Append(q, m) \in Seq(S)
                           /\ Len(Append(q, m)) = Len(q) + 1
                           /\ Append(q, m)[Len(q) + 1] = m
                           /\ \A k \in 1 .. Len(q) : Append(q, m)[k] = q[k]
           /\ q # <<>> => /\ Len(q) >= 1
                          /\ Head(q) = q[1] /\ q[1] \in S
                          /\ Tail(q) \in Seq(S)
                          /\ Len(Tail(q)) = Len(q) - 1
                          /\ \A k \in 1 .. Len(q) - 1 : Tail(q)[k] = q[k + 1]
OBVIOUS

(* A report of a change is the latest news of that unit.                    *)
LEMMA NewsOfChange ==
    ASSUME NEW q \in Seq(Message), NEW d \in [Unit -> FileState], NewsAreTrue(q, d),
           NEW m \in Message, m.kind \in Report, NEW after \in FileState,
           m.kind = "Removed" <=> after = "absent"
    PROVE  NewsAreTrue(Append(q, m), [d EXCEPT ![m.unit] = after])
<1> DEFINE r == Append(q, m)
           e == [d EXCEPT ![m.unit] = after]
<1>1. /\ Len(q) \in Nat /\ Len(r) = Len(q) + 1 /\ r[Len(q) + 1] = m
      /\ \A k \in 1 .. Len(q) : r[k] = q[k] /\ q[k] \in Message
    BY QueueElements
<1> HIDE DEF r
<1>2. SUFFICES ASSUME NEW n \in 1 .. Len(r), Latest(r, n)
               PROVE  r[n].kind \in {"Removed", "UnloadStarted"} <=> e[r[n].unit] = "absent"
    BY Zenon DEF NewsAreTrue, r
<1>3. CASE n = Len(q) + 1
    BY <1>1, <1>3, Zenon DEF Message, Report
<1>4. CASE n \in 1 .. Len(q)
  <2>1. r[n] = q[n] /\ q[n] \in Message /\ Len(q) + 1 \in 1 .. Len(r) /\ Len(q) + 1 > n
      BY <1>1, <1>4
  <2>2. Newer(r, Len(q) + 1, n)
      BY <1>1, <2>1, Zenon DEF Newer
  <2>3. q[n].unit # m.unit
      BY <1>1, <1>2, <2>1, <2>2, Zenon DEF Latest
  <2>4. Latest(q, n)
      BY <1>1, <1>2, <1>4 DEF Latest, Newer
  <2>5. e[q[n].unit] = d[q[n].unit]
      BY <2>1, <2>3, Zenon DEF Message
  <2>6. QED
      BY <1>4, <2>1, <2>4, <2>5, Zenon DEF NewsAreTrue
<1>5. QED
    BY <1>1, <1>3, <1>4

(* A request that takes the place of its report, at the end, says the same. *)
LEMMA NewsOfRequest ==
    ASSUME NEW q \in Seq(Message), q # <<>>, NEW d, NewsAreTrue(q, d),
           q[1].kind \in Report, NEW m \in Message, m.unit = q[1].unit,
           m.kind = RequestFor[q[1].kind]
    PROVE  NewsAreTrue(Append(Tail(q), m), d)
<1> DEFINE t == Tail(q)
           r == Append(t, m)
<1>0. /\ Len(q) \in Nat /\ Len(q) >= 1 /\ t \in Seq(Message) /\ Len(t) = Len(q) - 1
      /\ \A k \in 1 .. Len(q) : q[k] \in Message
      /\ \A k \in 1 .. Len(q) - 1 : t[k] = q[k + 1]
    BY QueueElements, Zenon
<1> HIDE DEF t
<1>1. /\ Len(r) = Len(q) /\ r[Len(q)] = m
      /\ \A k \in 1 .. Len(q) - 1 : r[k] = q[k + 1]
    BY <1>0, QueueElements
<1>a. /\ m.kind \in Request /\ m.kind \notin Report
      /\ m.kind \in {"Removed", "UnloadStarted"} <=> q[1].kind \in {"Removed", "UnloadStarted"}
    BY DEF RequestFor, Report, Request
<1>b. \A k \in 1 .. Len(q) : q[k].kind \in Request <=> q[k].kind \notin Report
    BY <1>0, Zenon DEF Message, Report, Request
<1> HIDE DEF r
<1>2. SUFFICES ASSUME NEW n \in 1 .. Len(r), Latest(r, n)
               PROVE  r[n].kind \in {"Removed", "UnloadStarted"} <=> d[r[n].unit] = "absent"
    BY Zenon DEF NewsAreTrue, r, t
<1>3. CASE n = Len(q)
  <2>1. ASSUME NEW k \in 1 .. Len(q), q[k].unit = q[1].unit
        PROVE  ~Newer(q, k, 1)
    <3>1. CASE k = 1
        BY <1>0, <1>b, <3>1 DEF Newer
    <3>2. CASE k # 1
      <4>1. k - 1 \in 1 .. Len(q) - 1 /\ r[k - 1] = q[k] /\ k - 1 \in 1 .. Len(r)
          BY <1>0, <1>1, <3>2
      <4>2. ~Newer(r, k - 1, n)
          BY <1>1, <1>2, <1>3, <2>1, <4>1, Zenon DEF Latest
      <4>3. q[k].kind \notin Report
          BY <1>1, <1>3, <1>a, <4>1, <4>2, Zenon DEF Newer
      <4>4. 1 \in 1 .. Len(q) /\ q[1].kind \notin Request
          BY <1>0, <1>b
      <4>5. QED
          BY <4>3, <4>4, Zenon DEF Newer
    <3>3. QED
        BY <3>1, <3>2, Zenon
  <2>2. Latest(q, 1) /\ 1 \in 1 .. Len(q)
      BY <1>0, <2>1 DEF Latest
  <2>3. QED
      BY <1>1, <1>3, <1>a, <2>2, Zenon DEF NewsAreTrue
<1>4. CASE n \in 1 .. Len(q) - 1
  <2>1. r[n] = q[n + 1] /\ n + 1 \in 1 .. Len(q) /\ n + 1 > 1
      BY <1>0, <1>1, <1>4
  <2>2. ASSUME NEW k \in 1 .. Len(q), q[k].unit = q[n + 1].unit, Newer(q, k, n + 1)
        PROVE  FALSE
    <3>1. CASE k = 1
      \* the head is a report: n is a request, and the new one is behind it
      <4>1. q[n + 1].kind \in Request
          BY <1>0, <1>b, <2>1, <2>2, <3>1 DEF Newer
      <4>2. Newer(r, Len(q), n)
          BY <1>0, <1>1, <1>4, <1>a, <2>1, <4>1 DEF Newer
      <4>3. QED
          BY <1>0, <1>1, <1>2, <2>1, <2>2, <3>1, <4>2 DEF Latest
    <3>2. CASE k # 1
      <4>1. k - 1 \in 1 .. Len(q) - 1 /\ r[k - 1] = q[k] /\ k - 1 \in 1 .. Len(r)
          BY <1>0, <1>1, <3>2
      <4>2. Newer(r, k - 1, n)
          BY <1>4, <2>1, <2>2, <4>1 DEF Newer
      <4>3. QED
          BY <1>2, <2>1, <2>2, <4>1, <4>2, Zenon DEF Latest
    <3>3. QED
        BY <3>1, <3>2, Zenon
  <2>3. Latest(q, n + 1)
      BY <2>2, Zenon DEF Latest
  <2>4. QED
      BY <2>1, <2>3, Zenon DEF NewsAreTrue
<1>5. QED
    BY <1>0, <1>1, <1>3, <1>4

(* A request that is taken from the queue leaves the rest true.             *)
LEMMA NewsOfRest ==
    ASSUME NEW q \in Seq(Message), q # <<>>, NEW d, NewsAreTrue(q, d), q[1].kind \in Request
    PROVE  NewsAreTrue(Tail(q), d)
<1> DEFINE t == Tail(q)
<1>0. /\ Len(q) \in Nat /\ Len(q) >= 1 /\ Len(t) = Len(q) - 1
      /\ \A k \in 1 .. Len(q) - 1 : t[k] = q[k + 1]
    BY QueueElements, Zenon
<1> HIDE DEF t
<1>1. q[1].kind \notin Report
    BY Zenon DEF Report, Request
<1>2. SUFFICES ASSUME NEW n \in 1 .. Len(t), Latest(t, n)
               PROVE  t[n].kind \in {"Removed", "UnloadStarted"} <=> d[t[n].unit] = "absent"
    BY Zenon DEF NewsAreTrue, t
<1>3. t[n] = q[n + 1] /\ n + 1 \in 1 .. Len(q)
    BY <1>0
<1>4. ASSUME NEW k \in 1 .. Len(q), q[k].unit = q[n + 1].unit
      PROVE  ~Newer(q, k, n + 1)
  <2>1. CASE k = 1
      BY <1>0, <1>1, <2>1 DEF Newer
  <2>2. CASE k # 1
    <3>1. k - 1 \in 1 .. Len(t) /\ t[k - 1] = q[k]
        BY <1>0, <2>2
    <3>2. ~Newer(t, k - 1, n)
        BY <1>2, <1>3, <1>4, <3>1, Zenon DEF Latest
    <3>3. QED
        BY <1>3, <3>1, <3>2 DEF Newer
  <2>3. QED
      BY <2>1, <2>2, Zenon
<1>5. QED
    BY <1>3, <1>4, Zenon DEF NewsAreTrue, Latest

(* A file changes: news of it are in the queue.                             *)
LEMMA FileChangesFollows ==
    ASSUME LibraryInv, FollowsInv, NEW v \in Unit, FileChanges(v)
    PROVE  FollowsInv'
<1>0. queue \in Seq(Message) /\ disk \in [Unit -> FileState]
    BY Zenon DEF LibraryInv, TablesOK, Message
<1>1. PICK after \in FileState :
          /\ disk' = [disk EXCEPT ![v] = after]
          /\ queue' = Append(queue, [unit |-> v, kind |-> ReportOf(disk[v], after)])
    BY Zenon DEF FileChanges
<1> DEFINE m == [unit |-> v, kind |-> ReportOf(disk[v], after)]
<1>2. /\ m \in Message /\ m.unit = v /\ m.kind \in Report
      /\ m.kind = "Removed" <=> after = "absent"
    BY Zenon DEF Message, ReportOf, Report
<1> HIDE DEF m
<1>3. NewsAreTrue(queue', disk')
    BY <1>0, <1>1, <1>2, NewsOfChange, Zenon DEF FollowsInv, m
<1>4. Pending(queue', v) /\ \A u : Pending(queue, u) => Pending(queue', u)
  <2>1. queue' = Append(queue, m)
      BY <1>1, Zenon DEF m
  <2>2. QED
      BY <1>0, <1>2, <2>1, QueueElements DEF Pending
<1>5. \A u \in Unit : ~Pending(queue', u) => ~Pending(queue, u) /\ disk'[u] = disk[u]
    BY <1>0, <1>1, <1>4, Zenon
<1>6. /\ status' = status /\ described' = described /\ dirty' = dirty /\ loaded' = loaded
    BY Zenon DEF FileChanges, libraryVars, managerVars
<1>7. Free \subseteq Unit
    BY Zenon DEF Free, Unit
<1>8. QED
    BY <1>3, <1>5, <1>6, <1>7, Zenon DEF FollowsInv

(* The loader answers: the request speaks for its report.                   *)
LEMMA LoaderHandlesFollows ==
    ASSUME LibraryInv, FollowsInv, LoaderHandles
    PROVE  FollowsInv'
<1>0. queue \in Seq(Message) /\ queue # <<>>
    BY Zenon DEF LibraryInv, TablesOK, Message, LoaderHandles
<1>1. Head(queue) = queue[1] /\ queue[1] \in Message /\ queue[1].kind \in Report
    BY <1>0, QueueElements, Zenon DEF LoaderHandles
<1> DEFINE m == [unit |-> queue[1].unit, kind |-> RequestFor[queue[1].kind]]
<1>2. m \in Message /\ m.unit = queue[1].unit /\ m.kind = RequestFor[queue[1].kind]
    BY <1>1 DEF Message, RequestFor, Report, Request
<1>3. queue' = Append(Tail(queue), m)
    BY <1>1, Zenon DEF LoaderHandles
<1> HIDE DEF m
<1>4. NewsAreTrue(queue', disk)
    BY <1>0, <1>1, <1>2, <1>3, NewsOfRequest, Zenon DEF FollowsInv
<1>5. ASSUME NEW u, Pending(queue, u) PROVE Pending(queue', u)
  <2> DEFINE t == Tail(queue)
  <2>1. /\ Len(queue) \in Nat /\ Len(queue) >= 1 /\ t \in Seq(Message)
        /\ Len(t) = Len(queue) - 1
        /\ \A k \in 1 .. Len(queue) - 1 : t[k] = queue[k + 1]
      BY <1>0, QueueElements, Zenon
  <2> HIDE DEF t
  <2>2. /\ Len(queue') = Len(queue) /\ queue'[Len(queue)] = m
        /\ \A k \in 1 .. Len(queue) - 1 : queue'[k] = queue[k + 1]
      BY <1>2, <1>3, <2>1, QueueElements DEF t
  <2>3. PICK n \in 1 .. Len(queue) : queue[n].unit = u
      BY <1>5, Zenon DEF Pending
  <2>4. CASE n = 1
      BY <1>2, <2>1, <2>2, <2>3, <2>4 DEF Pending
  <2>5. CASE n # 1
    <3>1. n - 1 \in 1 .. Len(queue) - 1 /\ queue'[n - 1] = queue[n] /\ n - 1 \in 1 .. Len(queue')
        BY <2>1, <2>2, <2>5
    <3>2. QED
        BY <2>3, <3>1, Zenon DEF Pending
  <2>6. QED
      BY <2>4, <2>5, Zenon
<1>6. /\ status' = status /\ described' = described /\ dirty' = dirty /\ loaded' = loaded
      /\ disk' = disk
    BY Zenon DEF LoaderHandles, libraryVars, managerVars
<1>7. QED
    BY <1>4, <1>5, <1>6, Zenon DEF FollowsInv

(* A request is taken: the queue says the truth, messages about other units *)
(* stay, and if it was the last about its unit, it was the latest.          *)
LEMMA RequestTaken ==
    ASSUME LibraryInv, FollowsInv, queue # <<>>, Head(queue).kind \in Request,
           queue' = Tail(queue), disk' = disk
    PROVE  LET v == Head(queue).unit
           IN  /\ v \in Unit
               /\ NewsAreTrue(queue', disk')
               /\ \A u : u # v /\ Pending(queue, u) => Pending(queue', u)
               /\ ~Pending(queue', v) => (Head(queue).kind = "UnloadStarted" <=> disk[v] = "absent")
<1> DEFINE v == Head(queue).unit
<1>0. queue \in Seq(Message)
    BY Zenon DEF LibraryInv, TablesOK, Message
<1>1. /\ Len(queue) \in Nat /\ Len(queue) >= 1 /\ Head(queue) = queue[1] /\ queue[1] \in Message
      /\ Len(queue') = Len(queue) - 1
      /\ \A k \in 1 .. Len(queue) - 1 : queue'[k] = queue[k + 1]
    BY <1>0, QueueElements, Zenon
<1>2. v \in Unit
    BY <1>1, Zenon DEF Message
<1>3. NewsAreTrue(queue', disk')
    BY <1>0, <1>1, NewsOfRest, Zenon DEF FollowsInv
<1>a. \A n \in 1 .. Len(queue) : n # 1 =>
         n - 1 \in 1 .. Len(queue') /\ queue'[n - 1] = queue[n]
    BY <1>1
<1>4. \A u : u # v /\ Pending(queue, u) => Pending(queue', u)
    BY <1>1, <1>a, Zenon DEF Pending
<1>5. ASSUME ~Pending(queue', v)
      PROVE  Head(queue).kind = "UnloadStarted" <=> disk[v] = "absent"
  <2>1. \A k \in 1 .. Len(queue) : queue[k].unit = v => k = 1
      BY <1>1, <1>a, <1>5, Zenon DEF Pending
  <2>2. queue[1].kind \notin Report /\ queue[1].kind # "Removed"
      BY <1>1, Zenon DEF Report, Request
  <2>3. Latest(queue, 1) /\ 1 \in 1 .. Len(queue)
      BY <1>1, <2>1, <2>2 DEF Latest, Newer
  <2>4. QED
      BY <1>1, <2>2, <2>3, Zenon DEF FollowsInv, NewsAreTrue
<1>6. QED
    BY <1>2, <1>3, <1>4, <1>5, Zenon

(* A file is parsed: its state decides the status.                          *)
LEMMA LibraryParsesFollows ==
    ASSUME LibraryInv, FollowsInv, LibraryParses
    PROVE  FollowsInv'
<1> DEFINE v == Head(queue).unit
           request == Head(queue).kind
<1>0. /\ queue # <<>> /\ request \in Loadable /\ queue' = Tail(queue)
      /\ disk' = disk /\ loaded' = loaded
    BY Zenon DEF LibraryParses, Loadable, managerVars
<1>1. /\ v \in Unit /\ NewsAreTrue(queue', disk')
      /\ \A u : u # v /\ Pending(queue, u) => Pending(queue', u)
      /\ ~Pending(queue', v) => disk[v] # "absent"
  <2>1. request \in Request /\ request # "UnloadStarted"
      BY <1>0, Zenon DEF Loadable, Request
  <2>2. QED
      BY <1>0, <2>1, RequestTaken, Zenon
<1>2. /\ disk \in [Unit -> FileState] /\ status \in [Unit -> Status] /\ loaded \subseteq Unit
      /\ Free \subseteq Unit \ Test
    BY LoadedUnits, ManagerAssumption, Zenon DEF LibraryInv, TablesOK, Free, Unit
<1>3. CASE v \in HandledKinds[request]
  <2>1. /\ dirty' = dirty \cup {v} /\ described' = Descriptions(v)
        /\ status' = [status EXCEPT ![v] = IF disk[v] = "good" THEN request ELSE "LoadFailed"]
      BY <1>3, Zenon DEF LibraryParses
  <2>2. /\ \A u \in Unit : u # v => status'[u] = status[u]
        /\ status'[v] = IF disk[v] = "good" THEN request ELSE "LoadFailed"
        /\ described \subseteq described'
        /\ disk[v] = "good" => v \in described'
      BY <1>1, <1>2, <2>1, Zenon DEF Descriptions
  <2>3. \A u \in Unit : ~Pending(queue', u) /\ status'[u] \in Loadable
          => disk'[u] # "absent" /\ (u \in Test \/ disk'[u] = "good")
      BY <1>0, <1>1, <2>2, Zenon DEF FollowsInv, Loadable
  <2>4. \A u \in loaded' \ dirty' : status'[u] \in Loadable
      BY <1>0, <1>2, <2>1, <2>2, Zenon DEF FollowsInv
  <2>5. \A u \in Free : ~Pending(queue', u) /\ disk'[u] = "good"
          => u \in described' /\ status'[u] \in Loadable /\ u \in dirty' \cup loaded'
    <3> SUFFICES ASSUME NEW u \in Free, ~Pending(queue', u), disk'[u] = "good"
                 PROVE  u \in described' /\ status'[u] \in Loadable /\ u \in dirty' \cup loaded'
        BY Zenon
    <3> HIDE DEF v, request
    <3>0. dirty' = dirty \cup {v}
        BY <2>1, Zenon
    <3>1. CASE u = v
        BY <1>0, <2>2, <3>0, <3>1, Zenon
    <3>2. CASE u # v
      <4>1. ~Pending(queue, u) /\ disk[u] = "good" /\ u \in Unit
          BY <1>0, <1>1, <1>2, <3>2, Zenon
      <4>2. u \in described /\ status[u] \in Loadable /\ u \in dirty \cup loaded
          BY <4>1, Zenon DEF FollowsInv
      <4>3. QED
          BY <1>0, <2>2, <3>0, <3>2, <4>1, <4>2, Zenon
    <3>3. QED
        BY <3>1, <3>2, Zenon
  <2>6. QED
      BY <1>1, <2>3, <2>4, <2>5, Zenon DEF FollowsInv
<1>4. CASE v \notin HandledKinds[request]
  <2>1. status' = status /\ described' = described /\ dirty' = dirty
      BY <1>4, Zenon DEF LibraryParses, libraryVars
  <2>2. v \in Test
      BY <1>0, <1>1, <1>4 DEF HandledKinds, Loadable
  <2>3. \A u \in Unit : ~Pending(queue', u) /\ status'[u] \in Loadable
          => disk'[u] # "absent" /\ (u \in Test \/ disk'[u] = "good")
    <3> SUFFICES ASSUME NEW u \in Unit, ~Pending(queue', u), status'[u] \in Loadable
                 PROVE  disk'[u] # "absent" /\ (u \in Test \/ disk'[u] = "good")
        BY Zenon
    <3>1. CASE u = v
        BY <1>0, <1>1, <2>2, <3>1, Zenon
    <3>2. CASE u # v
      <4>1. ~Pending(queue, u)
          BY <1>1, <3>2, Zenon
      <4>2. QED
          BY <1>0, <2>1, <4>1, Zenon DEF FollowsInv
    <3>3. QED
        BY <3>1, <3>2, Zenon
  <2>4. \A u \in Free : ~Pending(queue', u) /\ disk'[u] = "good"
          => u \in described' /\ status'[u] \in Loadable /\ u \in dirty' \cup loaded'
      BY <1>0, <1>1, <1>2, <2>1, <2>2, Zenon DEF FollowsInv
  <2>5. QED
      BY <1>0, <1>1, <2>1, <2>3, <2>4, Zenon DEF FollowsInv
<1>5. QED
    BY <1>3, <1>4, Zenon

(* A deleted file: the unit is to be unloaded.                              *)
LEMMA LibraryUnloadsFollows ==
    ASSUME LibraryInv, FollowsInv, LibraryUnloads
    PROVE  FollowsInv'
<1> DEFINE v == Head(queue).unit
<1>0. /\ queue # <<>> /\ Head(queue).kind = "UnloadStarted" /\ queue' = Tail(queue)
      /\ disk' = disk /\ loaded' = loaded /\ described' = described
      /\ dirty' = dirty \cup {v} /\ status' = [status EXCEPT ![v] = "UnloadStarted"]
    BY Zenon DEF LibraryUnloads, managerVars
<1>1. /\ v \in Unit /\ NewsAreTrue(queue', disk')
      /\ \A u : u # v /\ Pending(queue, u) => Pending(queue', u)
      /\ ~Pending(queue', v) => disk[v] = "absent"
  <2>1. Head(queue).kind \in Request
      BY <1>0, Zenon DEF Request
  <2>2. QED
      BY <1>0, <2>1, RequestTaken, Zenon
<1>2. status \in [Unit -> Status] /\ loaded \subseteq Unit /\ Free \subseteq Unit
    BY LoadedUnits, Zenon DEF LibraryInv, TablesOK, Free, Unit
<1> HIDE DEF v
<1>3. status'[v] = "UnloadStarted" /\ \A u \in Unit : u # v => status'[u] = status[u]
    BY <1>0, <1>1, <1>2, Zenon
<1>4. \A u \in Unit : ~Pending(queue', u) /\ status'[u] \in Loadable
        => disk'[u] # "absent" /\ (u \in Test \/ disk'[u] = "good")
  <2> SUFFICES ASSUME NEW u \in Unit, ~Pending(queue', u), status'[u] \in Loadable
               PROVE  disk'[u] # "absent" /\ (u \in Test \/ disk'[u] = "good")
      BY Zenon
  <2>1. u # v
      BY <1>3, Zenon DEF Loadable
  <2>2. ~Pending(queue, u) /\ status[u] \in Loadable
      BY <1>1, <1>3, <2>1, Zenon
  <2>3. QED
      BY <1>0, <2>2, Zenon DEF FollowsInv
<1>5. \A u \in loaded' \ dirty' : status'[u] \in Loadable
    BY <1>0, <1>2, <1>3, Zenon DEF FollowsInv
<1>6. \A u \in Free : ~Pending(queue', u) /\ disk'[u] = "good"
        => u \in described' /\ status'[u] \in Loadable /\ u \in dirty' \cup loaded'
  <2> SUFFICES ASSUME NEW u \in Free, ~Pending(queue', u), disk'[u] = "good"
               PROVE  u \in described' /\ status'[u] \in Loadable /\ u \in dirty' \cup loaded'
      BY Zenon
  <2>1. u # v
      BY <1>0, <1>1, Zenon
  <2>2. ~Pending(queue, u) /\ status'[u] = status[u]
      BY <1>1, <1>2, <1>3, <2>1, Zenon
  <2>3. QED
      BY <1>0, <2>2, Zenon DEF FollowsInv
<1>7. QED
    BY <1>1, <1>4, <1>5, <1>6, Zenon DEF FollowsInv

(* A rescan loads the free units that are to be loaded, and keeps loaded    *)
(* only what has a status to load.                                          *)
LEMMA RescanFollows ==
    ASSUME LibraryInv, FollowsInv, Rescan
    PROVE  FollowsInv'
<1>1. PICK refused \in SUBSET (Reloaded \cap Jig) :
          /\ described' = described \ Deleted
          /\ loaded' = LoadedBy(refused)
          /\ status' = [u \in Unit |->
                IF u \in Deleted THEN "Unknown"
                ELSE IF u \in Reloaded \ LoadedBy(refused) THEN "LoadFailed"
                ELSE status[u]]
          /\ dirty' = {} /\ disk' = disk /\ queue' = queue
    BY AffectedUnits, Zenon DEF Rescan
<1> DEFINE L == LoadedBy(refused)
<1>0. /\ L \subseteq Unit /\ L \cap Deleted = {}
      /\ \A u \in L : u \notin Reloaded => u \in loaded \ Affected
      /\ loaded \subseteq Unit /\ Free \subseteq Unit
    BY LoadedByUnits, LoadedUnits, Zenon DEF LibraryInv, TablesOK, Free, Unit
<1>2. \A u \in Reloaded : status[u] \in Loadable
    BY AffectedUnits, Zenon DEF Unexpected, Loadable
<1>3. \A u \in Unit : Pending(queue', u) <=> Pending(queue, u)
    BY <1>1, Zenon DEF Pending
<1>4. \A u \in Unit : status'[u] \in Loadable => status'[u] = status[u]
    BY <1>1, Zenon DEF Loadable
<1>5. \A u \in L : status'[u] = status[u]
    BY <1>0, <1>1, Zenon
<1> HIDE DEF L
<1>6. \A u \in loaded' \ dirty' : status'[u] \in Loadable
  <2> SUFFICES ASSUME NEW u \in L PROVE status[u] \in Loadable
      BY <1>1, <1>5, Zenon DEF L
  <2>1. CASE u \in Reloaded
      BY <1>2, <2>1, Zenon
  <2>2. CASE u \notin Reloaded
    <3>1. u \in loaded \ dirty
        BY <1>0, <2>2, Zenon DEF Affected
    <3>2. QED
        BY <3>1, Zenon DEF FollowsInv
  <2>3. QED
      BY <2>1, <2>2, Zenon
<1>7. \A u \in Free : ~Pending(queue', u) /\ disk'[u] = "good"
        => u \in described' /\ status'[u] \in Loadable /\ u \in dirty' \cup loaded'
  <2> SUFFICES ASSUME NEW u \in Free, ~Pending(queue', u), disk'[u] = "good"
               PROVE  u \in described' /\ status'[u] \in Loadable /\ u \in loaded'
      BY <1>1, Zenon
  <2>1. u \in described /\ status[u] \in Loadable /\ u \in dirty \cup loaded
      BY <1>0, <1>1, <1>3, Zenon DEF FollowsInv
  <2>2. u \notin Deleted
      BY <2>1, Zenon DEF Deleted, Loadable
  <2>3. u \in L
    <3>1. CASE u \in Affected
      <4>1. u \in Reloaded
          BY <2>1, <2>2, <3>1, Zenon DEF Reloaded
      <4>2. \A S : Fits(u, S)
          BY Zenon DEF Fits, Free
      <4>3. u \in Scenario => TestsOf[u] = {}
          BY ManagerAssumption, Zenon DEF Free
      <4>4. QED
          BY <4>1, <4>2, <4>3, Zenon DEF L, LoadedBy, Free
    <3>2. CASE u \notin Affected
      <4>1. u \in loaded \ (Deleted \cup Reloaded)
          BY <2>1, <3>2, Zenon DEF Affected, Deleted, Reloaded
      <4>2. QED
          BY <4>1, KeptStayLoaded, Zenon DEF L
    <3>3. QED
        BY <3>1, <3>2, Zenon
  <2>4. QED
      BY <1>1, <1>5, <2>1, <2>2, <2>3, Zenon DEF L
<1>8. \A u \in Unit : ~Pending(queue', u) /\ status'[u] \in Loadable
        => disk'[u] # "absent" /\ (u \in Test \/ disk'[u] = "good")
    BY <1>1, <1>3, <1>4, Zenon DEF FollowsInv
<1>9. NewsAreTrue(queue', disk')
    BY <1>1, Zenon DEF FollowsInv
<1>10. QED
    BY <1>6, <1>7, <1>8, <1>9, Zenon DEF FollowsInv

(* Every step preserves the invariant.                                      *)
LEMMA FollowsInvStep ==
    ASSUME LibraryInv, FollowsInv, [Next]_vars
    PROVE  FollowsInv'
<1>1. CASE \E u \in Unit : FileChanges(u)
    BY <1>1, FileChangesFollows, Zenon
<1>2. CASE LoaderHandles
    BY <1>2, LoaderHandlesFollows, Zenon
<1>3. CASE LibraryParses
    BY <1>3, LibraryParsesFollows, Zenon
<1>4. CASE LibraryUnloads
    BY <1>4, LibraryUnloadsFollows, Zenon
<1>5. CASE Rescan
    BY <1>5, RescanFollows, Zenon
<1>6. ASSUME UNCHANGED <<disk, queue, libraryVars, loaded>>
      PROVE  FollowsInv'
    BY <1>6, Zenon DEF FollowsInv, Pending, libraryVars
<1>7. CASE ManagerStep \/ UNCHANGED vars
    BY <1>6, <1>7, ManagerStepLeaves, Zenon DEF vars, managerVars
<1>8. QED
    BY <1>1, <1>2, <1>3, <1>4, <1>5, <1>7, NextCases, Zenon

(* At start-up every file is in the listing.                                *)
LEMMA FollowsInvInit == Init => FollowsInv
<1> SUFFICES ASSUME Init PROVE FollowsInv
    BY Zenon
<1>1. PICK listing \in Listings :
          /\ disk = [u \in Unit |-> IF u \in Range(listing) THEN "good" ELSE "absent"]
          /\ queue = [n \in 1 .. Len(listing) |-> [unit |-> listing[n], kind |-> "Added"]]
    BY Zenon DEF Init
<1>2. listing \in Seq(Unit) /\ Len(listing) \in Nat /\ DOMAIN listing = 1 .. Len(listing)
    BY LibraryAssumption
<1>3. Len(queue) = Len(listing)
    BY <1>1, <1>2
<1>4. \A n \in 1 .. Len(queue) : queue[n].unit = listing[n] /\ queue[n].kind = "Added"
    BY <1>1, <1>3, Zenon
<1>5. \A n \in 1 .. Len(listing) : disk[listing[n]] = "good"
    BY <1>1, <1>2 DEF Range
<1>6. NewsAreTrue(queue, disk)
    BY <1>3, <1>4, <1>5, Zenon DEF NewsAreTrue
<1>7. \A u \in Unit : status[u] \notin Loadable
    BY Zenon DEF Init, Loadable
<1>8. \A u \in Unit : disk[u] = "good" => Pending(queue, u)
    BY <1>1, <1>2, <1>3, <1>4, Zenon DEF Pending, Range
<1>9. QED
    BY <1>6, <1>7, <1>8, Zenon DEF Init, FollowsInv, Free, Unit

(* Once the changes are taken in, what is loaded is what the disk says.     *)
THEOREM LibraryAlwaysFollowsDisk == Spec => []LibraryFollowsDisk
<1>1. Spec => [](LibraryInv /\ FollowsInv)
    BY LibraryInvInit, LibraryInvStep, FollowsInvInit, FollowsInvStep, PTL DEF Spec
<1>2. LibraryInv /\ FollowsInv => LibraryFollowsDisk
  <2> SUFFICES ASSUME LibraryInv, FollowsInv, Settled PROVE LibraryFollowsDisk
      BY Zenon DEF LibraryFollowsDisk
  <2>1. \A u : ~Pending(queue, u)
      BY DEF Settled, Pending
  <2>2. \A u \in loaded : disk[u] # "absent" /\ (u \in Test \/ disk[u] = "good")
      BY <2>1, LoadedUnits, Zenon DEF FollowsInv, Settled
  <2>3. \A u \in Free : disk[u] = "good" => u \in loaded
      BY <2>1, Zenon DEF FollowsInv, Settled
  <2>4. QED
      BY <2>2, <2>3, Zenon DEF LibraryFollowsDisk, Free
<1>3. QED
    BY <1>1, <1>2, PTL
-----------------------------------------------------------------------------
(* The tests that may be selected although they are none of the current     *)
(* scenario's: those named by a START, and those of a scenario that was.    *)
Strays == started \cup TestsStarted

Consistent == ManagerInv(manager, loaded, Strays)

(* The inductive invariant: what the manager's operations preserve, for the *)
(* units that are loaded, and the rest of the state in its type.            *)
SelectionInv ==
    /\ LibraryInv
    /\ Consistent
    /\ JigChosen
    /\ asked \subseteq Interface \cup Trigger
    /\ started \subseteq Scenario \cup Test
    /\ reports \in 0 .. MaxReports
    /\ panicked \in {"no", "status", "client"}

(* What a step of the main thread other than a rescan does to the defaults. *)
DefaultsStay ==
    /\ manager'.jig = None => manager.jig = None
    /\ manager'.jig = manager.jig /\ manager'.scenario = None => manager.scenario = None

(* The tests of the loaded scenarios are loaded.                            *)
LEMMA LoadedTests ==
    ASSUME LibraryInv
    PROVE  TestsLoaded(loaded)
BY Zenon DEF LibraryInv, LoadedUnitsFit, TestsLoaded

(* A rescan does not change whether a loaded test suits the jigs, unless it *)
(* touches the test: else it would touch none of its jigs either.           *)
LEMMA UntouchedTest ==
    ASSUME LibraryInv, NEW refused, NEW t \in loaded \cap Test, t \notin Affected
    PROVE  Fits(t, loaded) <=> Fits(t, LoadedBy(refused))
<1>1. t \in described /\ t \in Unit
    BY Zenon DEF LibraryInv, LoadedAreDescribed, TablesOK
<1>2. Jigs[t] \subseteq Jig /\ Jigs[t] \cap dirty = {}
    BY <1>1, ManagerAssumption, Zenon DEF Affected, JigDependents
<1>3. ASSUME NEW j \in Jigs[t]
      PROVE  j \in loaded <=> j \in LoadedBy(refused)
  <2>1. j \in Jig /\ j \notin dirty /\ Jigs[j] = {}
      BY <1>2, ManagerAssumption, Zenon
  <2>2. j \notin Affected
      BY <2>1, ManagerAssumption, Zenon DEF Affected, JigDependents, TestDependents
  <2>3. j \notin Reloaded
      BY <2>2, Zenon DEF Reloaded
  <2>4. QED
      BY <2>1, <2>2, <2>3, LoadedByKeeps, LoadedByUnits, Zenon
<1>4. QED
    BY <1>3, Zenon DEF Fits

(* A scenario that a rescan does not touch has no test that it touches.     *)
LEMMA UntouchedScenario ==
    ASSUME LibraryInv, NEW s \in loaded \cap Scenario, s \notin Deleted \cup Reloaded,
           NEW t \in TestsOf[s]
    PROVE  t \in loaded \cap Test /\ t \notin Affected
<1>1. s \notin Affected
    BY AffectedUnits, Zenon
<1>2. t \in Test /\ t \in loaded
    BY ManagerAssumption, Zenon DEF LibraryInv, LoadedUnitsFit
<1>3. t \notin dirty \cup JigDependents
    BY <1>1, <1>2, Zenon DEF Affected, TestDependents
<1>4. QED
    BY <1>2, <1>3, ManagerAssumption, Zenon DEF Affected, TestDependents

(* A step leaves the manager consistent if it does for what is loaded and   *)
(* started then.                                                            *)
LEMMA ConsistentAfter ==
    ASSUME ManagerInv(manager', loaded', Strays')
    PROVE  Consistent'
BY Zenon DEF Consistent, ManagerInv, OneJig, OneScenario, Chosen, ProcessesUsed, Fits, Strays,
             TestsStarted

(* A rescan leaves the manager consistent with what is loaded then, a jig   *)
(* and a scenario current if there are any, and no dirty client active      *)
(* without a new process.                                                   *)
LEMMA RescanSettles ==
    ASSUME LibraryInv, Consistent, Rescan
    PROVE  /\ Consistent'
           /\ JigChosen' /\ ScenarioChosen'
           /\ UNCHANGED panicked
           /\ manager'.active \cap Client \cap dirty \subseteq manager'.process
<1>1. PICK refused \in SUBSET (Reloaded \cap Jig),
           failing \in SUBSET (manager.process \cap (Deleted \cup Reloaded)) :
          /\ loaded' = LoadedBy(refused)
          /\ Settle(Unload(manager, Deleted \cup Reloaded, failing),
                    Reloaded \cap LoadedBy(refused), LoadedBy(refused))
          /\ UNCHANGED panicked
    BY AffectedUnits, Zenon DEF Rescan
<1> DEFINE L == LoadedBy(refused)
           gone == Deleted \cup Reloaded
           m == Unload(manager, gone, failing)
<1>2. L \in SUBSET Unit /\ TestsLoaded(L)
    BY LoadedByUnits, LoadedByFits, Zenon DEF LibraryInv, TablesOK, TestsLoaded
<1>3. gone \in SUBSET Unit /\ gone \subseteq Affected /\ loaded \cap Affected \subseteq gone
    BY AffectedUnits, Zenon DEF Deleted, Reloaded, Known
<1>4. ManagerInv(m, L, Strays) /\ NoneSelected(m, gone)
  <2>1. failing \in SUBSET Client
      BY Zenon DEF Consistent, ManagerInv, ManagerTables
  <2>2. loaded \ gone \subseteq L
      BY KeptStayLoaded, Zenon
  <2>3. \A t \in (loaded \cap Test) \ gone : Fits(t, loaded) <=> Fits(t, L)
      BY <1>3, UntouchedTest, Zenon
  <2>4. \A s \in (loaded \cap Scenario) \ gone : \A t \in TestsOf[s] :
           t \in (loaded \cap Test) \ gone
      BY <1>3, UntouchedScenario, Zenon
  <2>5. LeavesTheRest(loaded, gone, L)
      BY <2>2, <2>3, <2>4, Zenon DEF LeavesTheRest
  <2>6. ManagerInv(manager, loaded, Strays) /\ loaded \in SUBSET Unit
      BY LoadedUnits, Zenon DEF Consistent
  <2> HIDE DEF L, gone
  <2>7. QED
      BY <1>2, <1>3, <2>1, <2>5, <2>6, UnloadKeeps, Zenon
<1>5. /\ ManagerInv(manager', L, Strays)
      /\ manager'.jig = None => L \cap Jig = {}
      /\ manager'.scenario = None => L \cap Scenario = {}
      /\ manager'.active \cap Client \subseteq (m.active \cap Client) \cup manager'.process
  <2>1. Reloaded \cap L \in SUBSET L
      BY Zenon
  <2>2. Settle(m, Reloaded \cap L, L)
      BY <1>1, Zenon
  <2> HIDE DEF L, m
  <2>3. QED
      BY <1>2, <1>4, <2>1, <2>2, SettleKeeps, Zenon
<1>6. Consistent' /\ JigChosen' /\ ScenarioChosen'
  <2>1. loaded' = L /\ Strays' = Strays
      BY <1>1, Zenon DEF Rescan, Strays, TestsStarted
  <2> HIDE DEF L
  <2>2. Consistent'
      BY <1>5, <2>1, ConsistentAfter, Zenon
  <2>3. QED
      BY <1>5, <2>1, <2>2, Zenon DEF JigChosen, ScenarioChosen
<1>7. ASSUME NEW c \in manager'.active \cap Client \cap dirty
      PROVE  c \in manager'.process
  <2>1. c \in L
      BY <1>5, Zenon DEF ManagerInv, ProcessesUsed
  <2>2. c \in described /\ c \in Affected
      BY <2>1, LoadedByUnits, Zenon DEF Affected
  <2>3. c \in gone
      BY <2>2, Zenon DEF Reloaded
  <2>4. c \notin m.active
      BY <1>4, <2>3, Zenon DEF ManagerInv, ProcessesUsed, NoneSelected
  <2>5. QED
      BY <1>5, <2>4, Zenon
<1>8. QED
    BY <1>1, <1>6, <1>7, Zenon

(* Listeners that cannot be told are deactivated, and nothing else changes. *)
LEMMA TellsKeeps ==
    ASSUME NEW units \in SUBSET Unit, NEW free, NEW m, ManagerInv(m, units, free),
           NEW listeners, Tells(m, listeners)
    PROVE  /\ ManagerInv(manager', units, free)
           /\ manager'.jig = m.jig /\ manager'.scenario = m.scenario
<1>1. PICK broken, failing : manager' = Deactivate(m, broken, failing)
    BY Zenon DEF Tells
<1>2. QED
    BY <1>1, DeactivateKeeps DEF Deactivated

(* A START: whatever unit it names, the manager is left consistent, with    *)
(* the tests it names, or that its scenario has, among those that may stray. *)
LEMMA StartSettles ==
    ASSUME LibraryInv, Consistent, loaded' = loaded, NEW name \in Unit \cup {None}, Start(name)
    PROVE  Consistent' /\ DefaultsStay
<1> DEFINE u == IF name = None THEN manager.scenario ELSE name
<1>0. /\ loaded \in SUBSET Unit /\ TestsLoaded(loaded) /\ ManagerInv(manager, loaded, Strays)
      /\ u \in Unit \cup {None}
  <2>1. manager.scenario \in Scenario \cup {None} /\ Scenario \subseteq Unit
      BY TableFields, Zenon DEF Consistent, ManagerInv, Unit
  <2>2. QED
      BY <2>1, LoadedUnits, LoadedTests, Zenon DEF Consistent
<1>1. CASE manager' = manager /\ started' = started
  <2>1. Strays' = Strays
      BY <1>1, Zenon DEF Strays, TestsStarted
  <2>2. QED
      BY <1>0, <1>1, <2>1, ConsistentAfter, Zenon DEF DefaultsStay
<1>2. CASE /\ u # None
           /\ \E up \in BOOLEAN : Tells(ActivateUnit(manager, u, loaded, up), Interfaces)
           /\ started' = started \cup ({u} \cap (Scenario \cup Test))
  <2>1. PICK up \in BOOLEAN : Tells(ActivateUnit(manager, u, loaded, up), Interfaces)
      BY <1>2, Zenon
  <2>2. u \in Unit /\ (u \in Test => u \in Strays') /\ Strays \subseteq Strays'
      BY <1>0, <1>2, Zenon DEF Strays, TestsStarted
  <2> HIDE DEF u
  <2> DEFINE free == Strays'
             r == ActivateUnit(manager, u, loaded, up)
  <2> HIDE DEF free
  <2>3. ManagerInv(manager, loaded, free) /\ (u \in Test => u \in free)
      BY <1>0, <2>2, MoreMayStray, Zenon DEF free
  <2>4. /\ ManagerInv(r, loaded, free)
        /\ r.jig = None => manager.jig = None
        /\ r.jig = manager.jig /\ r.scenario = None => manager.scenario = None
      BY <1>0, <2>2, <2>3, ActivateUnitKeeps
  <2> HIDE DEF r
  <2>5. /\ ManagerInv(manager', loaded, free)
        /\ manager'.jig = r.jig /\ manager'.scenario = r.scenario
      BY <1>0, <2>1, <2>4, TellsKeeps, Zenon DEF r
  <2>6. Consistent'
      BY <2>5, ConsistentAfter, Zenon DEF free
  <2>7. QED
      BY <2>4, <2>5, <2>6, Zenon DEF DefaultsStay
<1>3. QED
    BY <1>1, <1>2, Zenon DEF Start

(* Every step of the main thread other than a rescan leaves the manager     *)
(* consistent, and the defaults chosen unless it changes the jig.           *)
LEMMA ManagerStepSettles ==
    ASSUME LibraryInv, Consistent, ManagerStep
    PROVE  Consistent' /\ DefaultsStay
<1>0. /\ loaded \in SUBSET Unit /\ TestsLoaded(loaded) /\ ManagerInv(manager, loaded, Strays)
      /\ loaded' = loaded
    BY LoadedUnits, LoadedTests, ManagerStepLeaves, Zenon DEF Consistent
<1>a. ASSUME ManagerInv(manager', loaded, Strays), started' = started
      PROVE  Consistent'
  <2>1. Strays' = Strays
      BY <1>a, Zenon DEF Strays, TestsStarted
  <2>2. QED
      BY <1>0, <1>a, <2>1, ConsistentAfter, Zenon
<1>b. ASSUME NEW listeners, Tells(manager, listeners), started' = started
      PROVE  Consistent' /\ DefaultsStay
    BY <1>0, <1>a, <1>b, TellsKeeps, Zenon DEF DefaultsStay
<1>c. ASSUME manager' = manager, started' = started
      PROVE  Consistent' /\ DefaultsStay
    BY <1>0, <1>a, <1>c, Zenon DEF DefaultsStay
<1>1. ASSUME NEW c, ClientAsks(c) PROVE Consistent' /\ DefaultsStay
    BY <1>1, <1>c, Zenon DEF ClientAsks, managerVars
<1>2. ASSUME NEW i, AnswerRequest(i) PROVE Consistent' /\ DefaultsStay
    BY <1>2, <1>b, <1>c, Zenon DEF AnswerRequest
<1>3. ASSUME NEW i, NEW s \in Scenario, ScenarioRequest(i, s) PROVE Consistent' /\ DefaultsStay
  <2>1. CASE s \notin loaded
      BY <1>3, <1>c, <2>1, Zenon DEF ScenarioRequest
  <2>2. CASE s \in loaded
    <3> DEFINE d == SelectScenario(manager, s, loaded)
    <3>1. ManagerInv(d, loaded, Strays) /\ d.jig = manager.jig /\ d.scenario = s
        BY <1>0, <2>2, SelectScenarioInv
    <3>2. Tells(d, Interfaces) /\ started' = started
        BY <1>3, <2>2, Zenon DEF ScenarioRequest
    <3> HIDE DEF d
    <3>3. /\ ManagerInv(manager', loaded, Strays)
          /\ manager'.jig = manager.jig /\ manager'.scenario = s
        BY <1>0, <3>1, <3>2, TellsKeeps, Zenon
    <3>4. s # None
        BY ManagerAssumption, Zenon DEF Unit
    <3>5. QED
        BY <1>a, <3>2, <3>3, <3>4, Zenon DEF DefaultsStay
  <2>3. QED
      BY <2>1, <2>2, Zenon
<1>4. ASSUME NEW c, NEW name \in Unit \cup {None}, StartRequest(c, name)
      PROVE  Consistent' /\ DefaultsStay
    BY <1>0, <1>4, StartSettles, Zenon DEF StartRequest
<1>5. CASE EnterKey
    BY <1>0, <1>5, StartSettles, Zenon DEF EnterKey
<1>6. ASSUME NEW t \in Test, StartTest(t) PROVE Consistent' /\ DefaultsStay
  <2>1. PICK up \in BOOLEAN : manager' = ActivateUnit(manager, t, loaded, up)
      BY <1>6, Zenon DEF StartTest
  <2>2. t \in Unit /\ t \in Strays /\ started' = started
      BY <1>6, Zenon DEF StartTest, Strays, Unit
  <2>3. /\ ManagerInv(manager', loaded, Strays)
        /\ manager'.jig = None => manager.jig = None
        /\ manager'.jig = manager.jig /\ manager'.scenario = None => manager.scenario = None
      BY <1>0, <2>1, <2>2, ActivateUnitKeeps
  <2>4. QED
      BY <1>a, <2>2, <2>3, Zenon DEF DefaultsStay
<1>7. ASSUME NEW u, StopTest(u) PROVE Consistent' /\ DefaultsStay
  <2>1. manager' = Deactivate(manager, {u}, {}) /\ started' = started
      BY <1>7, Zenon DEF StopTest
  <2>2. ManagerInv(manager', loaded, Strays) /\ Deactivated(manager, manager', {u}, {})
      BY <1>0, <2>1, DeactivateKeeps, Zenon
  <2>3. QED
      BY <1>a, <2>1, <2>2, Zenon DEF DefaultsStay, Deactivated
<1>8. CASE LogEntry
    BY <1>8, <1>b, Zenon DEF LogEntry
<1>9. QED
    BY <1>1, <1>2, <1>3, <1>4, <1>5, <1>6, <1>7, <1>8, Zenon DEF ManagerStep

(* The rest of the state stays in its type.                                 *)
LEMMA OtherTypes ==
    ASSUME SelectionInv, [Next]_vars
    PROVE  /\ asked' \subseteq Interface \cup Trigger /\ started' \subseteq Scenario \cup Test
           /\ reports' \in 0 .. MaxReports /\ panicked' \in {"no", "status", "client"}
<1>1. CASE \E u \in Unit : FileChanges(u)
    BY <1>1, LibraryAssumption DEF SelectionInv, FileChanges
<1>2. CASE LoaderHandles \/ LibraryParses \/ LibraryUnloads \/ UNCHANGED vars
    BY <1>2, Zenon DEF SelectionInv, LoaderHandles, LibraryParses, LibraryUnloads, vars
<1>3. CASE Rescan
    BY <1>3, Zenon DEF SelectionInv, Rescan
<1>4. CASE ManagerStep
  <2>1. reports' = reports /\ panicked' \in {"no", "status", "client"}
      BY <1>4, ManagerStepLeaves, Zenon DEF SelectionInv
  <2>2. asked' \subseteq Interface \cup Trigger
      BY <1>4, Zenon DEF SelectionInv, ManagerStep, ClientAsks, Takes, AnswerRequest,
             ScenarioRequest, StartRequest, EnterKey, StartTest, StopTest, LogEntry
  <2>3. started' \subseteq Scenario \cup Test
      BY <1>4, Zenon DEF SelectionInv, ManagerStep, ClientAsks, AnswerRequest,
             ScenarioRequest, StartRequest, EnterKey, StartTest, StopTest, LogEntry, Start
  <2>4. QED
      BY <2>1, <2>2, <2>3, Zenon DEF SelectionInv
<1>5. QED
    BY <1>1, <1>2, <1>3, <1>4, NextCases, Zenon

(* Every step preserves the invariant; and what it does to the defaults.    *)
LEMMA SelectionInvStep ==
    ASSUME SelectionInv, [Next]_vars
    PROVE  /\ SelectionInv'
           /\ dirty # {} /\ dirty' = {} => ScenarioChosen'
           /\ ScenarioChosen /\ manager'.jig = manager.jig => ScenarioChosen'
<1>0. LibraryInv /\ LibraryInv' /\ Consistent /\ JigChosen
    BY LibraryInvStep, Zenon DEF SelectionInv
<1>1. CASE Rescan
  <2>1. Consistent' /\ JigChosen' /\ ScenarioChosen'
      BY <1>0, <1>1, RescanSettles, Zenon
  <2>2. QED
      BY <1>0, <2>1, OtherTypes, Zenon DEF SelectionInv
<1>2. CASE ManagerStep
  <2>1. Consistent' /\ DefaultsStay /\ loaded' = loaded /\ dirty' = dirty
      BY <1>0, <1>2, ManagerStepSettles, ManagerStepLeaves, Zenon DEF libraryVars
  <2>2. JigChosen' /\ (ScenarioChosen /\ manager'.jig = manager.jig => ScenarioChosen')
      BY <1>0, <2>1, Zenon DEF DefaultsStay, JigChosen, ScenarioChosen
  <2>3. QED
      BY <1>0, <2>1, <2>2, OtherTypes, Zenon DEF SelectionInv
<1>3. CASE \/ \E u \in Unit : FileChanges(u)
           \/ LoaderHandles \/ LibraryParses \/ LibraryUnloads \/ UNCHANGED vars
  <2>1. UNCHANGED <<manager, loaded, started>>
      BY <1>3, Zenon DEF FileChanges, LoaderHandles, LibraryParses, LibraryUnloads, vars, managerVars
  <2>2. dirty \subseteq dirty'
      BY <1>3, Zenon DEF FileChanges, LoaderHandles, LibraryParses, LibraryUnloads, vars, libraryVars
  <2>3. Consistent' /\ JigChosen' /\ (ScenarioChosen => ScenarioChosen')
      BY <1>0, <2>1, Zenon DEF Consistent, Strays, TestsStarted, JigChosen, ScenarioChosen,
             ManagerInv, OneJig, OneScenario, Chosen, ProcessesUsed, Fits
  <2>4. QED
      BY <1>0, <2>2, <2>3, OtherTypes, Zenon DEF SelectionInv
<1>4. QED
    BY <1>1, <1>2, <1>3, NextCases, Zenon

(* The invariant holds of a new manager.                                    *)
LEMMA SelectionInvInit == Init => SelectionInv
<1> SUFFICES ASSUME Init PROVE SelectionInv
    BY Zenon
<1>1. manager = NewManager /\ loaded = {} /\ asked = {} /\ started = {} /\ panicked = "no"
    BY Zenon DEF Init
<1>2. Consistent
    BY <1>1, Zenon DEF Consistent, NewManager, ManagerInv, ManagerTables, OneJig, OneScenario,
                       Chosen, ProcessesUsed
<1>3. JigChosen /\ asked \subseteq Interface \cup Trigger /\ started \subseteq Scenario \cup Test
    BY <1>1, Zenon DEF JigChosen
<1>4. reports \in 0 .. MaxReports
  <2>1. PICK listing \in Listings : reports = Len(listing)
      BY Zenon DEF Init
  <2>2. listing \in Seq(Unit) /\ Len(listing) <= MaxReports /\ MaxReports \in Nat
      BY LibraryAssumption, Zenon
  <2>3. QED
      BY <2>1, <2>2
<1>5. QED
    BY <1>1, <1>2, <1>3, <1>4, LibraryInvInit, Zenon DEF SelectionInv

(* The manager's tables are consistent with the loaded units at all times,  *)
(* whatever is loaded, unloaded, selected and started.                      *)
THEOREM SelectionStaysConsistent == Spec => []SelectionInv
BY SelectionInvInit, SelectionInvStep, PTL DEF Spec

(* Every table holds what its type says.                                    *)
THEOREM LibraryTypes == Spec => []TypeOK
<1>1. SelectionInv => TypeOK
    BY Zenon DEF SelectionInv, TypeOK, LibraryInv, TablesOK, Consistent, ManagerInv,
           LoadedAreDescribed, ScenariosAreFresh
<1>2. QED
    BY <1>1, SelectionStaysConsistent, PTL

(* No process outlives its unit: whether or not clients can be terminated,  *)
(* a client with a process is active, selected and loaded.                  *)
THEOREM ProcessesAlwaysBelong == Spec => []ProcessesBelongToLoaded
<1>1. SelectionInv => ProcessesBelongToLoaded
    BY Zenon DEF SelectionInv, Consistent, ManagerInv, ProcessesUsed, ProcessesBelongToLoaded
<1>2. QED
    BY <1>1, SelectionStaysConsistent, PTL

(* One jig, one scenario and its suitable tests are selected, whatever is   *)
(* loaded, unloaded, selected and started; and a test of no other scenario  *)
(* than those that a START was accepted for, or that a START named.         *)
THEOREM SelectionAlwaysCurrent == Spec => []SelectionIsCurrent
<1>1. SelectionInv => SelectionIsCurrent
    BY Zenon DEF SelectionInv, Consistent, ManagerInv, OneJig, OneScenario, Chosen, Strays,
           SelectionIsCurrent
<1>2. QED
    BY <1>1, SelectionStaysConsistent, PTL

(* A jig is current whenever one is loaded; a rescan leaves a scenario      *)
(* current if one is loaded, and only a change of the jig takes it away.    *)
THEOREM DefaultsAlwaysChosen == Spec => DefaultsChosen
<1>1. SelectionInv /\ [Next]_vars
      => [/\ JigChosen'
          /\ dirty # {} /\ dirty' = {} => ScenarioChosen'
          /\ ScenarioChosen /\ manager'.jig = manager.jig => ScenarioChosen']_vars
    BY SelectionInvStep, Zenon DEF SelectionInv
<1>2. QED
    BY <1>1, SelectionStaysConsistent, PTL DEF Spec, DefaultsChosen

(* A client that a rescan loads again is started again, or is not active.   *)
THEOREM ReloadAlwaysRestarts == Spec => ReloadRestarts
<1>1. ASSUME SelectionInv, [Next]_vars, NEW c \in Client,
             c \in dirty, c \notin dirty', c \in manager'.active
      PROVE  c \in manager'.process
  <2>1. ~ManagerStep
      BY <1>1, ManagerStepLeaves, Zenon DEF libraryVars
  <2>2. Rescan
      BY <1>1, <2>1, NextCases, Zenon DEF vars, FileChanges, LoaderHandles, LibraryParses,
                  LibraryUnloads, libraryVars
  <2>3. QED
      BY <1>1, <2>2, RescanSettles, Zenon DEF SelectionInv
<1>2. SelectionInv /\ [Next]_vars
      => [\A c \in Client : c \in dirty /\ c \notin dirty' /\ c \in manager'.active
            => c \in manager'.process]_vars
    BY <1>1, Zenon
<1>3. QED
    BY <1>2, SelectionStaysConsistent, PTL DEF Spec, ReloadRestarts
=============================================================================
