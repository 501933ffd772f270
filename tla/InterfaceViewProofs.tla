------------------------- MODULE InterfaceViewProofs -------------------------
(***************************************************************************)
(* The proof that what an interface believes is current or about to be     *)
(* corrected (StaleIsAnnounced), for any sets of units and interfaces, any *)
(* number of rescans that change any units, and any number of requests.    *)
(***************************************************************************)
EXTENDS InterfaceView, FiniteSetTheorems, WellFoundedInduction, TLAPS

-----------------------------------------------------------------------------
(***************************************************************************)
(* What is needed of the manager's tables: the current jig and the current *)
(* scenario are loaded and selected, and a process belongs to an active,   *)
(* loaded client.                                                          *)
(***************************************************************************)

(* A set of natural numbers with 0 and with every successor is all of them. *)
LEMMA NatSetInduction ==
    ASSUME NEW S \in SUBSET Nat, 0 \in S, \A n \in S : n + 1 \in S
    PROVE  S = Nat
<1> DEFINE R == {ss \in Nat \X Nat : ss[1] < ss[2]}
           T == Nat \ S
<1>1. IsWellFoundedOn(R, Nat)
    BY NatLessThanWellFounded, Zenon DEF OpToRel
<1>2. SUFFICES ASSUME T # {} PROVE FALSE
    BY Zenon
<1>3. PICK x \in T : \A y \in T : ~(<<y, x>> \in R)
  <2>1. T \subseteq Nat
      BY Zenon
  <2> HIDE DEF R, T
  <2>2. QED
      BY <1>1, <1>2, <2>1, WFMin, Zenon
<1>4. x - 1 \in Nat /\ x - 1 < x
    OBVIOUS
<1>5. <<x - 1, x>> \in R
    BY <1>4, Zenon
<1>6. x - 1 \in S
    BY <1>3, <1>4, <1>5, Zenon
<1>7. QED
    BY <1>6

JigTable(m, units) == m.jig = None \/ m.jig \in units \cap m.selected

ScenarioTable(m, units) == m.scenario = None \/ m.scenario \in units \cap m.selected

ProcessTable(m, units) == m.process \subseteq m.active \cap units

Tables(m, units) ==
    /\ m \in ManagerTables
    /\ JigTable(m, units)
    /\ ScenarioTable(m, units)
    /\ ProcessTable(m, units)

(* The selected units that no operation on scenarios touches.               *)
Rest(m) == m.selected \ (Scenario \cup Test)

(* The fields of the tables.                                                *)
LEMMA TableFields ==
    ASSUME NEW m \in ManagerTables
    PROVE  /\ m.jig \in Jig \cup {None} /\ m.scenario \in Scenario \cup {None}
           /\ m.selected \subseteq Unit /\ None \notin m.selected
           /\ m.active \subseteq Unit /\ m.process \subseteq Client
<1>1. /\ m.jig \in Jig \cup {None} /\ m.scenario \in Scenario \cup {None}
      /\ m.selected \subseteq Unit /\ m.active \subseteq Unit /\ m.process \subseteq Client
    BY Zenon DEF ManagerTables
<1>2. None \notin m.selected
    BY <1>1, ManagerAssumption, Zenon
<1>3. QED
    BY <1>1, <1>2, Zenon

(* deselect of a scenario: the current one is gone or stays as it is.       *)
LEMMA DeselectScenarioKeeps ==
    ASSUME NEW units \in SUBSET Unit, NEW m \in ManagerTables, ScenarioTable(m, units),
           NEW s \in Scenario \cup {None}
    PROVE  LET d == DeselectScenario(m, s)
           IN  /\ d \in ManagerTables
               /\ ScenarioTable(d, units)
               /\ Rest(d) = Rest(m)
               /\ d.active \cap Client = m.active \cap Client
               /\ d.jig = m.jig /\ d.process = m.process
               /\ d.scenario \in {m.scenario, None}
               /\ s = m.scenario => d.scenario = None
<1> DEFINE d == DeselectScenario(m, s)
           current == s \in m.selected /\ m.scenario = s
           left == {s} \cup IF current THEN TestsOf[s] ELSE {}
<1>0. /\ m.scenario \in Scenario \cup {None} /\ m.selected \subseteq Unit /\ None \notin m.selected
      /\ None \notin Unit
    BY TableFields, ManagerAssumption, Zenon
<1>1. d = [m EXCEPT !.scenario = IF current THEN None ELSE @,
                    !.selected = @ \ left, !.active = @ \ left]
    BY Zenon DEF DeselectScenario
<1>2. left \subseteq Scenario \cup Test \cup {None} /\ (~current => left = {s})
    BY <1>0, ManagerAssumption
<1> HIDE DEF left, current
<1>3. /\ d \in ManagerTables /\ d.selected = m.selected \ left /\ d.active = m.active \ left
      /\ d.scenario = IF current THEN None ELSE m.scenario
      /\ d.jig = m.jig /\ d.process = m.process
    BY <1>0, <1>1 DEF ManagerTables
<1> HIDE DEF d
<1>4. Rest(d) = Rest(m) /\ d.active \cap Client = m.active \cap Client
  <2>1. None \notin Client
      BY <1>0, Zenon DEF Unit
  <2>2. left \cap Client = {}
      BY <1>2, <2>1, ManagerAssumption
  <2>3. left \cap m.selected \subseteq Scenario \cup Test
      BY <1>0, <1>2, Zenon
  <2>4. QED
      BY <1>3, <2>2, <2>3, Zenon DEF Rest
<1>5. /\ ScenarioTable(d, units) /\ d.scenario \in {m.scenario, None}
      /\ s = m.scenario => d.scenario = None
  <2>1. CASE current
      BY <1>3, <2>1, Zenon DEF ScenarioTable
  <2>2. CASE ~current
    <3>1. m.scenario = None \/ m.scenario \in (units \cap m.selected) \ {s}
        BY <2>2, Zenon DEF ScenarioTable, current
    <3>2. QED
        BY <1>2, <1>3, <2>2, <3>1, Zenon DEF ScenarioTable
  <2>3. QED
      BY <2>1, <2>2, Zenon
<1>6. QED
    BY <1>3, <1>4, <1>5, Zenon DEF d

(* select of a scenario.                                                    *)
LEMMA SelectScenarioKeeps ==
    ASSUME NEW units \in SUBSET Unit, NEW m \in ManagerTables, ScenarioTable(m, units),
           NEW s \in Scenario \cup {None}
    PROVE  LET d == SelectScenario(m, s, units)
           IN  /\ d \in ManagerTables
               /\ ScenarioTable(d, units)
               /\ Rest(d) = Rest(m)
               /\ d.active \cap Client = m.active \cap Client
               /\ d.jig = m.jig /\ d.process = m.process
<1> DEFINE c == DeselectScenario(m, m.scenario)
           d == SelectScenario(m, s, units)
<1>1. CASE s \in m.selected \/ s \notin units
    BY <1>1, Zenon DEF SelectScenario
<1>2. CASE s \notin m.selected /\ s \in units
  <2>0. m.scenario \in Scenario \cup {None}
      BY TableFields, Zenon
  <2>1. /\ c \in ManagerTables /\ Rest(c) = Rest(m)
        /\ c.active \cap Client = m.active \cap Client
        /\ c.jig = m.jig /\ c.process = m.process
      BY <2>0, DeselectScenarioKeeps, Zenon
  <2> HIDE DEF c
  <2>2. s \in Scenario /\ TestsOf[s] \subseteq Test
      BY <1>2, ManagerAssumption, Zenon
  <2> DEFINE tests == {t \in TestsOf[s] \cap units : Fits(t, units)}
  <2>3. tests \subseteq Test /\ tests \subseteq Unit /\ s \in Unit
      BY <2>2, Zenon DEF Unit
  <2>4. d = [c EXCEPT !.scenario = s, !.selected = @ \cup {s} \cup tests]
      BY <1>2, Zenon DEF SelectScenario, c
  <2> HIDE DEF tests
  <2>5. /\ d \in ManagerTables /\ d.selected = c.selected \cup {s} \cup tests
        /\ d.scenario = s /\ d.jig = m.jig /\ d.active = c.active /\ d.process = m.process
      BY <2>1, <2>2, <2>3, <2>4, Zenon DEF ManagerTables
  <2> HIDE DEF d
  <2>6. ScenarioTable(d, units) /\ Rest(d) = Rest(m)
      BY <1>2, <2>1, <2>2, <2>3, <2>5, Zenon DEF ScenarioTable, Rest
  <2>7. QED
      BY <2>1, <2>5, <2>6, Zenon DEF d
<1>3. QED
    BY <1>1, <1>2, Zenon

(* deselect of the current jig.                                             *)
LEMMA DeselectJigKeeps ==
    ASSUME NEW units \in SUBSET Unit, NEW m \in ManagerTables, JigTable(m, units),
           ScenarioTable(m, units)
    PROVE  LET d == DeselectJig(m, m.jig)
           IN  /\ d \in ManagerTables
               /\ ScenarioTable(d, units)
               /\ d.jig = None /\ d.process = m.process
               /\ d.active \cap Client = m.active \cap Client
               /\ d.scenario \in {m.scenario, None}
<1> DEFINE d == DeselectJig(m, m.jig)
           j == m.jig
<1>0. j \in Jig \cup {None} /\ None \notin m.selected /\ j \notin Client /\ j \notin Scenario
    BY TableFields, ManagerAssumption, Zenon DEF Unit
<1>1. CASE j = None
  <2>1. d = [m EXCEPT !.active = @ \ {j}]
      BY <1>0, <1>1, Zenon DEF DeselectJig
  <2>2. /\ d \in ManagerTables /\ d.selected = m.selected /\ d.jig = None
        /\ d.active = m.active \ {j} /\ d.process = m.process /\ d.scenario = m.scenario
      BY <1>1, <2>1, Zenon DEF ManagerTables
  <2> HIDE DEF d
  <2>3. QED
      BY <1>0, <2>2, Zenon DEF ScenarioTable, d
<1>2. CASE j # None
  <2> DEFINE c == DeselectScenario(m, Default[j])
  <2>1. j \in Jig /\ j \in m.selected /\ Default[j] \in Scenario \cup {None}
      BY <1>0, <1>2, ManagerAssumption, Zenon DEF JigTable
  <2>2. /\ c \in ManagerTables /\ ScenarioTable(c, units)
        /\ c.active \cap Client = m.active \cap Client
        /\ c.process = m.process /\ c.scenario \in {m.scenario, None}
      BY <2>1, DeselectScenarioKeeps, Zenon
  <2>3. d = [c EXCEPT !.jig = None, !.selected = @ \ {j}, !.active = @ \ {j}]
      BY <2>1, Zenon DEF DeselectJig
  <2> HIDE DEF c
  <2>4. /\ d \in ManagerTables /\ d.selected = c.selected \ {j} /\ d.jig = None
        /\ d.active = c.active \ {j} /\ d.process = m.process /\ d.scenario = c.scenario
      BY <2>2, <2>3, Zenon DEF ManagerTables
  <2> HIDE DEF d
  <2>5. c.scenario \in Scenario \cup {None}
      BY <2>2, TableFields, Zenon
  <2>6. ScenarioTable(d, units)
      BY <1>0, <2>2, <2>4, <2>5, Zenon DEF ScenarioTable
  <2>7. QED
      BY <1>0, <2>2, <2>4, <2>6, Zenon DEF d
<1>3. QED
    BY <1>1, <1>2, Zenon

(* activate of a loaded jig; the clients stay as they are.                  *)
LEMMA ActivateJigKeeps ==
    ASSUME NEW units \in SUBSET Unit, NEW m, Tables(m, units), NEW j \in units \cap Jig
    PROVE  LET r == ActivateJig(m, j, units)
           IN  /\ Tables(r, units)
               /\ r.process = m.process
               /\ r.active \cap Client = m.active \cap Client
<1> DEFINE d == SelectJig(m, j, units)
           r == ActivateJig(m, j, units)
<1>0. /\ m \in ManagerTables /\ JigTable(m, units) /\ ScenarioTable(m, units)
      /\ ProcessTable(m, units) /\ m.process \subseteq Client
      /\ j \in Jig /\ j \notin Client /\ j \notin Scenario \cup Test /\ j \in Unit
    BY TableFields, ManagerAssumption, Zenon DEF Tables, Unit
<1>1. /\ d \in ManagerTables /\ JigTable(d, units) /\ ScenarioTable(d, units)
      /\ d.process = m.process /\ d.active \cap Client = m.active \cap Client
  <2>1. CASE j \in m.selected
      BY <1>0, <2>1, Zenon DEF SelectJig
  <2>2. CASE j \notin m.selected
    <3> DEFINE a == DeselectJig(m, m.jig)
               b == [a EXCEPT !.jig = j]
               c == SelectScenario(b, Default[j], units)
    <3>1. /\ a \in ManagerTables /\ ScenarioTable(a, units)
          /\ a.active \cap Client = m.active \cap Client /\ a.process = m.process
        BY <1>0, DeselectJigKeeps, Zenon
    <3>2. d = [c EXCEPT !.selected = @ \cup {j}]
        BY <2>2, Zenon DEF SelectJig
    <3> HIDE DEF a
    <3>3. /\ b \in ManagerTables /\ b.jig = j /\ b.selected = a.selected
          /\ b.scenario = a.scenario /\ b.active = a.active /\ b.process = a.process
        BY <1>0, <3>1, Zenon DEF ManagerTables
    <3> HIDE DEF b
    <3>4. ScenarioTable(b, units) /\ Default[j] \in Scenario \cup {None}
        BY <1>0, <3>1, <3>3, ManagerAssumption, Zenon DEF ScenarioTable
    <3>5. /\ c \in ManagerTables /\ ScenarioTable(c, units)
          /\ c.active \cap Client = b.active \cap Client
          /\ c.jig = b.jig /\ c.process = b.process
        BY <3>3, <3>4, SelectScenarioKeeps, Zenon
    <3> HIDE DEF c
    <3>6. /\ d \in ManagerTables /\ d.selected = c.selected \cup {j} /\ d.jig = j
          /\ d.scenario = c.scenario /\ d.active = c.active /\ d.process = m.process
        BY <1>0, <3>1, <3>2, <3>3, <3>5 DEF ManagerTables
    <3> HIDE DEF d
    <3>7. ScenarioTable(d, units) /\ JigTable(d, units)
        BY <3>5, <3>6, Zenon DEF ScenarioTable, JigTable
    <3>8. QED
        BY <3>1, <3>3, <3>5, <3>6, <3>7, Zenon
  <2>3. QED
      BY <2>1, <2>2, Zenon
<1>2. ProcessTable(d, units)
    BY <1>0, <1>1, Zenon DEF ProcessTable
<1>3. r = d \/ r = [d EXCEPT !.active = @ \cup {j}]
    BY Zenon DEF ActivateJig
<1> HIDE DEF d
<1>4. /\ r \in ManagerTables /\ r.selected = d.selected /\ r.jig = d.jig
      /\ r.scenario = d.scenario /\ r.process = d.process
      /\ d.active \subseteq r.active /\ r.active \subseteq d.active \cup {j}
  <2>1. CASE r = d
      BY <1>1, <2>1, Zenon
  <2>2. CASE r = [d EXCEPT !.active = @ \cup {j}]
      BY <1>0, <1>1, <2>2 DEF ManagerTables
  <2>3. QED
      BY <1>3, <2>1, <2>2, Zenon
<1> HIDE DEF r
<1>5. JigTable(r, units) /\ ScenarioTable(r, units) /\ ProcessTable(r, units)
    BY <1>1, <1>2, <1>4, Zenon DEF JigTable, ScenarioTable, ProcessTable
<1>6. QED
    BY <1>0, <1>1, <1>4, <1>5, Zenon DEF Tables, r

(* Jigs activated one after the other: what one activation preserves, all   *)
(* of them do.  The recursive function exists for every length, and so does *)
(* what it preserves, by induction on the number of jigs.                   *)
LEMMA ActivateJigsKeeps ==
    ASSUME NEW units \in SUBSET Unit, NEW m, Tables(m, units),
           NEW order \in Seq(units \cap Jig)
    PROVE  LET r == ActivateJigs(m, order, units)
           IN  /\ Tables(r, units)
               /\ r.process = m.process
               /\ r.active \cap Client = m.active \cap Client
<1> DEFINE Step(a, n) == ActivateJig(a, order[n], units)
           F(f, N) == [n \in 0 .. N |-> IF n = 0 THEN m ELSE Step(f[n - 1], n)]
           after == CHOOSE f : f = F(f, Len(order))
           Kept(a) == /\ Tables(a, units)
                      /\ a.process = m.process
                      /\ a.active \cap Client = m.active \cap Client
<1>0. Len(order) \in Nat /\ \A n \in 1 .. Len(order) : order[n] \in units \cap Jig
    OBVIOUS
<1>1. ActivateJigs(m, order, units) = after[Len(order)]
    BY Zenon DEF ActivateJigs
<1>2. \A a : \A n \in 1 .. Len(order) : Kept(a) => Kept(Step(a, n))
  <2> SUFFICES ASSUME NEW a, NEW n \in 1 .. Len(order), Kept(a) PROVE Kept(Step(a, n))
      BY Zenon
  <2> DEFINE j == order[n]
  <2>1. j \in units \cap Jig
      BY <1>0, Zenon
  <2> HIDE DEF j
  <2>2. Tables(a, units) /\ units \in SUBSET Unit
      BY Zenon
  <2>3. /\ Tables(ActivateJig(a, j, units), units)
        /\ ActivateJig(a, j, units).process = a.process
        /\ ActivateJig(a, j, units).active \cap Client = a.active \cap Client
      BY ONLY <2>1, <2>2, ActivateJigKeeps
  <2>4. QED
      BY <2>3, Zenon DEF j
<1> HIDE DEF Step
<1>3. after = F(after, Len(order))
  <2> DEFINE S == {N \in Nat : \E f : f = F(f, N)}
  <2>1. 0 \in S
    <3> DEFINE f == [n \in 0 .. 0 |-> m]
    <3>1. f = F(f, 0)
        OBVIOUS
    <3>2. QED
        BY <3>1, Zenon
  <2>2. ASSUME NEW N \in S PROVE N + 1 \in S
    <3>1. PICK f : f = F(f, N)
        BY Zenon
    <3> DEFINE g == [n \in 0 .. N + 1 |-> IF n <= N THEN f[n] ELSE Step(f[N], N + 1)]
    <3>2. ASSUME NEW n \in 0 .. N + 1
          PROVE  g[n] = IF n = 0 THEN m ELSE Step(g[n - 1], n)
      <4>1. CASE n = 0
          BY <3>1, <4>1
      <4>2. CASE n # 0 /\ n <= N
        <5>1. n \in 0 .. N /\ n - 1 \in 0 .. N /\ n - 1 \in 0 .. N + 1 /\ n - 1 <= N
            BY <4>2
        <5>2. f[n] = Step(f[n - 1], n)
            BY <3>1, <4>2, <5>1, Zenon
        <5>3. g[n] = f[n] /\ g[n - 1] = f[n - 1]
            BY <4>2, <5>1, Zenon
        <5>4. QED
            BY <4>2, <5>2, <5>3, Zenon
      <4>3. CASE n = N + 1
        <5>1. n # 0 /\ ~(n <= N) /\ n - 1 = N /\ N \in 0 .. N + 1 /\ N <= N
            BY <4>3
        <5>2. g[n] = Step(f[N], N + 1) /\ g[N] = f[N]
            BY <5>1, Zenon
        <5>3. QED
            BY <4>3, <5>1, <5>2, Zenon
      <4>4. QED
          BY <4>1, <4>2, <4>3
    <3> HIDE DEF Step
    <3>3. g = F(g, N + 1)
      <4>1. g = [n \in 0 .. N + 1 |-> g[n]]
          BY Zenon
      <4> HIDE DEF g
      <4>2. QED
          BY <3>2, <4>1, Zenon
    <3>4. N + 1 \in Nat
        OBVIOUS
    <3> HIDE DEF F, g
    <3>5. QED
        BY <3>3, <3>4, Zenon
  <2>3. S = Nat
    <3>1. S \in SUBSET Nat
        BY Zenon
    <3> HIDE DEF S
    <3>2. QED
        BY <2>1, <2>2, <3>1, NatSetInduction, Zenon
  <2>4. \E f : f = F(f, Len(order))
      BY <1>0, <2>3, Zenon
  <2> HIDE DEF F
  <2>5. QED
      BY <2>4, Zenon
<1> HIDE DEF after, Kept
<1>4. \A n \in Nat : n <= Len(order) => Kept(after[n])
  <2> DEFINE S == {N \in Nat : N <= Len(order) => Kept(after[N])}
  <2>1. 0 \in S
    <3>1. after[0] = m
        BY <1>0, <1>3
    <3>2. QED
        BY <3>1, Zenon DEF Kept
  <2>2. ASSUME NEW N \in S PROVE N + 1 \in S
    <3>1. SUFFICES ASSUME N + 1 <= Len(order) PROVE Kept(after[N + 1])
        OBVIOUS
    <3>2. after[N + 1] = Step(after[N], N + 1)
        BY <1>0, <1>3, <3>1
    <3>3. Kept(after[N]) /\ N + 1 \in 1 .. Len(order)
        BY <1>0, <3>1
    <3>4. QED
        BY <1>2, <3>2, <3>3, Zenon
  <2>3. S = Nat
    <3>1. S \in SUBSET Nat
        BY Zenon
    <3> HIDE DEF S
    <3>2. QED
        BY <2>1, <2>2, <3>1, NatSetInduction, Zenon
  <2>4. QED
      BY <2>3, Zenon
<1>5. Kept(after[Len(order)])
    BY <1>0, <1>4
<1>6. QED
    BY <1>1, <1>5, Zenon DEF Kept

(* An order of finitely many units is a sequence of them.                   *)
LEMMA OrdersAreSequences ==
    ASSUME NEW S \in SUBSET Jig, NEW order \in Orders(S)
    PROVE  order \in Seq(S)
<1>1. IsFiniteSet(S)
    BY ManagerAssumption, FS_Subset, Zenon
<1>2. Cardinality(S) \in Nat
    BY <1>1, FS_CardinalityType, Zenon
<1>3. order \in [1 .. Cardinality(S) -> S]
    BY Zenon DEF Orders, Injection
<1>4. QED
    BY <1>2, <1>3

(* Clients that were just loaded get a process.                             *)
LEMMA ActivateClientsKeeps ==
    ASSUME NEW units \in SUBSET Unit, NEW m, Tables(m, units),
           NEW clients \in SUBSET (units \cap Client), NEW started \in SUBSET clients
    PROVE  LET r == ActivateClients(m, clients, started)
           IN  Tables(r, units) /\ r.process \subseteq m.process \cup clients
<1> DEFINE r == ActivateClients(m, clients, started)
           new == started \ m.active
<1>1. /\ r \in ManagerTables /\ r.jig = m.jig /\ r.scenario = m.scenario
      /\ r.selected = m.selected \cup clients /\ r.active = m.active \cup new
      /\ r.process = m.process \cup new
    BY Zenon DEF ActivateClients, Tables, ManagerTables, Unit
<1> HIDE DEF r
<1>2. JigTable(r, units) /\ ScenarioTable(r, units) /\ ProcessTable(r, units)
    BY <1>1, Zenon DEF Tables, JigTable, ScenarioTable, ProcessTable
<1>3. QED
    BY <1>1, <1>2, Zenon DEF Tables, r

(* select of a scenario, for all the tables.                                *)
LEMMA SelectScenarioTables ==
    ASSUME NEW units \in SUBSET Unit, NEW m, Tables(m, units), NEW s \in Scenario
    PROVE  LET d == SelectScenario(m, s, units)
           IN  /\ Tables(d, units)
               /\ d.active \cap Client = m.active \cap Client
               /\ d.jig = m.jig /\ d.process = m.process
<1> DEFINE d == SelectScenario(m, s, units)
<1>1. m \in ManagerTables /\ m.jig \in Jig \cup {None} /\ m.process \subseteq Client
    BY TableFields, Zenon DEF Tables
<1>2. /\ d \in ManagerTables /\ ScenarioTable(d, units) /\ Rest(d) = Rest(m)
      /\ d.active \cap Client = m.active \cap Client
      /\ d.jig = m.jig /\ d.process = m.process
    BY <1>1, SelectScenarioKeeps, Zenon DEF Tables
<1> HIDE DEF d
<1>3. JigTable(d, units)
    BY <1>1, <1>2, ManagerAssumption, Zenon DEF Tables, JigTable, Rest
<1>4. ProcessTable(d, units)
    BY <1>1, <1>2, Zenon DEF Tables, ProcessTable
<1>5. QED
    BY <1>2, <1>3, <1>4, Zenon DEF Tables, d

(* 10. to 13. of a rescan: only units that were just loaded get a process.  *)
LEMMA SettleKeeps ==
    ASSUME NEW units \in SUBSET Unit, NEW m, Tables(m, units),
           NEW new \in SUBSET units, Settle(m, new, units)
    PROVE  Tables(manager', units) /\ manager'.process \subseteq m.process \cup new
<1>1. PICK order \in Orders(new \cap Jig), started \in SUBSET (new \cap Client) :
         \E r \in RefreshJig(ActivateClients(ActivateJigs(m, order, units),
                                             new \cap Client, started), units) :
            manager' \in RefreshScenario(r, units)
    BY Zenon DEF Settle
<1> DEFINE jigs == ActivateJigs(m, order, units)
           clients == ActivateClients(jigs, new \cap Client, started)
<1>2. PICK r \in RefreshJig(clients, units) : manager' \in RefreshScenario(r, units)
    BY <1>1, Zenon
<1>3. order \in Seq(units \cap Jig)
  <2>1. order \in Seq(new \cap Jig)
      BY OrdersAreSequences, Zenon
  <2>2. QED
      BY <2>1
<1>4. Tables(jigs, units) /\ jigs.process = m.process
    BY <1>3, ActivateJigsKeeps, Zenon
<1> HIDE DEF jigs
<1>5. Tables(clients, units) /\ clients.process \subseteq m.process \cup new
  <2>1. new \cap Client \in SUBSET (units \cap Client)
      BY Zenon
  <2>2. Tables(clients, units) /\ clients.process \subseteq jigs.process \cup (new \cap Client)
      BY ONLY units \in SUBSET Unit, started \in SUBSET (new \cap Client), <1>4, <2>1,
         ActivateClientsKeeps
  <2> HIDE DEF clients
  <2>3. QED
      BY <1>4, <2>2, Zenon
<1> HIDE DEF clients
<1>6. Tables(r, units) /\ r.process = clients.process
  <2>1. CASE clients.jig = None /\ units \cap Jig # {}
    <3>1. PICK j \in units \cap Jig : r = ActivateJig(clients, j, units)
        BY <1>2, <2>1, Zenon DEF RefreshJig
    <3>2. QED
        BY <1>5, <3>1, ActivateJigKeeps, Zenon
  <2>2. CASE ~(clients.jig = None /\ units \cap Jig # {})
      BY <1>2, <1>5, <2>2, Zenon DEF RefreshJig
  <2>3. QED
      BY <2>1, <2>2, Zenon
<1>7. Tables(manager', units) /\ manager'.process = r.process
  <2>1. CASE r.scenario = None /\ units \cap Scenario # {}
    <3>1. PICK s \in units \cap Scenario : manager' = SelectScenario(r, s, units)
        BY <1>2, <2>1, Zenon DEF RefreshScenario
    <3>2. s \in Scenario
        OBVIOUS
    <3>3. QED
        BY <1>6, <3>1, <3>2, SelectScenarioTables, Zenon
  <2>2. CASE ~(r.scenario = None /\ units \cap Scenario # {})
      BY <1>2, <1>6, <2>2, Zenon DEF RefreshScenario
  <2>3. QED
      BY <2>1, <2>2, Zenon
<1>8. QED
    BY <1>5, <1>6, <1>7, Zenon

(* A unit becomes active.                                                   *)
LEMMA ActiveKeeps ==
    ASSUME NEW units, NEW d, Tables(d, units), NEW u \in Unit
    PROVE  Tables([d EXCEPT !.active = @ \cup {u}], units)
<1> DEFINE r == [d EXCEPT !.active = @ \cup {u}]
<1>1. /\ r \in ManagerTables /\ r.selected = d.selected /\ r.jig = d.jig
      /\ r.scenario = d.scenario /\ r.active = d.active \cup {u} /\ r.process = d.process
    BY Zenon DEF Tables, ManagerTables
<1> HIDE DEF r
<1>2. JigTable(r, units) /\ ScenarioTable(r, units) /\ ProcessTable(r, units)
    BY <1>1, Zenon DEF Tables, JigTable, ScenarioTable, ProcessTable
<1>3. QED
    BY <1>1, <1>2, Zenon DEF Tables, r

(* activate of any unit.                                                    *)
LEMMA ActivateUnitTables ==
    ASSUME NEW units \in SUBSET Unit, NEW m, Tables(m, units), NEW u \in Unit, NEW up \in BOOLEAN
    PROVE  Tables(ActivateUnit(m, u, units, up), units)
<1> DEFINE r == ActivateUnit(m, u, units, up)
<1>1. CASE u \in Jig
  <2>1. r = ActivateJig(m, u, units)
      BY <1>1, ManagerAssumption, Zenon DEF ActivateUnit
  <2>2. CASE u \in units
      BY <1>1, <2>1, <2>2, ActivateJigKeeps, Zenon
  <2>3. CASE u \notin units
    <3>1. r = m \/ r = [m EXCEPT !.active = @ \cup {u}]
        BY <2>1, <2>3, Zenon DEF ActivateJig, SelectJig
    <3>2. Tables([m EXCEPT !.active = @ \cup {u}], units)
        BY ActiveKeeps
    <3> HIDE DEF r
    <3>3. Tables(r, units)
        BY <3>1, <3>2, Zenon
    <3>4. QED
        BY <3>3, Zenon DEF r
  <2>4. QED
      BY <2>2, <2>3, Zenon
<1>2. CASE u \in Scenario
  <2> DEFINE d == SelectScenario(m, u, units)
  <2>1. r = d \/ r = [d EXCEPT !.active = @ \cup {u}]
      BY <1>2, ManagerAssumption, Zenon DEF ActivateUnit, Activate
  <2>2. Tables(d, units)
      BY <1>2, SelectScenarioTables, Zenon
  <2> HIDE DEF d
  <2>3. Tables([d EXCEPT !.active = @ \cup {u}], units)
      BY <2>2, ActiveKeeps
  <2> HIDE DEF r
  <2>4. Tables(r, units)
      BY <2>1, <2>2, <2>3, Zenon
  <2>5. QED
      BY <2>4, Zenon DEF r
<1>3. CASE u \in Test
  <2> DEFINE d == SelectTest(m, u, units)
  <2>1. r = d \/ r = [d EXCEPT !.active = @ \cup {u}]
      BY <1>3, ManagerAssumption, Zenon DEF ActivateUnit, Activate
  <2>2. d = m \/ d = [m EXCEPT !.selected = @ \cup {u}]
      BY Zenon DEF SelectTest
  <2>3. Tables(d, units)
    <3>1. CASE d = m
        BY <3>1, Zenon
    <3>2. CASE d = [m EXCEPT !.selected = @ \cup {u}]
      <4>1. /\ d \in ManagerTables /\ d.selected = m.selected \cup {u} /\ d.jig = m.jig
            /\ d.scenario = m.scenario /\ d.active = m.active /\ d.process = m.process
          BY <3>2, Zenon DEF Tables, ManagerTables
      <4> HIDE DEF d
      <4>2. JigTable(d, units) /\ ScenarioTable(d, units) /\ ProcessTable(d, units)
          BY <4>1, Zenon DEF Tables, JigTable, ScenarioTable, ProcessTable
      <4>3. QED
          BY <4>1, <4>2, Zenon DEF Tables
    <3>3. QED
        BY <2>2, <3>1, <3>2, Zenon
  <2> HIDE DEF d
  <2>4. Tables([d EXCEPT !.active = @ \cup {u}], units)
      BY <2>3, ActiveKeeps
  <2> HIDE DEF r
  <2>5. Tables(r, units)
      BY <2>1, <2>3, <2>4, Zenon
  <2>6. QED
      BY <2>5, Zenon DEF r
<1>4. CASE u \in Client
  <2> DEFINE clients == {u} \cap units
             some == IF up THEN clients ELSE {}
  <2>1. r = ActivateClients(m, clients, some)
      BY <1>4, ManagerAssumption DEF ActivateUnit
  <2>2. clients \in SUBSET (units \cap Client) /\ some \in SUBSET clients
      BY <1>4
  <2> HIDE DEF clients, some
  <2>3. QED
      BY <2>1, <2>2, ActivateClientsKeeps, Zenon
<1>5. QED
    BY <1>1, <1>2, <1>3, <1>4, Zenon DEF Unit

(* d is m without the processes of the clients.                             *)
Deactivated(d, m, clients, units) ==
    /\ Tables(d, units)
    /\ d.process = m.process \ clients
    /\ d.jig = m.jig /\ d.scenario = m.scenario

(* deactivate: the clients lose their processes, the rest stays.            *)
LEMMA DeactivateKeeps ==
    ASSUME NEW units \in SUBSET Unit, NEW m, Tables(m, units),
           NEW clients \in SUBSET Client, NEW failing \in SUBSET Client
    PROVE  Deactivated(Deactivate(m, clients, failing), m, clients, units)
<1> DEFINE d == Deactivate(m, clients, failing)
<1>1. /\ d \in ManagerTables /\ d.jig = m.jig /\ d.scenario = m.scenario
      /\ d.selected = m.selected
      /\ d.active = m.active \ (clients \ (failing \cap m.process))
      /\ d.process = m.process \ (clients \cap m.active)
    BY Zenon DEF Deactivate, Tables, ManagerTables
<1> HIDE DEF d
<1>2. d.process = m.process \ clients
    BY <1>1, Zenon DEF Tables, ProcessTable
<1>3. JigTable(d, units) /\ ScenarioTable(d, units) /\ ProcessTable(d, units)
    BY <1>1, <1>2, Zenon DEF Tables, JigTable, ScenarioTable, ProcessTable
<1>4. QED
    BY <1>1, <1>2, <1>3, Zenon DEF Deactivated, Tables, d

(* unload: a current jig or scenario that is unloaded is no longer current, *)
(* and no client that is unloaded has a process.                            *)
LEMMA UnloadKeeps ==
    ASSUME NEW units \in SUBSET Unit, NEW gone \in SUBSET Unit, NEW m, Tables(m, units),
           NEW failing \in SUBSET Client
    PROVE  LET d == Unload(m, gone, failing)
           IN  /\ Tables(d, units \ gone)
               /\ d.process \subseteq m.process
               /\ d.jig \in {m.jig, None} /\ d.scenario \in {m.scenario, None}
<1> DEFINE noJig == IF m.jig \in gone THEN DeselectJig(m, m.jig) ELSE m
           noScenario == IF noJig.scenario \in gone
                         THEN DeselectScenario(noJig, noJig.scenario) ELSE noJig
           noTest == [noScenario EXCEPT !.selected = @ \ (gone \cap Test),
                                        !.active = @ \ (gone \cap Test)]
           clients == gone \cap Client
           once == Deactivate(noTest, clients, failing)
           twice == Deactivate(once, clients, failing)
           d == Unload(m, gone, failing)
<1>0. /\ m \in ManagerTables /\ JigTable(m, units) /\ ScenarioTable(m, units)
      /\ ProcessTable(m, units) /\ None \notin gone /\ m.process \subseteq Client
    BY TableFields, ManagerAssumption, Zenon DEF Tables
<1>1. d = [twice EXCEPT !.selected = @ \ clients]
    BY Zenon DEF Unload, UnloadClients
<1>2. /\ noJig \in ManagerTables /\ JigTable(noJig, units) /\ ScenarioTable(noJig, units)
      /\ noJig.jig \in {m.jig, None} /\ noJig.jig \notin gone
      /\ noJig.process = m.process /\ noJig.active \cap Client = m.active \cap Client
      /\ noJig.scenario \in {m.scenario, None}
  <2>1. CASE m.jig \in gone
      BY <1>0, <2>1, DeselectJigKeeps, Zenon DEF JigTable
  <2>2. CASE m.jig \notin gone
      BY <1>0, <2>2, Zenon
  <2>3. QED
      BY <2>1, <2>2, Zenon
<1> HIDE DEF noJig
<1>3. /\ noScenario \in ManagerTables /\ ScenarioTable(noScenario, units)
      /\ Rest(noScenario) = Rest(noJig)
      /\ noScenario.jig = noJig.jig /\ noScenario.process = m.process
      /\ noScenario.active \cap Client = noJig.active \cap Client
      /\ noScenario.scenario \in {m.scenario, None} /\ noScenario.scenario \notin gone
  <2>1. CASE noJig.scenario \in gone
    <3>1. noJig.scenario \in Scenario \cup {None}
        BY <1>2, TableFields, Zenon
    <3>2. QED
        BY <1>0, <1>2, <2>1, <3>1, DeselectScenarioKeeps, Zenon
  <2>2. CASE noJig.scenario \notin gone
      BY <1>2, <2>2, Zenon
  <2>3. QED
      BY <2>1, <2>2, Zenon
<1> HIDE DEF noScenario
<1>4. /\ noTest \in ManagerTables /\ noTest.selected = noScenario.selected \ (gone \cap Test)
      /\ noTest.jig = noJig.jig /\ noTest.scenario = noScenario.scenario
      /\ noTest.process = m.process /\ noTest.active = noScenario.active \ (gone \cap Test)
    BY <1>3, Zenon DEF ManagerTables
<1> HIDE DEF noTest
<1>5. Tables(noTest, units)
  <2>1. noJig.jig \in Jig \cup {None} /\ noScenario.scenario \in Scenario \cup {None}
      BY <1>2, <1>3, TableFields, Zenon
  <2>2. JigTable(noTest, units)
      BY <1>2, <1>3, <1>4, <2>1, ManagerAssumption, Zenon DEF JigTable, Rest
  <2>3. ScenarioTable(noTest, units)
      BY <1>3, <1>4, <2>1, ManagerAssumption, Zenon DEF ScenarioTable
  <2>4. ProcessTable(noTest, units)
      BY <1>0, <1>2, <1>3, <1>4, ManagerAssumption, Zenon DEF ProcessTable
  <2>5. QED
      BY <1>4, <2>2, <2>3, <2>4, Zenon DEF Tables
<1>6. clients = gone \cap Client
    BY Zenon
<1>6a. clients \in SUBSET Client
    BY Zenon
<1> HIDE DEF clients
<1>7. Tables(once, units) /\ once.process = noTest.process \ clients
      /\ once.jig = noTest.jig /\ once.scenario = noTest.scenario
  <2>1. Deactivated(once, noTest, clients, units)
      BY <1>5, <1>6a, DeactivateKeeps, Zenon
  <2>2. QED
      BY <2>1, Zenon DEF Deactivated
<1> HIDE DEF once
<1>8. Tables(twice, units) /\ twice.process = once.process \ clients
      /\ twice.jig = noTest.jig /\ twice.scenario = noTest.scenario
  <2>1. Deactivated(twice, once, clients, units)
      BY <1>6a, <1>7, DeactivateKeeps, Zenon
  <2>2. QED
      BY <1>7, <2>1, Zenon DEF Deactivated
<1> HIDE DEF twice
<1>9. /\ d \in ManagerTables /\ d.selected = twice.selected \ clients
      /\ d.jig = twice.jig /\ d.scenario = twice.scenario
      /\ d.process = twice.process /\ d.active = twice.active
    BY <1>1, <1>8, Zenon DEF Tables, ManagerTables
<1> HIDE DEF d
<1>10. Tables(d, units \ gone)
  <2>1. twice.jig \in Jig \cup {None} /\ twice.scenario \in Scenario \cup {None}
      BY <1>8, TableFields, Zenon DEF Tables
  <2>2. JigTable(d, units \ gone)
      BY <1>2, <1>4, <1>6, <1>8, <1>9, <2>1, ManagerAssumption, Zenon DEF Tables, JigTable
  <2>3. ScenarioTable(d, units \ gone)
      BY <1>3, <1>4, <1>6, <1>8, <1>9, <2>1, ManagerAssumption, Zenon DEF Tables, ScenarioTable
  <2>4. ProcessTable(d, units \ gone)
      BY <1>0, <1>4, <1>6, <1>7, <1>8, <1>9, Zenon DEF Tables, ProcessTable
  <2>5. QED
      BY <1>9, <2>2, <2>3, <2>4, Zenon DEF Tables
<1>11. QED
    BY <1>2, <1>3, <1>4, <1>7, <1>8, <1>9, <1>10, Zenon DEF d

-----------------------------------------------------------------------------
(***************************************************************************)
(* Queues, by the messages that are in them.                               *)
(***************************************************************************)
Kind ==
    {"Loaded", "Selected", "InitialGreeting", "Jig", "Scenarios", "Tests", "Scenario", "Start"}

Message ==
    {x \in [what : Kind, unit : Unit \cup {None}, by : Client \cup {None}] :
        x.what = "Scenario" => x.unit \in Scenario}

Among(q) == {q[n] : n \in 1 .. Len(q)}

Comes(q, what, units) == \E x \in Among(q) : x.what = what /\ x.unit \in units

Greets(q, i) == \E x \in Among(q) : x.what = "InitialGreeting" /\ x.by = i

(* What is not taken off a queue stays in it.                               *)
LEMMA AmongTail ==
    ASSUME NEW S, NEW q \in Seq(S), q # <<>>
    PROVE  /\ Head(q) \in S /\ Tail(q) \in Seq(S)
           /\ Among(q) = {Head(q)} \cup Among(Tail(q))
<1>1. Head(q) \in S /\ Tail(q) \in Seq(S)
    OBVIOUS
<1>2. /\ Len(q) \in Nat \ {0} /\ Len(Tail(q)) = Len(q) - 1 /\ Head(q) = q[1]
      /\ \A n \in 1 .. Len(q) - 1 : Tail(q)[n] = q[n + 1]
    OBVIOUS
<1>3. ASSUME NEW x \in Among(q) PROVE x \in {Head(q)} \cup Among(Tail(q))
  <2>1. PICK n \in 1 .. Len(q) : x = q[n]
      BY <1>3, Zenon DEF Among
  <2>2. CASE n = 1
      BY <1>2, <2>1, <2>2, Zenon
  <2>3. CASE n # 1
    <3>1. n - 1 \in 1 .. Len(q) - 1 /\ (n - 1) + 1 = n
        BY <1>2, <2>3
    <3>2. x = Tail(q)[n - 1]
        BY <1>2, <2>1, <3>1, Zenon
    <3>3. QED
        BY <1>2, <3>1, <3>2, Zenon DEF Among
  <2>4. QED
      BY <2>2, <2>3, Zenon
<1>4. ASSUME NEW x \in {Head(q)} \cup Among(Tail(q)) PROVE x \in Among(q)
  <2>1. CASE x = Head(q)
    <3>1. 1 \in 1 .. Len(q)
        BY <1>2
    <3>2. QED
        BY <1>2, <2>1, <3>1, Zenon DEF Among
  <2>2. CASE x \in Among(Tail(q))
    <3>1. PICK n \in 1 .. Len(q) - 1 : x = Tail(q)[n]
        BY <1>2, <2>2, Zenon DEF Among
    <3>2. n + 1 \in 1 .. Len(q)
        BY <1>2
    <3>3. x = q[n + 1]
        BY <1>2, <3>1, Zenon
    <3>4. QED
        BY <3>2, <3>3, Zenon DEF Among
  <2>3. QED
      BY <1>4, <2>1, <2>2, Zenon
<1>5. QED
    BY <1>1, <1>3, <1>4, Zenon

(* One queue after another.                                                 *)
LEMMA AmongConcat ==
    ASSUME NEW S, NEW q \in Seq(S), NEW r \in Seq(S)
    PROVE  q \o r \in Seq(S) /\ Among(q \o r) = Among(q) \cup Among(r)
<1>1. /\ q \o r \in Seq(S) /\ Len(q) \in Nat /\ Len(r) \in Nat
      /\ Len(q \o r) = Len(q) + Len(r)
      /\ \A n \in 1 .. Len(q) : (q \o r)[n] = q[n]
      /\ \A n \in 1 .. Len(r) : (q \o r)[Len(q) + n] = r[n]
    OBVIOUS
<1> DEFINE p == q \o r
<1> HIDE DEF p
<1>2. ASSUME NEW x \in Among(p) PROVE x \in Among(q) \cup Among(r)
  <2>1. PICK n \in 1 .. Len(p) : x = p[n]
      BY Zenon DEF Among
  <2>2. CASE n <= Len(q)
    <3>1. n \in 1 .. Len(q)
        BY <1>1, <2>2
    <3>2. x = q[n]
        BY <1>1, <2>1, <3>1, Zenon DEF p
    <3>3. QED
        BY <3>1, <3>2, Zenon DEF Among
  <2>3. CASE ~(n <= Len(q))
    <3>1. n - Len(q) \in 1 .. Len(r) /\ Len(q) + (n - Len(q)) = n
        BY <1>1, <2>3 DEF p
    <3>2. x = r[n - Len(q)]
        BY <1>1, <2>1, <3>1, Zenon DEF p
    <3>3. QED
        BY <3>1, <3>2, Zenon DEF Among
  <2>4. QED
      BY <2>2, <2>3, Zenon
<1>3. ASSUME NEW x \in Among(q) \cup Among(r) PROVE x \in Among(p)
  <2>1. CASE x \in Among(q)
    <3>1. PICK n \in 1 .. Len(q) : x = q[n]
        BY <2>1, Zenon DEF Among
    <3>2. n \in 1 .. Len(p)
        BY <1>1 DEF p
    <3>3. x = p[n]
        BY <1>1, <3>1, Zenon DEF p
    <3>4. QED
        BY <3>2, <3>3, Zenon DEF Among
  <2>2. CASE x \in Among(r)
    <3>1. PICK n \in 1 .. Len(r) : x = r[n]
        BY <2>2, Zenon DEF Among
    <3>2. Len(q) + n \in 1 .. Len(p)
        BY <1>1 DEF p
    <3>3. x = p[Len(q) + n]
        BY <1>1, <3>1, Zenon DEF p
    <3>4. QED
        BY <3>2, <3>3, Zenon DEF Among
  <2>3. QED
      BY <2>1, <2>2, Zenon
<1>4. QED
    BY <1>1, <1>2, <1>3, Zenon DEF p

(* A queue of one.                                                          *)
LEMMA AmongOne ==
    ASSUME NEW S, NEW x \in S
    PROVE  <<x>> \in Seq(S) /\ Among(<<x>>) = {x}
<1>1. <<x>> \in Seq(S) /\ Len(<<x>>) = 1 /\ <<x>>[1] = x
    OBVIOUS
<1>2. \A n : n \in 1 .. 1 <=> n = 1
    OBVIOUS
<1>3. QED
    BY <1>1, <1>2, Zenon DEF Among

(* No message.                                                              *)
LEMMA AmongNone ==
    ASSUME NEW S
    PROVE  <<>> \in Seq(S) /\ Among(<<>>) = {}
<1>1. <<>> \in Seq(S) /\ Len(<<>>) = 0
    OBVIOUS
<1>2. \A n : n \notin 1 .. 0
    OBVIOUS
<1>3. QED
    BY <1>1, <1>2, Zenon DEF Among

(* A message that is put on a queue.                                        *)
LEMMA AmongAppend ==
    ASSUME NEW S, NEW q \in Seq(S), NEW x \in S
    PROVE  Append(q, x) \in Seq(S) /\ Among(Append(q, x)) = Among(q) \cup {x}
<1>1. Append(q, x) = q \o <<x>>
    OBVIOUS
<1>2. <<x>> \in Seq(S) /\ Among(<<x>>) = {x}
    BY AmongOne, Zenon
<1> DEFINE r == <<x>>
<1> HIDE DEF r
<1>3. q \o r \in Seq(S) /\ Among(q \o r) = Among(q) \cup Among(r)
  <2>1. r \in Seq(S)
      BY <1>2, Zenon DEF r
  <2>2. QED
      BY <2>1, AmongConcat, Zenon
<1>4. QED
    BY <1>1, <1>2, <1>3, Zenon DEF r

(* AnyOrder lists every member of a finite set.                             *)
LEMMA AmongAnyOrder ==
    ASSUME NEW S, IsFiniteSet(S)
    PROVE  /\ AnyOrder(S) \in Seq(S) /\ Among(AnyOrder(S)) = S
           /\ Len(AnyOrder(S)) = Cardinality(S) /\ Cardinality(S) \in Nat
<1> DEFINE N == Cardinality(S)
           q == AnyOrder(S)
<1>1. N \in Nat /\ ExistsBijection(1 .. N, S)
    BY FS_CardinalityType, Zenon
<1>2. \E f \in Orders(S) : TRUE
    BY <1>1, Zenon DEF ExistsBijection, Bijection, Orders
<1>3. q \in Injection(1 .. N, S) /\ q \in [1 .. N -> S]
  <2>1. q \in Orders(S)
      BY <1>2, Zenon DEF AnyOrder
  <2>2. QED
      BY <2>1, Zenon DEF Orders, Injection
<1> HIDE DEF q
<1>4. q \in Seq(S) /\ Len(q) = N
    BY <1>1, <1>3
<1>5. q \in Surjection(1 .. N, S)
  <2>1. q \in Injection(1 .. N, S)
      BY <1>3, Zenon
  <2>2. Cardinality(1 .. N) = Cardinality(S)
    <3>1. Cardinality(1 .. N) = IF 1 > N THEN 0 ELSE N - 1 + 1
        BY <1>1, FS_Interval
    <3>2. QED
        BY <1>1, <3>1
  <2>3. QED
      BY <2>1, <2>2, FS_Injection, Zenon
<1>6. Among(q) = S
    BY <1>3, <1>4, <1>5, Zenon DEF Among, Surjection
<1>7. QED
    BY <1>1, <1>4, <1>6, Zenon DEF q

-----------------------------------------------------------------------------
(***************************************************************************)
(* What an interface believes.                                             *)
(***************************************************************************)
Belief ==
    [hello : BOOLEAN, jig : Jig \cup {None}, list : SUBSET Scenario,
     scenario : Scenario \cup {None}, describe : [Described -> Nat], tests : [Scenario -> Nat]]

(* It knows that s is the current scenario, and its tests.                  *)
KnowsScenario(b, s, ver) == b.scenario = s /\ b.tests[s] = ver[s]

(* No name of a jig is out of date, unless it comes in the queue q.         *)
JigsNamed(b, units, ver, q) ==
    \A j \in units \cap Jig : b.describe[j] \in {0, ver[j]} \/ Comes(q, "Loaded", {j})

(* It was greeted, and knows what is the case, or that comes in the queue.  *)
Informed(b, jig, scenario, units, ver, q) ==
    /\ b.hello
    /\ b.list = units \cap Scenario \/ Comes(q, "Loaded", units \cap Scenario)
    /\ jig \in {b.jig, None} \/ Comes(q, "Selected", Jig)
    /\ scenario = None \/ KnowsScenario(b, scenario, ver) \/ Comes(q, "Selected", Scenario)
    /\ \A s \in units \cap Scenario : b.describe[s] = ver[s] \/ Comes(q, "Loaded", {s})

ViewTypes ==
    /\ loaded \subseteq Unit
    /\ version \in [Described -> Nat]
    /\ bus \in Seq(Message) /\ control \in Seq(Message)
    /\ told \in [Interface -> Belief]
    /\ rescans \in Nat

Seen(i) ==
    /\ JigsNamed(told[i], loaded, version, bus)
    /\ \/ Greets(bus, i) \/ Greets(control, i)
       \/ Informed(told[i], manager.jig, manager.scenario, loaded, version, bus)

(* The inductive invariant.                                                 *)
ViewInv ==
    /\ ViewTypes
    /\ Tables(manager, loaded)
    /\ ~panicked => \A i \in manager.process \cap Interface : Seen(i)

(* The invariant is what StaleIsAnnounced says, and more.                   *)
LEMMA ViewInvSuffices == ViewInv => StaleIsAnnounced
<1> SUFFICES ASSUME ViewInv, ~panicked, NEW i \in manager.process \cap Interface
             PROVE  LET b == told[i]
                    IN /\ \A j \in loaded \cap Jig :
                             b.describe[j] \in {0, version[j]} \/ Coming("Loaded", {j})
                       /\ \/ GreetingComing(i)
                          \/ /\ b.hello
                             /\ b.list = Scenarios \/ Coming("Loaded", Scenarios)
                             /\ manager.jig \in {b.jig, None} \/ Coming("Selected", Jig)
                             /\ \/ manager.scenario = None
                                \/ b.scenario = manager.scenario
                                   /\ b.tests[manager.scenario] = version[manager.scenario]
                                \/ Coming("Selected", Scenario)
                             /\ \A s \in Scenarios :
                                   b.describe[s] = version[s] \/ Coming("Loaded", {s})
    BY Zenon DEF StaleIsAnnounced
<1>1. \A what, units : Comes(bus, what, units) => Coming(what, units)
    BY Zenon DEF Comes, Coming, Among
<1>2. Greets(bus, i) \/ Greets(control, i) => GreetingComing(i)
  <2> DEFINE q == bus \o control
  <2>1. Among(q) = Among(bus) \cup Among(control)
    <3>1. bus \in Seq(Message) /\ control \in Seq(Message)
        BY Zenon DEF ViewInv, ViewTypes
    <3>2. QED
        BY <3>1, AmongConcat, Zenon
  <2> HIDE DEF q
  <2>2. Greets(bus, i) \/ Greets(control, i) =>
           \E x \in Among(q) : x.what = "InitialGreeting" /\ x.by = i
      BY <2>1, Zenon DEF Greets
  <2>3. GreetingComing(i) <=>
           \E n \in 1 .. Len(q) : q[n].what = "InitialGreeting" /\ q[n].by = i
      BY Zenon DEF GreetingComing, q
  <2>4. QED
      BY <2>2, <2>3, Zenon DEF Among
<1>3. Seen(i)
    BY Zenon DEF ViewInv
<1>4. QED
    BY <1>1, <1>2, <1>3, Zenon DEF Seen, JigsNamed, Informed, KnowsScenario, Scenarios

(* c knows what b knows, or better: nothing that was current is lost.       *)
Fresher(c, b, scenario) ==
    /\ c \in Belief
    /\ b.hello => c.hello
    /\ b.list = Scenarios => c.list = Scenarios
    /\ b.jig = manager.jig => c.jig = manager.jig
    /\ scenario \in Scenario /\ KnowsScenario(b, scenario, version) =>
          KnowsScenario(c, scenario, version)
    /\ \A u \in Described : c.describe[u] \in {b.describe[u], version[u]}

(* What b knows, b knows.                                                   *)
LEMMA FresherSame ==
    ASSUME NEW b \in Belief, NEW s
    PROVE  Fresher(b, b, s)
BY Zenon DEF Fresher

(* One message after another.                                               *)
LEMMA FresherTwice ==
    ASSUME NEW b, NEW c, NEW d, NEW s, Fresher(c, b, s), Fresher(d, c, s)
    PROVE  Fresher(d, b, s)
BY Zenon DEF Fresher

(* The messages, each with what it tells.                                   *)
LEMMA TellDescribeTells ==
    ASSUME ViewTypes, NEW b \in Belief, NEW units, NEW s
    PROVE  LET c == TellDescribe(b, units)
           IN  /\ Fresher(c, b, s)
               /\ \A u \in units \cap Described : c.describe[u] = version[u]
               /\ c.hello = b.hello /\ c.jig = b.jig /\ c.list = b.list
               /\ c.scenario = b.scenario /\ c.tests = b.tests
<1> DEFINE c == TellDescribe(b, units)
           f == [u \in Described |-> IF u \in units THEN version[u] ELSE b.describe[u]]
<1>1. c = [b EXCEPT !.describe = f]
    BY Zenon DEF TellDescribe
<1>2. b.describe \in [Described -> Nat] /\ version \in [Described -> Nat]
    BY Zenon DEF Belief, ViewTypes
<1>3. /\ f \in [Described -> Nat]
      /\ \A u \in Described : f[u] = IF u \in units THEN version[u] ELSE b.describe[u]
    BY <1>2, Zenon
<1> HIDE DEF f
<1>4. /\ c \in Belief /\ c.hello = b.hello /\ c.jig = b.jig /\ c.list = b.list
      /\ c.scenario = b.scenario /\ c.describe = f /\ c.tests = b.tests
    BY <1>1, <1>3, Zenon DEF Belief
<1> HIDE DEF c
<1>5. \A u \in Described : c.describe[u] \in {b.describe[u], version[u]}
    BY <1>3, <1>4, Zenon
<1>6. Fresher(c, b, s)
    BY <1>4, <1>5, Zenon DEF Fresher, KnowsScenario
<1>7. QED
    BY <1>3, <1>4, <1>6, Zenon DEF c

(* The jig.                                                                 *)
LEMMA TellJigTells ==
    ASSUME ViewTypes, Tables(manager, loaded), NEW b \in Belief, NEW s
    PROVE  LET c == TellJig(b)
           IN  /\ Fresher(c, b, s) /\ c.jig = manager.jig
               /\ c.hello = b.hello /\ c.list = b.list
               /\ c.scenario = b.scenario /\ c.tests = b.tests /\ c.describe = b.describe
<1> DEFINE c == TellJig(b)
<1>1. manager.jig \in Jig \cup {None}
    BY TableFields, Zenon DEF Tables
<1>2. /\ c \in Belief /\ c.hello = b.hello /\ c.jig = manager.jig /\ c.list = b.list
      /\ c.scenario = b.scenario /\ c.describe = b.describe /\ c.tests = b.tests
    BY <1>1, Zenon DEF Belief, TellJig
<1> HIDE DEF c
<1>3. Fresher(c, b, s)
    BY <1>2, Zenon DEF Fresher, KnowsScenario
<1>4. QED
    BY <1>2, <1>3, Zenon DEF c

(* The list of scenarios.                                                   *)
LEMMA TellScenariosTells ==
    ASSUME ViewTypes, NEW b \in Belief, NEW s
    PROVE  LET c == TellScenarios(b)
           IN  /\ Fresher(c, b, s) /\ c.list = Scenarios
               /\ c.hello = b.hello /\ c.jig = b.jig
               /\ c.scenario = b.scenario /\ c.tests = b.tests /\ c.describe = b.describe
<1> DEFINE c == TellScenarios(b)
<1>1. Scenarios \in SUBSET Scenario
    BY Zenon DEF Scenarios
<1>2. /\ c \in Belief /\ c.hello = b.hello /\ c.jig = b.jig /\ c.list = Scenarios
      /\ c.scenario = b.scenario /\ c.describe = b.describe /\ c.tests = b.tests
    BY <1>1, Zenon DEF Belief, TellScenarios
<1> HIDE DEF c
<1>3. Fresher(c, b, s)
    BY <1>2, Zenon DEF Fresher, KnowsScenario
<1>4. QED
    BY <1>2, <1>3, Zenon DEF c

(* The tests of a scenario, whether or not it is the current one.           *)
LEMMA TellTestsTells ==
    ASSUME ViewTypes, NEW b \in Belief, NEW t, NEW s
    PROVE  LET c == TellTests(b, t)
           IN  /\ Fresher(c, b, s)
               /\ t \in Scenario => c.tests[t] = version[t]
               /\ c.hello = b.hello /\ c.jig = b.jig /\ c.list = b.list
               /\ c.scenario = b.scenario /\ c.describe = b.describe
<1> DEFINE c == TellTests(b, t)
           f == [b.tests EXCEPT ![t] = version[t]]
<1>1. c = [b EXCEPT !.tests = f]
    BY Zenon DEF TellTests
<1>2. b.tests \in [Scenario -> Nat] /\ version \in [Described -> Nat]
    BY Zenon DEF Belief, ViewTypes
<1>3. \A x \in Scenario : version[x] \in Nat
    BY <1>2, Zenon DEF Described
<1>4. /\ f \in [Scenario -> Nat]
      /\ \A x \in Scenario : f[x] = IF x = t THEN version[t] ELSE b.tests[x]
    BY <1>2, <1>3
<1> HIDE DEF f
<1>5. /\ c \in Belief /\ c.hello = b.hello /\ c.jig = b.jig /\ c.list = b.list
      /\ c.scenario = b.scenario /\ c.describe = b.describe /\ c.tests = f
    BY <1>1, <1>4, Zenon DEF Belief
<1> HIDE DEF c
<1>6. Fresher(c, b, s)
    BY <1>4, <1>5, Zenon DEF Fresher, KnowsScenario
<1>7. QED
    BY <1>4, <1>5, <1>6, Zenon DEF c

(* A scenario as the current one, with its tests.                           *)
LEMMA TellScenarioTells ==
    ASSUME ViewTypes, NEW b \in Belief, NEW s \in Scenario \cup {None}
    PROVE  LET c == TellScenario(b, s)
           IN  /\ Fresher(c, b, s)
               /\ s \in Scenario => KnowsScenario(c, s, version)
               /\ c.hello = b.hello /\ c.jig = b.jig /\ c.list = b.list
               /\ c.describe = b.describe
<1> DEFINE a == [b EXCEPT !.scenario = s]
           c == TellScenario(b, s)
<1>1. /\ a \in Belief /\ a.hello = b.hello /\ a.jig = b.jig /\ a.list = b.list
      /\ a.scenario = s /\ a.describe = b.describe /\ a.tests = b.tests
    BY Zenon DEF Belief
<1>2. c = TellTests(a, s)
    BY Zenon DEF TellScenario
<1> HIDE DEF a, c
<1>3. /\ Fresher(c, a, s)
      /\ s \in Scenario => c.tests[s] = version[s]
      /\ c.hello = a.hello /\ c.jig = a.jig /\ c.list = a.list
      /\ c.scenario = a.scenario /\ c.describe = a.describe
    BY <1>1, <1>2, TellTestsTells, Zenon
<1>4. Fresher(c, b, s)
    BY <1>1, <1>3, Zenon DEF Fresher, KnowsScenario
<1>5. QED
    BY <1>1, <1>3, <1>4, Zenon DEF c, KnowsScenario

(* send_jig_to                                                              *)
LEMMA SendJigTells ==
    ASSUME ViewTypes, Tables(manager, loaded), NEW b \in Belief, NEW s
    PROVE  LET c == SendJig(b)
           IN  /\ Fresher(c, b, s) /\ c.jig = manager.jig
               /\ c.hello = b.hello /\ c.list = b.list
               /\ c.scenario = b.scenario /\ c.tests = b.tests
<1> DEFINE a == TellJig(b)
           units == {manager.jig} \ {None}
           c == SendJig(b)
<1>1. /\ Fresher(a, b, s) /\ a.jig = manager.jig /\ a.hello = b.hello /\ a.list = b.list
      /\ a.scenario = b.scenario /\ a.tests = b.tests
    BY TellJigTells, Zenon
<1>2. c = TellDescribe(a, units)
    BY Zenon DEF SendJig
<1> HIDE DEF a, c, units
<1>3. a \in Belief
    BY <1>1, Zenon DEF Fresher
<1>4. /\ Fresher(c, a, s) /\ c.jig = a.jig /\ c.hello = a.hello /\ c.list = a.list
      /\ c.scenario = a.scenario /\ c.tests = a.tests
    BY <1>2, <1>3, TellDescribeTells, Zenon
<1>5. Fresher(c, b, s)
    BY <1>1, <1>4, FresherTwice, Zenon
<1>6. QED
    BY <1>1, <1>4, <1>5, Zenon DEF c

(* send_scenarios_to                                                        *)
LEMMA SendScenariosTells ==
    ASSUME ViewTypes, NEW b \in Belief, NEW s
    PROVE  LET c == SendScenarios(b)
           IN  /\ Fresher(c, b, s) /\ c.list = Scenarios
               /\ \A u \in Scenarios : c.describe[u] = version[u]
               /\ c.hello = b.hello /\ c.jig = b.jig
               /\ c.scenario = b.scenario /\ c.tests = b.tests
<1> DEFINE a == TellScenarios(b)
           c == SendScenarios(b)
<1>1. /\ Fresher(a, b, s) /\ a.list = Scenarios /\ a.hello = b.hello /\ a.jig = b.jig
      /\ a.scenario = b.scenario /\ a.tests = b.tests
    BY TellScenariosTells, Zenon
<1>2. c = TellDescribe(a, Scenarios)
    BY Zenon DEF SendScenarios
<1> HIDE DEF a, c
<1>3. a \in Belief
    BY <1>1, Zenon DEF Fresher
<1>4. /\ Fresher(c, a, s) /\ c.jig = a.jig /\ c.hello = a.hello /\ c.list = a.list
      /\ c.scenario = a.scenario /\ c.tests = a.tests
      /\ \A u \in Scenarios \cap Described : c.describe[u] = version[u]
    BY <1>2, <1>3, TellDescribeTells, Zenon
<1>5. Fresher(c, b, s)
    BY <1>1, <1>4, FresherTwice, Zenon
<1>6. \A u \in Scenarios : c.describe[u] = version[u]
    BY <1>4, Zenon DEF Scenarios, Described
<1>7. QED
    BY <1>1, <1>4, <1>5, <1>6, Zenon DEF c

(* A greeting tells everything but the names of the other jigs.             *)
LEMMA SendGreetingTells ==
    ASSUME ViewTypes, Tables(manager, loaded), NEW b \in Belief
    PROVE  LET c == SendGreeting(b)
           IN  /\ Fresher(c, b, manager.scenario)
               /\ \A q : Informed(c, manager.jig, manager.scenario, loaded, version, q)
<1> DEFINE s == manager.scenario
           a == [b EXCEPT !.hello = TRUE]
           d == SendJig(a)
           e == SendScenarios(d)
           c == SendGreeting(b)
<1>0. s \in Scenario \cup {None} /\ None \notin Scenario
    BY TableFields, ManagerAssumption, Zenon DEF Tables, Unit
<1>1. /\ a \in Belief /\ a.hello /\ a.jig = b.jig /\ a.list = b.list
      /\ a.scenario = b.scenario /\ a.describe = b.describe /\ a.tests = b.tests
    BY Zenon DEF Belief
<1>2. c = IF s = None THEN e ELSE TellScenario(e, s)
    BY Zenon DEF SendGreeting
<1> HIDE DEF a
<1>3. Fresher(a, b, s)
    BY <1>1, Zenon DEF Fresher, KnowsScenario
<1>4. Fresher(d, a, s) /\ d.jig = manager.jig /\ d.hello = a.hello
    BY <1>1, SendJigTells, Zenon
<1> HIDE DEF d
<1>5. d \in Belief
    BY <1>4, Zenon DEF Fresher
<1>6. /\ Fresher(e, d, s) /\ e.list = Scenarios /\ e.hello = d.hello /\ e.jig = d.jig
      /\ \A u \in Scenarios : e.describe[u] = version[u]
    BY <1>5, SendScenariosTells, Zenon
<1> HIDE DEF e
<1>7. e \in Belief
    BY <1>6, Zenon DEF Fresher
<1>8. Fresher(e, b, s)
    BY <1>3, <1>4, <1>6, FresherTwice, Zenon
<1>9. CASE s = None
  <2>1. c = e
      BY <1>2, <1>9, Zenon
  <2>2. QED
      BY <1>1, <1>4, <1>6, <1>8, <1>9, <2>1, Zenon DEF Informed, Scenarios
<1>10. CASE s # None
  <2>1. c = TellScenario(e, s)
      BY <1>2, <1>10, Zenon
  <2>2. s \in Scenario /\ s \in Scenario \cup {None}
      BY <1>0, <1>10, Zenon
  <2> HIDE DEF c
  <2>3. /\ Fresher(c, e, s) /\ c.hello = e.hello /\ c.jig = e.jig /\ c.list = e.list
        /\ c.describe = e.describe /\ KnowsScenario(c, s, version)
      BY <1>7, <2>1, <2>2, TellScenarioTells, Zenon
  <2>4. Fresher(c, b, s)
      BY <1>8, <2>3, FresherTwice, Zenon
  <2>5. QED
      BY <1>1, <1>4, <1>6, <2>3, <2>4, Zenon DEF Informed, Scenarios, c
<1>11. QED
    BY <1>9, <1>10, Zenon

(* broadcast_jig_named, broadcast_scenario_named                            *)
LEMMA SendNamedTells ==
    ASSUME ViewTypes, NEW b \in Belief, NEW u, NEW s
    PROVE  LET c == SendNamed(b, u)
           IN  /\ Fresher(c, b, s)
               /\ u \in Described => c.describe[u] = version[u]
               /\ u \in Scenario => c.list = Scenarios
<1> DEFINE a == IF u \in Scenario THEN TellScenarios(b) ELSE b
           c == SendNamed(b, u)
           units == {u}
<1>1. Fresher(a, b, s)
    BY TellScenariosTells, FresherSame, Zenon
<1>2. u \in Scenario => a.list = Scenarios
    BY TellScenariosTells, Zenon
<1>3. c = TellDescribe(a, units) /\ u \in units
    BY Zenon DEF SendNamed
<1> HIDE DEF a, c, units
<1>4. a \in Belief
    BY <1>1, Zenon DEF Fresher
<1>5. /\ Fresher(c, a, s) /\ c.list = a.list
      /\ \A x \in units \cap Described : c.describe[x] = version[x]
    BY <1>3, <1>4, TellDescribeTells, Zenon
<1>6. Fresher(c, b, s)
    BY <1>1, <1>5, FresherTwice, Zenon
<1>7. QED
    BY <1>2, <1>3, <1>5, <1>6, Zenon DEF c

(* broadcast_selected_jig, broadcast_selected_scenario                      *)
LEMMA SendSelectedTells ==
    ASSUME ViewTypes, Tables(manager, loaded), NEW b \in Belief, NEW u
    PROVE  LET c == SendSelected(b, u)
           IN  /\ Fresher(c, b, manager.scenario)
               /\ u \in Jig => manager.jig \in {c.jig, None}
               /\ u \in Scenario =>
                     manager.scenario = None \/ KnowsScenario(c, manager.scenario, version)
<1> DEFINE s == manager.scenario
           c == SendSelected(b, u)
<1>0. s \in Scenario \cup {None} /\ ~(u \in Jig /\ u \in Scenario)
    BY TableFields, ManagerAssumption, Zenon DEF Tables
<1>1. CASE u \in Jig /\ manager.jig # None
  <2>1. c = TellJig(b)
      BY <1>0, <1>1, Zenon DEF SendSelected
  <2>2. QED
      BY <1>0, <1>1, <2>1, TellJigTells, Zenon
<1>2. CASE u \in Scenario /\ s # None
  <2>1. c = TellScenario(b, s)
      BY <1>0, <1>2, Zenon DEF SendSelected
  <2>2. Fresher(c, b, s) /\ KnowsScenario(c, s, version)
      BY <1>0, <1>2, <2>1, TellScenarioTells, Zenon
  <2>3. QED
      BY <1>0, <1>2, <2>2, Zenon
<1>3. CASE ~(u \in Jig /\ manager.jig # None) /\ ~(u \in Scenario /\ s # None)
  <2>1. c = b
      BY <1>3, Zenon DEF SendSelected
  <2>2. QED
      BY <1>3, <2>1, FresherSame, Zenon
<1>4. QED
    BY <1>1, <1>2, <1>3, Zenon

-----------------------------------------------------------------------------
(***************************************************************************)
(* The main thread takes h off the bus, and an interface i believes c.     *)
(***************************************************************************)
Answered(c, h, i) ==
    /\ h.what = "Loaded" /\ h.unit \in loaded \cap Described =>
          /\ c.describe[h.unit] = version[h.unit]
          /\ h.unit \in Scenario => c.list = Scenarios
    /\ h.what = "Selected" /\ h.unit \in Jig => manager.jig \in {c.jig, None}
    /\ h.what = "Selected" /\ h.unit \in Scenario =>
          manager.scenario = None \/ KnowsScenario(c, manager.scenario, version)
    /\ h.what = "InitialGreeting" /\ h.by = i =>
          Informed(c, manager.jig, manager.scenario, loaded, version, <<>>)

(* Then the interface still knows, or is about to be told: of what was      *)
(* coming, all but h still comes.  (The current scenario may have become    *)
(* another.)                                                                *)
LEMMA TakenKeeps ==
    ASSUME ViewTypes, bus # <<>>, NEW i, Seen(i), NEW scenario, NEW c, NEW q,
           Tables(manager, loaded),
           Fresher(c, told[i], scenario), Answered(c, Head(bus), i),
           Among(Tail(bus)) \subseteq Among(q),
           scenario \in {manager.scenario, None} \/ KnowsScenario(c, scenario, version)
    PROVE  /\ JigsNamed(c, loaded, version, q)
           /\ \/ Greets(q, i) \/ Greets(control, i)
              \/ Informed(c, manager.jig, scenario, loaded, version, q)
<1> DEFINE h == Head(bus)
           b == told[i]
<1>1. bus \in Seq(Message)
    BY Zenon DEF ViewTypes
<1>2. \A x \in Among(bus) : x = h \/ x \in Among(q)
    BY <1>1, AmongTail, Zenon
<1> HIDE DEF h
<1>3. \A what, units : Comes(bus, what, units) =>
         (h.what = what /\ h.unit \in units) \/ Comes(q, what, units)
    BY <1>2, Zenon DEF Comes
<1>4. Greets(bus, i) => (h.what = "InitialGreeting" /\ h.by = i) \/ Greets(q, i)
    BY <1>2, Zenon DEF Greets
<1>5. Answered(c, h, i) /\ Fresher(c, b, scenario) /\ JigsNamed(b, loaded, version, bus)
      /\ (\/ Greets(bus, i) \/ Greets(control, i)
          \/ Informed(b, manager.jig, manager.scenario, loaded, version, bus))
    BY Zenon DEF h, Seen
<1>6. manager.scenario \in Scenario \cup {None}
    BY TableFields, Zenon DEF Tables
<1> HIDE DEF b
<1>7. JigsNamed(c, loaded, version, q)
  <2> SUFFICES ASSUME NEW j \in loaded \cap Jig
               PROVE  c.describe[j] \in {0, version[j]} \/ Comes(q, "Loaded", {j})
      BY Zenon DEF JigsNamed
  <2>1. j \in Described /\ c.describe[j] \in {b.describe[j], version[j]}
      BY <1>5, Zenon DEF Described, Fresher
  <2>2. b.describe[j] \in {0, version[j]} \/ Comes(bus, "Loaded", {j})
      BY <1>5, Zenon DEF JigsNamed
  <2>3. CASE b.describe[j] \in {0, version[j]}
      BY <2>1, <2>3, Zenon
  <2>4. CASE h.what = "Loaded" /\ h.unit \in {j}
      BY <1>5, <2>1, <2>4, Zenon DEF Answered
  <2>5. CASE Comes(q, "Loaded", {j})
      BY <2>5, Zenon
  <2>6. QED
      BY <1>3, <2>2, <2>3, <2>4, <2>5, Zenon
<1>8. CASE h.what = "InitialGreeting" /\ h.by = i
  <2>1. Informed(c, manager.jig, manager.scenario, loaded, version, <<>>)
      BY <1>5, <1>8, Zenon DEF Answered
  <2>2. \A what, units : ~Comes(<<>>, what, units)
      BY AmongNone, Zenon DEF Comes
  <2>3. Informed(c, manager.jig, scenario, loaded, version, q)
      BY <2>1, <2>2, Zenon DEF Informed
  <2>4. QED
      BY <1>7, <2>3, Zenon
<1>9. CASE Informed(b, manager.jig, manager.scenario, loaded, version, bus)
  <2>1. c.hello
      BY <1>5, <1>9, Zenon DEF Informed, Fresher
  <2>2. c.list = loaded \cap Scenario \/ Comes(q, "Loaded", loaded \cap Scenario)
    <3>1. CASE b.list = loaded \cap Scenario
        BY <1>5, <3>1, Zenon DEF Fresher, Scenarios
    <3>2. CASE h.what = "Loaded" /\ h.unit \in loaded \cap Scenario
        BY <1>5, <3>2, Zenon DEF Answered, Scenarios, Described
    <3>3. QED
        BY <1>3, <1>9, <3>1, <3>2, Zenon DEF Informed
  <2>3. manager.jig \in {c.jig, None} \/ Comes(q, "Selected", Jig)
    <3>1. CASE manager.jig \in {b.jig, None}
        BY <1>5, <3>1, Zenon DEF Fresher
    <3>2. CASE h.what = "Selected" /\ h.unit \in Jig
        BY <1>5, <3>2, Zenon DEF Answered
    <3>3. QED
        BY <1>3, <1>9, <3>1, <3>2, Zenon DEF Informed
  <2>4. scenario = None \/ KnowsScenario(c, scenario, version) \/ Comes(q, "Selected", Scenario)
    <3>1. CASE scenario = manager.scenario /\ scenario # None
      <4>1. CASE KnowsScenario(b, scenario, version)
          BY <1>5, <1>6, <3>1, <4>1, Zenon DEF Fresher
      <4>2. CASE h.what = "Selected" /\ h.unit \in Scenario
          BY <1>5, <3>1, <4>2, Zenon DEF Answered
      <4>3. QED
          BY <1>3, <1>9, <3>1, <4>1, <4>2, Zenon DEF Informed
    <3>2. QED
        BY <3>1, Zenon
  <2>5. ASSUME NEW s \in loaded \cap Scenario
        PROVE  c.describe[s] = version[s] \/ Comes(q, "Loaded", {s})
    <3>1. s \in Described /\ c.describe[s] \in {b.describe[s], version[s]}
        BY <1>5, Zenon DEF Described, Fresher
    <3>2. CASE b.describe[s] = version[s]
        BY <3>1, <3>2, Zenon
    <3>3. CASE h.what = "Loaded" /\ h.unit \in {s}
        BY <1>5, <3>1, <3>3, Zenon DEF Answered
    <3>4. QED
        BY <1>3, <1>9, <3>2, <3>3, Zenon DEF Informed
  <2>6. Informed(c, manager.jig, scenario, loaded, version, q)
      BY <2>1, <2>2, <2>3, <2>4, <2>5, Zenon DEF Informed
  <2>7. QED
      BY <1>7, <2>6, Zenon
<1>10. QED
    BY <1>4, <1>5, <1>7, <1>8, <1>9, Zenon

(* The news reached the interfaces that kept their processes.               *)
Sent(m, interfaces, news) ==
    /\ Tables(manager', loaded)
    /\ manager'.jig = m.jig /\ manager'.scenario = m.scenario
    /\ manager'.process \subseteq m.process
    /\ told' \in [Interface -> Belief]
    /\ \A i \in manager'.process \cap Interface :
          told'[i] = IF i \in interfaces THEN news[i] ELSE told[i]

(* send_messages_to: an interface that still has a process believes the     *)
(* news, if it was among those who were told.                               *)
LEMMA SendsKeeps ==
    ASSUME ViewTypes, NEW m, Tables(m, loaded), NEW interfaces \in SUBSET Client,
           NEW news, \A i \in Interface : news[i] \in Belief, Sends(m, interfaces, news)
    PROVE  Sent(m, interfaces, news)
<1>1. PICK broken \in SUBSET (interfaces \cap m.process) :
         LET deaf == broken \cup (interfaces \ m.process)
         IN /\ told' = [i \in Interface |->
                  IF i \in interfaces \ deaf THEN news[i] ELSE told[i]]
            /\ \E failing \in SUBSET broken : manager' = Deactivate(m, deaf, failing)
    BY Zenon DEF Sends
<1> DEFINE deaf == broken \cup (interfaces \ m.process)
<1>2. PICK failing \in SUBSET broken : manager' = Deactivate(m, deaf, failing)
    BY <1>1, Zenon
<1>3. told' = [i \in Interface |-> IF i \in interfaces \ deaf THEN news[i] ELSE told[i]]
    BY <1>1, Zenon
<1>4. deaf \in SUBSET Client /\ failing \in SUBSET Client
    BY Zenon
<1> HIDE DEF deaf
<1>5. Deactivated(manager', m, deaf, loaded)
  <2>1. loaded \in SUBSET Unit
      BY Zenon DEF ViewTypes
  <2>2. QED
      BY <1>2, <1>4, <2>1, DeactivateKeeps, Zenon
<1>6. told' \in [Interface -> Belief]
    BY <1>3, Zenon DEF ViewTypes
<1>7. ASSUME NEW i \in manager'.process \cap Interface
      PROVE  told'[i] = IF i \in interfaces THEN news[i] ELSE told[i]
  <2>1. i \notin deaf
      BY <1>5, Zenon DEF Deactivated
  <2>2. QED
      BY <1>3, <2>1, Zenon
<1>8. QED
    BY <1>5, <1>6, <1>7, Zenon DEF Deactivated, Sent

(* A step of the main thread that answers what it takes off the bus keeps   *)
(* the invariant.                                                           *)
LEMMA StepKeeps ==
    ASSUME ViewInv, ~panicked, bus # <<>>,
           Tables(manager', loaded), manager'.jig = manager.jig,
           manager'.process \subseteq manager.process,
           told' \in [Interface -> Belief], bus' \in Seq(Message),
           Among(Tail(bus)) \subseteq Among(bus'),
           UNCHANGED <<loaded, version, control, rescans>>,
           \A i \in manager'.process \cap Interface :
              /\ Fresher(told'[i], told[i], manager'.scenario)
              /\ Answered(told'[i], Head(bus), i)
              /\ \/ manager'.scenario \in {manager.scenario, None}
                 \/ KnowsScenario(told'[i], manager'.scenario, version)
    PROVE  ViewInv'
<1>1. /\ ViewTypes /\ Tables(manager, loaded)
      /\ loaded' = loaded /\ version' = version /\ control' = control /\ rescans' = rescans
    BY Zenon DEF ViewInv
<1>2. ViewTypes'
    BY <1>1, Zenon DEF ViewTypes
<1>3. Tables(manager', loaded')
    BY <1>1, Zenon
<1>4. ASSUME NEW i \in manager'.process \cap Interface
      PROVE  Seen(i)'
  <2>1. Seen(i)
      BY Zenon DEF ViewInv
  <2> DEFINE c == told'[i]
             scenario == manager'.scenario
             q == bus'
  <2>2. /\ Fresher(c, told[i], scenario) /\ Answered(c, Head(bus), i)
        /\ scenario \in {manager.scenario, None} \/ KnowsScenario(c, scenario, version)
      BY Zenon
  <2>3. Among(Tail(bus)) \subseteq Among(q)
      BY Zenon
  <2> HIDE DEF c, scenario, q
  <2>4. /\ JigsNamed(c, loaded, version, q)
        /\ \/ Greets(q, i) \/ Greets(control, i)
           \/ Informed(c, manager.jig, scenario, loaded, version, q)
      BY ONLY <1>1, bus # <<>>, <2>1, <2>2, <2>3, TakenKeeps, Zenon
  <2>5. /\ JigsNamed(told'[i], loaded', version', bus')
        /\ \/ Greets(bus', i) \/ Greets(control', i)
           \/ Informed(told'[i], manager'.jig, manager'.scenario, loaded', version', bus')
      BY <1>1, <2>4, Zenon DEF c, scenario, q
  <2>6. QED
      BY <2>5, Zenon DEF Seen
<1>5. QED
    BY <1>2, <1>3, <1>4, Zenon DEF ViewInv

(* In particular one after which all interfaces believe the news.           *)
LEMMA BroadcastKeeps ==
    ASSUME ViewInv, ~panicked, bus # <<>>,
           NEW m, m.jig = manager.jig, m.process = manager.process,
           NEW news, Sent(m, Interfaces, news),
           bus' \in Seq(Message), Among(Tail(bus)) \subseteq Among(bus'),
           UNCHANGED <<loaded, version, control, rescans>>,
           \A i \in Interface :
              /\ Fresher(news[i], told[i], m.scenario)
              /\ Answered(news[i], Head(bus), i)
              /\ \/ m.scenario \in {manager.scenario, None}
                 \/ KnowsScenario(news[i], m.scenario, version)
    PROVE  ViewInv'
<1>1. /\ Tables(manager', loaded) /\ manager'.jig = manager.jig
      /\ manager'.process \subseteq manager.process /\ told' \in [Interface -> Belief]
      /\ manager'.scenario = m.scenario
    BY Zenon DEF Sent
<1>2. ASSUME NEW i \in manager'.process \cap Interface PROVE told'[i] = news[i]
  <2>1. i \in Interfaces
      BY <1>1, Zenon DEF ViewInv, Tables, ProcessTable, Interfaces
  <2>2. QED
      BY <2>1, Zenon DEF Sent
<1>3. \A i \in manager'.process \cap Interface :
         /\ Fresher(told'[i], told[i], manager'.scenario)
         /\ Answered(told'[i], Head(bus), i)
         /\ \/ manager'.scenario \in {manager.scenario, None}
            \/ KnowsScenario(told'[i], manager'.scenario, version)
    BY <1>1, <1>2, Zenon
<1>4. QED
    BY <1>1, <1>3, StepKeeps, Zenon

(* The kinds of messages.                                                   *)
LEMMA Kinds ==
    /\ "Loaded" # "Selected" /\ "Loaded" # "InitialGreeting" /\ "Selected" # "InitialGreeting"
    /\ \A w \in {"Jig", "Scenarios", "Tests", "Scenario", "Start"} :
          w # "Loaded" /\ w # "Selected" /\ w # "InitialGreeting"
OBVIOUS

(* What is known of the state in which the main thread takes a message.     *)
LEMMA TakesFacts ==
    ASSUME ViewInv, NEW what, Takes(what)
    PROVE  /\ ViewTypes /\ Tables(manager, loaded) /\ ~panicked /\ bus # <<>>
           /\ Head(bus) \in Message /\ Head(bus).what = what
           /\ Tail(bus) \in Seq(Message)
           /\ UNCHANGED <<loaded, version, rescans>>
           /\ \A i \in Interface : told[i] \in Belief
           /\ manager.process \cap Interface \subseteq Interfaces
           /\ Interfaces \in SUBSET Client /\ manager.process \subseteq loaded
<1>1. ViewTypes /\ Tables(manager, loaded) /\ ~panicked /\ bus # <<>> /\ Head(bus).what = what
      /\ UNCHANGED <<loaded, version, rescans>>
    BY Zenon DEF ViewInv, Takes
<1>2. Head(bus) \in Message /\ Tail(bus) \in Seq(Message)
  <2>1. bus \in Seq(Message)
      BY <1>1, Zenon DEF ViewTypes
  <2>2. QED
      BY <1>1, <2>1, AmongTail, Zenon
<1>3. \A i \in Interface : told[i] \in Belief
    BY <1>1, Zenon DEF ViewTypes
<1>4. manager.process \subseteq loaded
    BY <1>1, Zenon DEF Tables, ProcessTable
<1>5. Interfaces \in SUBSET Client /\ manager.process \cap Interface \subseteq Interfaces
    BY <1>4, Zenon DEF Interfaces, Client
<1>6. QED
    BY <1>1, <1>2, <1>3, <1>4, <1>5, Zenon

(* A unit was loaded.                                                       *)
LEMMA HandleLoadedKeeps ==
    ASSUME ViewInv, HandleLoaded
    PROVE  ViewInv'
<1> DEFINE u == Head(bus).unit
           news == [i \in Interface |-> SendNamed(told[i], u)]
<1>0. Takes("Loaded") /\ bus' = Tail(bus) /\ control' = control
    BY Zenon DEF HandleLoaded
<1>1. /\ ViewTypes /\ Tables(manager, loaded) /\ ~panicked /\ bus # <<>>
      /\ Head(bus).what = "Loaded" /\ Tail(bus) \in Seq(Message)
      /\ UNCHANGED <<loaded, version, control, rescans>>
      /\ \A i \in Interface : told[i] \in Belief
      /\ manager.process \cap Interface \subseteq Interfaces /\ Interfaces \in SUBSET Client
    BY <1>0, TakesFacts, Zenon
<1>2. bus' \in Seq(Message) /\ Among(Tail(bus)) \subseteq Among(bus')
    BY <1>0, <1>1, Zenon
<1>3. CASE u \in loaded
  <2>1. Sends(manager, Interfaces, news)
      BY <1>3, Zenon DEF HandleLoaded
  <2>2. ASSUME NEW i \in Interface
        PROVE  /\ news[i] \in Belief /\ Fresher(news[i], told[i], manager.scenario)
               /\ Answered(news[i], Head(bus), i)
    <3>1. told[i] \in Belief
        BY <1>1, Zenon
    <3> DEFINE c == SendNamed(told[i], u)
    <3>2. /\ Fresher(c, told[i], manager.scenario)
          /\ u \in Described => c.describe[u] = version[u]
          /\ u \in Scenario => c.list = Scenarios
        BY <1>1, <3>1, SendNamedTells, Zenon
    <3>3. news[i] = c
        BY Zenon
    <3> HIDE DEF c, news
    <3>4. c \in Belief
        BY <3>2, Zenon DEF Fresher
    <3>5. Answered(c, Head(bus), i)
        BY <1>1, <3>2, Kinds, Zenon DEF Answered
    <3>6. QED
        BY <3>2, <3>3, <3>4, <3>5, Zenon
  <2> HIDE DEF news
  <2>3. Sent(manager, Interfaces, news)
      BY <1>1, <2>1, <2>2, SendsKeeps, Zenon
  <2>4. QED
      BY <1>1, <1>2, <2>2, <2>3, BroadcastKeeps, Zenon
<1>4. CASE u \notin loaded
  <2>1. manager' = manager /\ told' = told
      BY <1>4, Zenon DEF HandleLoaded
  <2>2. ASSUME NEW i \in manager'.process \cap Interface
        PROVE  Fresher(told'[i], told[i], manager.scenario) /\ Answered(told'[i], Head(bus), i)
      BY <1>1, <1>4, <2>1, FresherSame, Kinds, Zenon DEF Answered
  <2>3. told' \in [Interface -> Belief]
      BY <1>1, <2>1, Zenon DEF ViewTypes
  <2>4. QED
      BY <1>1, <1>2, <2>1, <2>2, <2>3, StepKeeps, Zenon
<1>5. QED
    BY <1>3, <1>4, Zenon

(* A unit was selected.                                                     *)
LEMMA HandleSelectedKeeps ==
    ASSUME ViewInv, HandleSelected
    PROVE  ViewInv'
<1> DEFINE u == Head(bus).unit
           news == [i \in Interface |-> SendSelected(told[i], u)]
           some == (u \in Jig /\ manager.jig # None) \/ (u \in Scenario /\ manager.scenario # None)
<1>0. Takes("Selected") /\ bus' = Tail(bus) /\ control' = control
    BY Zenon DEF HandleSelected
<1>1. /\ ViewTypes /\ Tables(manager, loaded) /\ ~panicked /\ bus # <<>>
      /\ Head(bus).what = "Selected" /\ Tail(bus) \in Seq(Message)
      /\ UNCHANGED <<loaded, version, control, rescans>>
      /\ \A i \in Interface : told[i] \in Belief
      /\ Interfaces \in SUBSET Client
    BY <1>0, TakesFacts, Zenon
<1>2. bus' \in Seq(Message) /\ Among(Tail(bus)) \subseteq Among(bus')
    BY <1>0, <1>1, Zenon
<1>3. CASE some
  <2>1. Sends(manager, Interfaces, news)
      BY <1>3, Zenon DEF HandleSelected
  <2>2. ASSUME NEW i \in Interface
        PROVE  /\ news[i] \in Belief /\ Fresher(news[i], told[i], manager.scenario)
               /\ Answered(news[i], Head(bus), i)
    <3>1. told[i] \in Belief
        BY <1>1, Zenon
    <3> DEFINE c == SendSelected(told[i], u)
    <3>2. /\ Fresher(c, told[i], manager.scenario)
          /\ u \in Jig => manager.jig \in {c.jig, None}
          /\ u \in Scenario =>
                manager.scenario = None \/ KnowsScenario(c, manager.scenario, version)
        BY <1>1, <3>1, SendSelectedTells, Zenon
    <3>3. news[i] = c
        BY Zenon
    <3> HIDE DEF c, news
    <3>4. c \in Belief
        BY <3>2, Zenon DEF Fresher
    <3>5. Answered(c, Head(bus), i)
        BY <1>1, <3>2, Kinds, Zenon DEF Answered
    <3>6. QED
        BY <3>2, <3>3, <3>4, <3>5, Zenon
  <2> HIDE DEF news
  <2>3. Sent(manager, Interfaces, news)
      BY <1>1, <2>1, <2>2, SendsKeeps, Zenon
  <2>4. QED
      BY <1>1, <1>2, <2>2, <2>3, BroadcastKeeps, Zenon
<1>4. CASE ~some
  <2>1. manager' = manager /\ told' = told
      BY <1>4, Zenon DEF HandleSelected
  <2>2. ASSUME NEW i \in manager'.process \cap Interface
        PROVE  Fresher(told'[i], told[i], manager.scenario) /\ Answered(told'[i], Head(bus), i)
      BY <1>1, <1>4, <2>1, FresherSame, Kinds, Zenon DEF Answered
  <2>3. told' \in [Interface -> Belief]
      BY <1>1, <2>1, Zenon DEF ViewTypes
  <2>4. QED
      BY <1>1, <1>2, <2>1, <2>2, <2>3, StepKeeps, Zenon
<1>5. QED
    BY <1>3, <1>4, Zenon

(* An answer to the one who asked.                                          *)
LEMMA AnswersKeeps ==
    ASSUME ViewInv, NEW what, what # "Loaded", what # "Selected", NEW news, Answers(what, news),
           \A i \in Interface : /\ Fresher(news[i], told[i], manager.scenario)
                                /\ Answered(news[i], Head(bus), i)
    PROVE  ViewInv'
<1> DEFINE by == Head(bus).by
           one == {by}
<1>0. Takes(what) /\ bus' = Tail(bus) /\ control' = control
    BY Zenon DEF Answers
<1>1. /\ ViewTypes /\ Tables(manager, loaded) /\ ~panicked /\ bus # <<>>
      /\ Head(bus) \in Message /\ Head(bus).what = what /\ Tail(bus) \in Seq(Message)
      /\ UNCHANGED <<loaded, version, control, rescans>>
      /\ \A i \in Interface : told[i] \in Belief
    BY <1>0, TakesFacts, Zenon
<1>2. bus' \in Seq(Message) /\ Among(Tail(bus)) \subseteq Among(bus')
    BY <1>0, <1>1, Zenon
<1>3. CASE by \in loaded
  <2>1. Sends(manager, one, news)
      BY <1>3, Zenon DEF Answers
  <2>2. one \in SUBSET Client
    <3>1. by \in Client \cup {None}
        BY <1>1, Zenon DEF Message
    <3>2. by # None
        BY <1>1, <1>3, ManagerAssumption, Zenon DEF ViewTypes
    <3>3. QED
        BY <3>1, <3>2, Zenon
  <2>3. \A i : i \in one <=> i = by
      BY Zenon
  <2> HIDE DEF one
  <2>4. \A i \in Interface : news[i] \in Belief
      BY Zenon DEF Fresher
  <2>5. Sent(manager, one, news)
      BY <1>1, <2>1, <2>2, <2>4, SendsKeeps, Zenon
  <2>6. /\ Tables(manager', loaded) /\ manager'.jig = manager.jig
        /\ manager'.process \subseteq manager.process /\ told' \in [Interface -> Belief]
        /\ manager'.scenario = manager.scenario
        /\ \A i \in manager'.process \cap Interface :
              told'[i] = IF i \in one THEN news[i] ELSE told[i]
      BY <2>5, Zenon DEF Sent
  <2>7. ASSUME NEW i \in manager'.process \cap Interface
        PROVE  /\ Fresher(told'[i], told[i], manager'.scenario)
               /\ Answered(told'[i], Head(bus), i)
    <3>1. CASE i \in one
        BY <2>6, <3>1, Zenon
    <3>2. CASE i \notin one
      <4>1. told'[i] = told[i]
          BY <2>6, <3>2, Zenon
      <4>2. Fresher(told[i], told[i], manager'.scenario)
          BY <1>1, FresherSame, Zenon
      <4>3. Answered(told[i], Head(bus), i)
          BY <1>1, <2>3, <3>2, Zenon DEF Answered
      <4>4. QED
          BY <4>1, <4>2, <4>3, Zenon
    <3>3. QED
        BY <3>1, <3>2, Zenon
  <2>8. QED
      BY <1>1, <1>2, <2>6, <2>7, StepKeeps, Zenon
<1>4. CASE by \notin loaded
  <2>1. panicked' = TRUE /\ manager' = manager /\ told' = told
      BY <1>4, Zenon DEF Answers
  <2>2. QED
      BY <1>1, <1>2, <2>1, Zenon DEF ViewInv, ViewTypes
<1>5. QED
    BY <1>3, <1>4, Zenon

(* The answers, one by one.                                                 *)
LEMMA HandleGreetingKeeps ==
    ASSUME ViewInv, HandleGreeting
    PROVE  ViewInv'
<1> DEFINE news == [i \in Interface |-> SendGreeting(told[i])]
<1>1. Answers("InitialGreeting", news)
    BY Zenon DEF HandleGreeting
<1>2. /\ ViewTypes /\ Tables(manager, loaded) /\ Head(bus).what = "InitialGreeting"
      /\ \A i \in Interface : told[i] \in Belief
  <2>1. Takes("InitialGreeting")
      BY <1>1, Zenon DEF Answers
  <2>2. QED
      BY <2>1, TakesFacts, Zenon
<1>3. ASSUME NEW i \in Interface
      PROVE  Fresher(news[i], told[i], manager.scenario) /\ Answered(news[i], Head(bus), i)
  <2> DEFINE c == SendGreeting(told[i])
  <2>1. /\ Fresher(c, told[i], manager.scenario)
        /\ \A q : Informed(c, manager.jig, manager.scenario, loaded, version, q)
      BY <1>2, SendGreetingTells, Zenon
  <2>2. news[i] = c
      BY Zenon
  <2> HIDE DEF c, news
  <2>3. Answered(c, Head(bus), i)
      BY <1>2, <2>1, Kinds, Zenon DEF Answered
  <2>4. QED
      BY <2>1, <2>2, <2>3, Zenon
<1> HIDE DEF news
<1>4. QED
    BY <1>1, <1>3, AnswersKeeps, Kinds, Zenon

(* To a question that is not a greeting any news is an answer.              *)
LEMMA QuestionKeeps ==
    ASSUME ViewInv, NEW what \in {"Jig", "Scenarios", "Tests"}, NEW news, Answers(what, news),
           \A i \in Interface : Fresher(news[i], told[i], manager.scenario)
    PROVE  ViewInv'
<1>1. what # "Loaded" /\ what # "Selected" /\ what # "InitialGreeting"
    BY Kinds, Zenon
<1>2. Head(bus).what = what
    BY Zenon DEF Answers, Takes
<1>3. \A i \in Interface : Answered(news[i], Head(bus), i)
    BY <1>1, <1>2, Zenon DEF Answered
<1>4. QED
    BY <1>1, <1>3, AnswersKeeps, Zenon

(* The jig.                                                                 *)
LEMMA HandleJigKeeps ==
    ASSUME ViewInv, HandleJig
    PROVE  ViewInv'
<1> DEFINE news == [i \in Interface |-> SendJig(told[i])]
<1>1. Answers("Jig", news)
    BY Zenon DEF HandleJig
<1>2. \A i \in Interface : Fresher(SendJig(told[i]), told[i], manager.scenario)
    BY SendJigTells, Zenon DEF ViewInv, ViewTypes
<1>3. \A i \in Interface : Fresher(news[i], told[i], manager.scenario)
    BY <1>2, Zenon
<1> HIDE DEF news
<1>4. QED
    BY <1>1, <1>3, QuestionKeeps, Zenon

(* The scenarios.                                                           *)
LEMMA HandleScenariosKeeps ==
    ASSUME ViewInv, HandleScenarios
    PROVE  ViewInv'
<1> DEFINE news == [i \in Interface |-> SendScenarios(told[i])]
<1>1. Answers("Scenarios", news)
    BY Zenon DEF HandleScenarios
<1>2. \A i \in Interface : Fresher(SendScenarios(told[i]), told[i], manager.scenario)
    BY SendScenariosTells, Zenon DEF ViewInv, ViewTypes
<1>3. \A i \in Interface : Fresher(news[i], told[i], manager.scenario)
    BY <1>2, Zenon
<1> HIDE DEF news
<1>4. QED
    BY <1>1, <1>3, QuestionKeeps, Zenon

(* The tests of a scenario.                                                 *)
LEMMA HandleTestsKeeps ==
    ASSUME ViewInv, HandleTests
    PROVE  ViewInv'
<1> DEFINE s == IF Head(bus).unit = None THEN manager.scenario ELSE Head(bus).unit
           news == [i \in Interface |-> TellTests(told[i], s)]
<1>1. CASE s \in loaded
  <2>1. Answers("Tests", news)
      BY <1>1, Zenon DEF HandleTests
  <2> HIDE DEF s
  <2>2. \A i \in Interface : Fresher(TellTests(told[i], s), told[i], manager.scenario)
      BY TellTestsTells, Zenon DEF ViewInv, ViewTypes
  <2>3. \A i \in Interface : Fresher(news[i], told[i], manager.scenario)
      BY <2>2, Zenon
  <2> HIDE DEF news
  <2>4. QED
      BY <2>1, <2>3, QuestionKeeps, Zenon
<1>2. CASE s \notin loaded
  <2>1. /\ Takes("Tests") /\ bus' = Tail(bus) /\ control' = control
        /\ manager' = manager /\ told' = told
      BY <1>2, Zenon DEF HandleTests
  <2>2. /\ ViewTypes /\ Tables(manager, loaded) /\ ~panicked /\ bus # <<>>
        /\ Head(bus).what = "Tests" /\ Tail(bus) \in Seq(Message)
        /\ UNCHANGED <<loaded, version, control, rescans>>
        /\ \A i \in Interface : told[i] \in Belief
      BY <2>1, TakesFacts, Zenon
  <2>3. ASSUME NEW i \in manager'.process \cap Interface
        PROVE  Fresher(told'[i], told[i], manager.scenario) /\ Answered(told'[i], Head(bus), i)
      BY <2>1, <2>2, FresherSame, Kinds, Zenon DEF Answered
  <2>4. told' \in [Interface -> Belief]
      BY <2>1, <2>2, Zenon DEF ViewTypes
  <2>5. QED
      BY <2>1, <2>2, <2>3, <2>4, StepKeeps, Zenon
<1>3. QED
    BY <1>1, <1>2, Zenon

-----------------------------------------------------------------------------
(***************************************************************************)
(* The events of loading and selecting.                                    *)
(***************************************************************************)
(* An event is a message.                                                   *)
LEMMA EventIsMessage ==
    ASSUME NEW what \in {"Loaded", "Selected"}, NEW u \in Unit
    PROVE  /\ Event(what, u) \in Message
           /\ Event(what, u).what = what /\ Event(what, u).unit = u
<1>1. what \in Kind /\ what # "Scenario"
    BY DEF Kind
<1>2. QED
    BY <1>1, Zenon DEF Event, Message

(* Every loaded jig and every loaded scenario is announced.                 *)
LEMMA LoadedEventsAnnounce ==
    ASSUME NEW units \in SUBSET Unit
    PROVE  /\ LoadedEvents(units) \in Seq(Message)
           /\ \A u \in units \cap Described : \E x \in Among(LoadedEvents(units)) :
                 x.what = "Loaded" /\ x.unit = u
<1> DEFINE jigs == AnyOrder(units \cap Jig)
           scenarios == AnyOrder(units \cap Scenario)
           order == jigs \o scenarios
           events == LoadedEvents(units)
<1>1. IsFiniteSet(units \cap Jig) /\ IsFiniteSet(units \cap Scenario)
  <2>1. units \cap Jig \in SUBSET Unit /\ units \cap Scenario \in SUBSET Unit
      BY Zenon
  <2>2. QED
      BY <2>1, ViewAssumption, FS_Subset, Zenon
<1>2. /\ jigs \in Seq(units \cap Jig) /\ Among(jigs) = units \cap Jig
      /\ scenarios \in Seq(units \cap Scenario) /\ Among(scenarios) = units \cap Scenario
    BY <1>1, AmongAnyOrder, Zenon
<1>3. events = [n \in 1 .. Len(order) |-> Event("Loaded", order[n])]
    BY Zenon DEF LoadedEvents
<1> HIDE DEF jigs, scenarios
<1>4. jigs \in Seq(Unit) /\ scenarios \in Seq(Unit)
    BY <1>2
<1>5. order \in Seq(Unit) /\ Among(order) = Among(jigs) \cup Among(scenarios)
    BY <1>4, AmongConcat, Zenon
<1> HIDE DEF order, events
<1>6. Len(order) \in Nat /\ \A n \in 1 .. Len(order) : order[n] \in Unit
    BY <1>5
<1>7. /\ \A n \in 1 .. Len(order) : Event("Loaded", order[n]) \in Message
      /\ \A u \in Unit : Event("Loaded", u).what = "Loaded" /\ Event("Loaded", u).unit = u
    BY <1>6, EventIsMessage, Zenon
<1>8. events \in [1 .. Len(order) -> Message]
    BY <1>3, <1>7, Zenon
<1>9. events \in Seq(Message) /\ Len(events) = Len(order)
    BY <1>6, <1>8
<1>10. ASSUME NEW u \in units \cap Described
       PROVE  \E x \in Among(events) : x.what = "Loaded" /\ x.unit = u
  <2>1. u \in Among(order)
      BY <1>2, <1>5, Zenon DEF Described
  <2>2. PICK n \in 1 .. Len(order) : u = order[n]
      BY <2>1, Zenon DEF Among
  <2>3. events[n] = Event("Loaded", u)
      BY <1>3, <2>2, Zenon
  <2>4. events[n] \in Among(events)
      BY <1>9, Zenon DEF Among
  <2>5. QED
      BY <1>7, <2>3, <2>4, Zenon
<1>11. QED
    BY <1>9, <1>10, Zenon DEF events

(* A jig or a scenario that becomes the current one is announced.           *)
LEMMA SelectedEventsAnnounce ==
    ASSUME NEW before \in ManagerTables, NEW after \in ManagerTables
    PROVE  LET q == SelectedEvents(before, after)
           IN  /\ q \in Seq(Message)
               /\ after.jig \in {before.jig, None} \/ Comes(q, "Selected", Jig)
               /\ after.scenario \in {before.scenario, None} \/ Comes(q, "Selected", Scenario)
<1> DEFINE s == after.scenario
           j == after.jig
           x == Event("Selected", s)
           y == Event("Selected", j)
           p == IF s \notin {before.scenario, None} THEN <<x>> ELSE <<>>
           r == IF j \notin {before.jig, None} THEN <<y>> ELSE <<>>
           q == SelectedEvents(before, after)
<1>1. q = p \o r
    BY Zenon DEF SelectedEvents
<1>2. s \in Scenario \cup {None} /\ j \in Jig \cup {None}
    BY TableFields, Zenon
<1>3. /\ s # None => x \in Message /\ x.what = "Selected" /\ x.unit = s /\ s \in Scenario
      /\ j # None => y \in Message /\ y.what = "Selected" /\ y.unit = j /\ j \in Jig
    BY <1>2, EventIsMessage, Zenon DEF Unit
<1> HIDE DEF x, y
<1>4. p \in Seq(Message) /\ (s \in {before.scenario, None} \/ x \in Among(p))
  <2>1. CASE s \in {before.scenario, None}
    <3>1. p = <<>>
        BY <2>1, Zenon
    <3>2. QED
        BY <2>1, <3>1, AmongNone, Zenon
  <2>2. CASE s \notin {before.scenario, None}
    <3>1. p = <<x>> /\ x \in Message
        BY <1>3, <2>2, Zenon
    <3>2. <<x>> \in Seq(Message) /\ Among(<<x>>) = {x}
        BY <3>1, AmongOne, Zenon
    <3>3. QED
        BY <3>1, <3>2, Zenon
  <2>3. QED
      BY <2>1, <2>2, Zenon
<1>5. r \in Seq(Message) /\ (j \in {before.jig, None} \/ y \in Among(r))
  <2>1. CASE j \in {before.jig, None}
    <3>1. r = <<>>
        BY <2>1, Zenon
    <3>2. QED
        BY <2>1, <3>1, AmongNone, Zenon
  <2>2. CASE j \notin {before.jig, None}
    <3>1. r = <<y>> /\ y \in Message
        BY <1>3, <2>2, Zenon
    <3>2. <<y>> \in Seq(Message) /\ Among(<<y>>) = {y}
        BY <3>1, AmongOne, Zenon
    <3>3. QED
        BY <3>1, <3>2, Zenon
  <2>3. QED
      BY <2>1, <2>2, Zenon
<1> HIDE DEF p, r, q
<1>6. q \in Seq(Message) /\ Among(q) = Among(p) \cup Among(r)
  <2>1. p \in Seq(Message) /\ r \in Seq(Message)
      BY <1>4, <1>5, Zenon
  <2>2. p \o r \in Seq(Message) /\ Among(p \o r) = Among(p) \cup Among(r)
      BY ONLY <2>1, AmongConcat, Zenon
  <2>3. q = p \o r
      BY <1>1, Zenon DEF q
  <2>4. QED
      BY <2>2, <2>3, Zenon
<1>7. j \in {before.jig, None} \/ Comes(q, "Selected", Jig)
    BY <1>3, <1>5, <1>6, Zenon DEF Comes
<1>8. s \in {before.scenario, None} \/ Comes(q, "Selected", Scenario)
    BY <1>3, <1>4, <1>6, Zenon DEF Comes
<1>9. QED
    BY <1>6, <1>7, <1>8, Zenon DEF q

(* A scenario is chosen.                                                    *)
LEMMA HandleScenarioKeeps ==
    ASSUME ViewInv, HandleScenario
    PROVE  ViewInv'
<1> DEFINE s == Head(bus).unit
           m == SelectScenario(manager, s, loaded)
           news == [i \in Interface |-> TellScenario(told[i], m.scenario)]
<1>1. Takes("Scenario") /\ control' = control
    BY Zenon DEF HandleScenario
<1>2. /\ ViewTypes /\ Tables(manager, loaded) /\ ~panicked /\ bus # <<>>
      /\ Head(bus) \in Message /\ Head(bus).what = "Scenario" /\ Tail(bus) \in Seq(Message)
      /\ UNCHANGED <<loaded, version, control, rescans>>
      /\ \A i \in Interface : told[i] \in Belief
      /\ Interfaces \in SUBSET Client
    BY <1>1, TakesFacts, Zenon
<1>3. s \in Scenario /\ loaded \in SUBSET Unit
    BY <1>2, Zenon DEF Message, ViewTypes
<1>4. \A c, i : Answered(c, Head(bus), i)
    BY <1>2, Kinds, Zenon DEF Answered
<1>5. CASE s \in loaded
  <2>1. Sends(m, Interfaces, news) /\ bus' = Tail(bus) \o SelectedEvents(manager, m)
      BY <1>5, Zenon DEF HandleScenario
  <2>2. Tables(m, loaded) /\ m.jig = manager.jig /\ m.process = manager.process
      BY <1>2, <1>3, SelectScenarioTables, Zenon
  <2> HIDE DEF m
  <2>3. m \in ManagerTables /\ manager \in ManagerTables
      BY <1>2, <2>2, Zenon DEF Tables
  <2>4. m.scenario \in Scenario \cup {None}
      BY <2>3, TableFields, Zenon
  <2>5. ASSUME NEW i \in Interface
        PROVE  /\ news[i] \in Belief /\ Fresher(news[i], told[i], m.scenario)
               /\ m.scenario = None \/ KnowsScenario(news[i], m.scenario, version)
    <3> DEFINE c == TellScenario(told[i], m.scenario)
    <3>1. /\ Fresher(c, told[i], m.scenario)
          /\ m.scenario \in Scenario => KnowsScenario(c, m.scenario, version)
        BY <1>2, <2>4, TellScenarioTells, Zenon
    <3>2. news[i] = c
        BY Zenon
    <3> HIDE DEF c, news
    <3>3. c \in Belief
        BY <3>1, Zenon DEF Fresher
    <3>4. QED
        BY <2>4, <3>1, <3>2, <3>3, Zenon
  <2> HIDE DEF news
  <2>6. Sent(m, Interfaces, news)
      BY <1>2, <2>1, <2>2, <2>5, SendsKeeps, Zenon
  <2> DEFINE q == SelectedEvents(manager, m)
  <2>7. q \in Seq(Message)
      BY <2>3, SelectedEventsAnnounce, Zenon
  <2> HIDE DEF q
  <2>8. bus' \in Seq(Message) /\ Among(Tail(bus)) \subseteq Among(bus')
    <3>1. bus' = Tail(bus) \o q
        BY <2>1, Zenon DEF q
    <3> DEFINE rest == Tail(bus)
    <3>2. rest \in Seq(Message)
        BY <1>2, Zenon
    <3> HIDE DEF rest
    <3>3. rest \o q \in Seq(Message) /\ Among(rest \o q) = Among(rest) \cup Among(q)
        BY <2>7, <3>2, AmongConcat, Zenon
    <3>4. QED
        BY <3>1, <3>3, Zenon DEF rest
  <2>9. \A i \in Interface :
           /\ Fresher(news[i], told[i], m.scenario)
           /\ Answered(news[i], Head(bus), i)
           /\ \/ m.scenario \in {manager.scenario, None}
              \/ KnowsScenario(news[i], m.scenario, version)
      BY <1>4, <2>5, Zenon
  <2>10. QED
      BY <1>2, <2>2, <2>6, <2>8, <2>9, BroadcastKeeps, Zenon
<1>6. CASE s \notin loaded
  <2>1. bus' = Tail(bus) /\ manager' = manager /\ told' = told
      BY <1>6, Zenon DEF HandleScenario
  <2>2. ASSUME NEW i \in manager'.process \cap Interface
        PROVE  Fresher(told'[i], told[i], manager.scenario) /\ Answered(told'[i], Head(bus), i)
      BY <1>2, <1>4, <2>1, FresherSame, Zenon
  <2>3. told' \in [Interface -> Belief]
      BY <1>2, <2>1, Zenon DEF ViewTypes
  <2>4. QED
      BY <1>2, <2>1, <2>2, <2>3, StepKeeps, Zenon
<1>7. QED
    BY <1>5, <1>6, Zenon

-----------------------------------------------------------------------------
(***************************************************************************)
(* A START, and a rescan.                                                  *)
(***************************************************************************)
(* Every new process will be greeted.                                       *)
LEMMA GreetingsAnnounce ==
    ASSUME NEW new \in SUBSET Client
    PROVE  Greetings(new) \in Seq(Message) /\ \A i \in new : Greets(Greetings(new), i)
<1> DEFINE order == AnyOrder(new)
           N == Cardinality(new)
           g == Greetings(new)
<1>1. IsFiniteSet(new)
  <2>1. new \in SUBSET Unit
      BY Zenon DEF Unit
  <2>2. QED
      BY <2>1, ViewAssumption, FS_Subset, Zenon
<1>a. g = [n \in 1 .. N |-> Ask("InitialGreeting", None, order[n])]
    BY Zenon DEF Greetings
<1>2. order \in Seq(new) /\ Among(order) = new /\ Len(order) = N /\ N \in Nat
    BY <1>1, AmongAnyOrder, Zenon
<1> HIDE DEF order, N, g
<1>3. \A n \in 1 .. N : order[n] \in new
    BY <1>2
<1>4. "InitialGreeting" \in Kind /\ "InitialGreeting" # "Scenario"
    BY DEF Kind
<1>5. \A i \in new : /\ Ask("InitialGreeting", None, i) \in Message
                     /\ Ask("InitialGreeting", None, i).what = "InitialGreeting"
                     /\ Ask("InitialGreeting", None, i).by = i
    BY <1>4, Zenon DEF Ask, Message
<1>6. g \in [1 .. N -> Message]
    BY <1>3, <1>5, <1>a, Zenon
<1>7. \A n \in 1 .. N : g[n] = Ask("InitialGreeting", None, order[n])
    BY <1>a, Zenon
<1>8. g \in Seq(Message) /\ Len(g) = N
    BY <1>2, <1>6
<1>9. ASSUME NEW i \in new PROVE Greets(g, i)
  <2>1. PICK n \in 1 .. N : i = order[n]
      BY <1>2, Zenon DEF Among
  <2>2. g[n] = Ask("InitialGreeting", None, i) /\ g[n] \in Among(g)
      BY <1>7, <1>8, <2>1, Zenon DEF Among
  <2>3. QED
      BY <1>5, <2>2, Zenon DEF Greets
<1>10. QED
    BY <1>8, <1>9, Zenon DEF g

(* More units, the same tables.                                             *)
LEMMA TablesMonotonic ==
    ASSUME NEW few, NEW many, few \subseteq many, NEW m, Tables(m, few)
    PROVE  Tables(m, many)
BY Zenon DEF Tables, JigTable, ScenarioTable, ProcessTable

(* A START: what is selected is announced, and an interface that is started *)
(* will be greeted.                                                         *)
LEMMA StartKeeps ==
    ASSUME ViewInv, Takes("Start"), NEW u \in Unit, Start(u), ~panicked'
    PROVE  ViewInv'
<1>1. /\ ViewTypes /\ Tables(manager, loaded) /\ ~panicked /\ bus # <<>>
      /\ Head(bus).what = "Start" /\ Tail(bus) \in Seq(Message)
      /\ UNCHANGED <<loaded, version, rescans>>
      /\ \A i \in Interface : told[i] \in Belief
      /\ Interfaces \in SUBSET Client
    BY TakesFacts, Zenon
<1>2. PICK up \in BOOLEAN :
         LET m == ActivateUnit(manager, u, loaded, up)
             new == m.process \ manager.process
         IN /\ Sends(m, Interfaces, [i \in Interface |-> IF i \in new THEN Nothing ELSE told[i]])
            /\ bus' = Tail(bus) \o SelectedEvents(manager, m)
            /\ control' = control \o Greetings(new)
    BY Zenon DEF Start
<1> DEFINE m == ActivateUnit(manager, u, loaded, up)
           new == m.process \ manager.process
           news == [i \in Interface |-> IF i \in new THEN Nothing ELSE told[i]]
           q == SelectedEvents(manager, m)
           g == Greetings(new)
           rest == Tail(bus)
<1>3. Sends(m, Interfaces, news) /\ bus' = rest \o q /\ control' = control \o g
    BY <1>2, Zenon
<1>4. Tables(m, loaded)
    BY <1>1, ActivateUnitTables, Zenon DEF ViewTypes
<1> HIDE DEF m
<1>5. m \in ManagerTables /\ manager \in ManagerTables /\ new \in SUBSET Client
  <2>1. m \in ManagerTables /\ manager \in ManagerTables
      BY <1>1, <1>4, Zenon DEF Tables
  <2>2. QED
      BY <2>1, TableFields, Zenon
<1>6. Nothing \in Belief /\ \A j \in Described : Nothing.describe[j] = 0
  <2>1. 0 \in Nat
      OBVIOUS
  <2>2. QED
      BY <2>1, Zenon DEF Nothing, Belief
<1>7. \A i \in Interface : news[i] \in Belief /\ news[i] = IF i \in new THEN Nothing ELSE told[i]
    BY <1>1, <1>6, Zenon
<1> HIDE DEF news
<1>8. Sent(m, Interfaces, news)
    BY <1>1, <1>3, <1>4, <1>7, SendsKeeps, Zenon
<1>9. /\ q \in Seq(Message)
      /\ m.jig \in {manager.jig, None} \/ Comes(q, "Selected", Jig)
      /\ m.scenario \in {manager.scenario, None} \/ Comes(q, "Selected", Scenario)
    BY <1>5, SelectedEventsAnnounce, Zenon
<1> HIDE DEF new
<1>10. g \in Seq(Message) /\ \A i \in new : Greets(g, i)
    BY <1>5, GreetingsAnnounce, Zenon
<1>11. rest \in Seq(Message) /\ bus \in Seq(Message) /\ control \in Seq(Message)
    BY <1>1, Zenon DEF ViewTypes
<1>12. Among(bus) = {Head(bus)} \cup Among(rest)
    BY <1>1, <1>11, AmongTail, Zenon
<1> HIDE DEF q, g, rest
<1>13. bus' \in Seq(Message) /\ Among(bus') = Among(rest) \cup Among(q)
  <2>1. rest \in Seq(Message) /\ q \in Seq(Message)
      BY <1>9, <1>11, Zenon
  <2>2. rest \o q \in Seq(Message) /\ Among(rest \o q) = Among(rest) \cup Among(q)
      BY ONLY <2>1, AmongConcat, Zenon
  <2>3. QED
      BY <1>3, <2>2, Zenon
<1>14. control' \in Seq(Message) /\ Among(control') = Among(control) \cup Among(g)
  <2>1. control \in Seq(Message) /\ g \in Seq(Message)
      BY <1>10, <1>11, Zenon
  <2>2. control \o g \in Seq(Message) /\ Among(control \o g) = Among(control) \cup Among(g)
      BY ONLY <2>1, AmongConcat, Zenon
  <2>3. QED
      BY <1>3, <2>2, Zenon
<1>15. /\ \A what \in {"Loaded", "Selected"} : \A units :
              Comes(bus, what, units) => Comes(bus', what, units)
       /\ \A units : Comes(q, "Selected", units) => Comes(bus', "Selected", units)
       /\ \A i : Greets(bus, i) => Greets(bus', i)
       /\ \A i : Greets(control, i) \/ Greets(g, i) => Greets(control', i)
  <2>1. Head(bus).what \notin {"Loaded", "Selected"} /\ Head(bus).what # "InitialGreeting"
      BY <1>1
  <2>2. QED
      BY <1>12, <1>13, <1>14, <2>1, Zenon DEF Comes, Greets
<1>16. /\ Tables(manager', loaded') /\ loaded' = loaded /\ version' = version
       /\ manager'.jig = m.jig /\ manager'.scenario = m.scenario
       /\ manager'.process \subseteq m.process /\ told' \in [Interface -> Belief]
    BY <1>1, <1>8, Zenon DEF Sent
<1>17. ViewTypes'
    BY <1>1, <1>13, <1>14, <1>16, Zenon DEF ViewTypes
<1>18. ASSUME NEW i \in manager'.process \cap Interface
       PROVE  told'[i] = IF i \in new THEN Nothing ELSE told[i]
  <2>1. i \in Interfaces
      BY <1>16, Zenon DEF Tables, ProcessTable, Interfaces
  <2>2. told'[i] = news[i]
      BY <1>8, <2>1, Zenon DEF Sent
  <2>3. QED
      BY <1>7, <2>2, Zenon
<1>19. ASSUME NEW i \in manager'.process \cap Interface, i \in new
       PROVE  Seen(i)'
  <2>1. told'[i] = Nothing
      BY <1>18, <1>19, Zenon
  <2>2. JigsNamed(told'[i], loaded', version', bus')
      BY <1>6, <2>1, Zenon DEF JigsNamed, Described
  <2>3. Greets(control', i)
      BY <1>10, <1>15, <1>19, Zenon
  <2>4. QED
      BY <2>2, <2>3, Zenon DEF Seen
<1>20. ASSUME NEW i \in manager'.process \cap Interface, i \notin new
       PROVE  Seen(i)'
  <2>1. told'[i] = told[i]
      BY <1>18, <1>20, Zenon
  <2>2. Seen(i)
      BY <1>1, <1>16, <1>20, Zenon DEF ViewInv, new
  <2>3. JigsNamed(told'[i], loaded', version', bus')
      BY <1>15, <1>16, <2>1, <2>2, Zenon DEF Seen, JigsNamed
  <2>4. ASSUME Informed(told[i], manager.jig, manager.scenario, loaded, version, bus)
        PROVE  Informed(told'[i], manager'.jig, manager'.scenario, loaded', version', bus')
    <3>1. manager'.jig \in {told[i].jig, None} \/ Comes(bus', "Selected", Jig)
        BY <1>9, <1>15, <1>16, <2>4, Zenon DEF Informed
    <3>2. \/ manager'.scenario = None \/ KnowsScenario(told[i], manager'.scenario, version)
          \/ Comes(bus', "Selected", Scenario)
        BY <1>9, <1>15, <1>16, <2>4, Zenon DEF Informed
    <3>3. QED
        BY <1>15, <1>16, <2>1, <2>4, <3>1, <3>2, Zenon DEF Informed
  <2>5. QED
      BY <1>15, <2>2, <2>3, <2>4, Zenon DEF Seen
<1>21. QED
    BY <1>16, <1>17, <1>19, <1>20, Zenon DEF ViewInv

(* A START is handled, or refused.                                          *)
LEMMA HandleStartKeeps ==
    ASSUME ViewInv, HandleStart
    PROVE  ViewInv'
<1> DEFINE u == IF Head(bus).unit = None THEN manager.scenario ELSE Head(bus).unit
<1>1. Takes("Start")
    BY Zenon DEF HandleStart
<1>2. /\ ViewTypes /\ Tables(manager, loaded) /\ ~panicked /\ bus # <<>>
      /\ Head(bus) \in Message /\ Head(bus).what = "Start" /\ Tail(bus) \in Seq(Message)
      /\ UNCHANGED <<loaded, version, rescans>>
      /\ \A i \in Interface : told[i] \in Belief
    BY <1>1, TakesFacts, Zenon
<1>3. panicked' = panicked
    BY DEF HandleStart
<1>4. u \in Unit \cup {None}
  <2>1. manager.scenario \in Scenario \cup {None}
      BY <1>2, TableFields, Zenon DEF Tables
  <2>2. QED
      BY <1>2, <2>1, Zenon DEF Message, Unit
<1>5. CASE u # None /\ Start(u)
  <2>1. ~panicked'
      BY <1>2, <1>3
  <2>2. u \in Unit /\ Start(u)
      BY <1>4, <1>5, Zenon
  <2> HIDE DEF u
  <2>3. QED
      BY <1>1, <2>1, <2>2, StartKeeps, Zenon
<1>6. CASE bus' = Tail(bus) /\ UNCHANGED <<manager, told, control>>
  <2>1. manager' = manager /\ told' = told /\ UNCHANGED <<loaded, version, control, rescans>>
      BY <1>2, <1>6, Zenon
  <2>2. ASSUME NEW i \in manager'.process \cap Interface
        PROVE  Fresher(told'[i], told[i], manager.scenario) /\ Answered(told'[i], Head(bus), i)
      BY <1>2, <2>1, FresherSame, Kinds, Zenon DEF Answered
  <2>3. told' \in [Interface -> Belief]
      BY <1>2, <2>1, Zenon DEF ViewTypes
  <2>4. QED
      BY <1>2, <1>6, <2>1, <2>2, <2>3, StepKeeps, Zenon
<1>7. QED
    BY <1>5, <1>6, Zenon DEF HandleStart

(* A rescan announces what it changes.                                      *)
LEMMA RescanKeeps ==
    ASSUME ViewInv, NEW deleted \in SUBSET Unit, NEW reloaded \in SUBSET Unit,
           deleted \cap reloaded = {}, Rescan(deleted, reloaded)
    PROVE  ViewInv'
<1> DEFINE gone == deleted \cup reloaded
           new == manager'.process \cap reloaded
           greetings == Greetings(new)
<1>1. /\ ViewTypes /\ Tables(manager, loaded) /\ ~panicked /\ ~panicked'
      /\ rescans' = rescans + 1 /\ loaded' = (loaded \ gone) \cup reloaded
      /\ version' = [u \in Described |-> IF u \in deleted THEN 0
                                         ELSE IF u \in reloaded THEN rescans + 1 ELSE version[u]]
    BY Zenon DEF Rescan, ViewInv
<1>2. gone \in SUBSET Unit /\ loaded \in SUBSET Unit /\ loaded' \in SUBSET Unit
      /\ loaded \ gone \subseteq loaded' /\ reloaded \in SUBSET loaded'
    BY <1>1, Zenon DEF ViewTypes
<1>3. /\ version' \in [Described -> Nat] /\ rescans' \in Nat
      /\ \A u \in Described \ gone : version'[u] = version[u]
  <2>1. rescans + 1 \in Nat /\ 0 \in Nat
      BY <1>1 DEF ViewTypes
  <2>2. QED
      BY <1>1, <2>1, Zenon DEF ViewTypes
<1>4. PICK failing \in SUBSET (manager.process \cap gone) :
         LET kept == Unload(manager, gone, failing)
         IN \E broken \in SUBSET (kept.process \cap Interface) : \E stuck \in SUBSET broken :
            /\ broken # {} => gone \cap Scenario # {}
            /\ Settle(Deactivate(kept, broken, stuck), reloaded, loaded')
            /\ bus' = bus \o LoadedEvents(reloaded) \o SelectedEvents(kept, manager')
    BY Zenon DEF Rescan
<1> DEFINE kept == Unload(manager, gone, failing)
<1>5. PICK broken \in SUBSET (kept.process \cap Interface) : \E stuck \in SUBSET broken :
         /\ Settle(Deactivate(kept, broken, stuck), reloaded, loaded')
         /\ bus' = bus \o LoadedEvents(reloaded) \o SelectedEvents(kept, manager')
    BY <1>4, Zenon
<1>6. PICK stuck \in SUBSET broken :
         /\ Settle(Deactivate(kept, broken, stuck), reloaded, loaded')
         /\ bus' = bus \o LoadedEvents(reloaded) \o SelectedEvents(kept, manager')
    BY <1>5, Zenon
<1>7. /\ Tables(kept, loaded \ gone) /\ kept.process \subseteq manager.process
      /\ kept.jig \in {manager.jig, None} /\ kept.scenario \in {manager.scenario, None}
  <2>1. failing \in SUBSET Client
      BY <1>1, TableFields, Zenon DEF Tables
  <2>2. QED
      BY <1>1, <1>2, <2>1, UnloadKeeps, Zenon
<1> HIDE DEF kept
<1> DEFINE d == Deactivate(kept, broken, stuck)
<1>8. Tables(d, loaded') /\ d.process \subseteq manager.process
  <2>1. Tables(kept, loaded')
      BY <1>2, <1>7, TablesMonotonic, Zenon
  <2>2. broken \in SUBSET Client /\ stuck \in SUBSET Client
      BY Zenon DEF Client
  <2>3. Deactivated(d, kept, broken, loaded')
      BY <1>2, <2>1, <2>2, DeactivateKeeps, Zenon
  <2>4. QED
      BY <1>7, <2>3, Zenon DEF Deactivated
<1>9. Settle(d, reloaded, loaded')
    BY <1>6, Zenon
<1> HIDE DEF d
<1>10. Tables(manager', loaded') /\ manager'.process \subseteq d.process \cup reloaded
    BY <1>2, <1>8, <1>9, SettleKeeps, Zenon
<1>11. manager' \in ManagerTables /\ kept \in ManagerTables
    BY <1>7, <1>10, Zenon DEF Tables
<1> DEFINE loads == LoadedEvents(reloaded)
           selects == SelectedEvents(kept, manager')
<1>12. /\ loads \in Seq(Message)
       /\ \A u \in reloaded \cap Described : \E x \in Among(loads) :
             x.what = "Loaded" /\ x.unit = u
    BY LoadedEventsAnnounce, Zenon
<1>13. /\ selects \in Seq(Message)
       /\ manager'.jig \in {kept.jig, None} \/ Comes(selects, "Selected", Jig)
       /\ manager'.scenario \in {kept.scenario, None} \/ Comes(selects, "Selected", Scenario)
    BY <1>11, SelectedEventsAnnounce, Zenon
<1>14. bus' = (bus \o loads) \o selects
    BY <1>6, Zenon
<1> HIDE DEF loads, selects
<1>15. /\ bus' \in Seq(Message) /\ Among(bus) \subseteq Among(bus')
       /\ Among(loads) \subseteq Among(bus') /\ Among(selects) \subseteq Among(bus')
  <2>1. bus \in Seq(Message)
      BY <1>1, Zenon DEF ViewTypes
  <2> DEFINE front == bus \o loads
  <2>2. front \in Seq(Message) /\ Among(front) = Among(bus) \cup Among(loads)
    <3>1. loads \in Seq(Message)
        BY <1>12, Zenon
    <3>2. QED
        BY ONLY <2>1, <3>1, AmongConcat, Zenon
  <2> HIDE DEF front
  <2>3. front \o selects \in Seq(Message)
        /\ Among(front \o selects) = Among(front) \cup Among(selects)
    <3>1. selects \in Seq(Message) /\ front \in Seq(Message)
        BY <1>13, <2>2, Zenon
    <3>2. QED
        BY ONLY <3>1, AmongConcat, Zenon
  <2>4. QED
      BY <1>14, <2>2, <2>3, Zenon DEF front
<1>16. /\ \A what, units : Comes(bus, what, units) => Comes(bus', what, units)
       /\ \A what, units : Comes(selects, what, units) => Comes(bus', what, units)
       /\ \A u \in reloaded \cap Described : \A units : u \in units => Comes(bus', "Loaded", units)
  <2>1. ASSUME NEW what, NEW units, NEW q, Among(q) \subseteq Among(bus'), Comes(q, what, units)
        PROVE  Comes(bus', what, units)
      BY ONLY <2>1, Zenon DEF Comes
  <2>2. ASSUME NEW u \in reloaded \cap Described, NEW units, u \in units
        PROVE  Comes(bus', "Loaded", units)
    <3>1. Comes(loads, "Loaded", units)
      <4>1. PICK x \in Among(loads) : x.what = "Loaded" /\ x.unit = u
          BY <1>12, <2>2, Zenon
      <4>2. x.unit \in units
          BY <2>2, <4>1, Zenon
      <4>3. QED
          BY <4>1, <4>2, Zenon DEF Comes
    <3>2. QED
        BY <1>15, <2>1, <3>1, Zenon
  <2>3. QED
      BY <1>15, <2>1, <2>2, Zenon
<1>17. control' = control \o greetings
    BY Zenon DEF Rescan
<1>18. greetings \in Seq(Message) /\ \A i \in new : Greets(greetings, i)
  <2>1. new \in SUBSET Client
      BY <1>11, TableFields, Zenon
  <2> HIDE DEF new
  <2>2. QED
      BY <2>1, GreetingsAnnounce, Zenon
<1> HIDE DEF greetings
<1>19. /\ control' \in Seq(Message) /\ Among(control) \subseteq Among(control')
       /\ \A i \in new : Greets(control', i)
  <2>1. control \in Seq(Message)
      BY <1>1, Zenon DEF ViewTypes
  <2>2. control \o greetings \in Seq(Message)
        /\ Among(control \o greetings) = Among(control) \cup Among(greetings)
      BY <1>18, <2>1, AmongConcat, Zenon
  <2>3. QED
      BY <1>17, <1>18, <2>2, Zenon DEF Greets
<1>20. PICK last \in IF gone \cap Scenario = {} THEN {None} ELSE gone \cap Scenario :
          told' = [i \in Interface |->
             IF i \notin manager'.process \/ i \in new THEN Nothing
             ELSE IF last = None THEN told[i]
             ELSE [told[i] EXCEPT !.list = ListAtLastUnload(last)]]
    BY Zenon DEF Rescan
<1>21. None \notin Scenario /\ None \notin gone
    BY <1>2, ManagerAssumption, Zenon DEF Unit
<1> DEFINE left == ListAtLastUnload(last)
<1>22. left = (loaded' \cap Scenario) \ {last}
    BY Zenon DEF ListAtLastUnload
<1> HIDE DEF left
<1>23. /\ Nothing \in Belief /\ \A u \in Described : Nothing.describe[u] = 0
       /\ \A i \in Interface : told[i] \in Belief
  <2>1. 0 \in Nat
      OBVIOUS
  <2>2. QED
      BY <1>1, <2>1, Zenon DEF Nothing, Belief, ViewTypes
<1>24. ASSUME NEW b \in Belief
       PROVE  LET c == [b EXCEPT !.list = left]
              IN  /\ c \in Belief /\ c.hello = b.hello /\ c.jig = b.jig /\ c.list = left
                  /\ c.scenario = b.scenario /\ c.describe = b.describe /\ c.tests = b.tests
    BY <1>22, Zenon DEF Belief
<1>25. told' \in [Interface -> Belief]
    BY <1>20, <1>23, <1>24, Zenon DEF left
<1>26. ViewTypes'
    BY <1>2, <1>3, <1>15, <1>19, <1>25, Zenon DEF ViewTypes
<1>27. ASSUME NEW i \in manager'.process \cap Interface, i \in new
       PROVE  Seen(i)'
  <2>1. told'[i] = Nothing
      BY <1>20, <1>27, Zenon
  <2>2. JigsNamed(told'[i], loaded', version', bus')
      BY <1>23, <2>1, Zenon DEF JigsNamed, Described
  <2>3. Greets(control', i)
      BY <1>19, <1>27, Zenon
  <2>4. QED
      BY <2>2, <2>3, Zenon DEF Seen
<1>28. ASSUME NEW i \in manager'.process \cap Interface, i \notin new
       PROVE  Seen(i)'
  <2> DEFINE b == told[i]
             c == told'[i]
  <2>1. i \in manager.process
      BY <1>8, <1>10, <1>28, Zenon
  <2>2. Seen(i)
      BY <1>1, <2>1, Zenon DEF ViewInv
  <2>3. c = IF last = None THEN b ELSE [b EXCEPT !.list = left]
      BY <1>20, <1>28, Zenon DEF left
  <2>4. b \in Belief
      BY <1>23, Zenon
  <2> HIDE DEF b, c
  <2>5. /\ c.hello = b.hello /\ c.jig = b.jig /\ c.scenario = b.scenario
        /\ c.describe = b.describe /\ c.tests = b.tests
        /\ c.list = IF last = None THEN b.list ELSE left
      BY <1>24, <2>3, <2>4, Zenon
  <2>6. \A u \in loaded' \cap Described :
           \/ u \in loaded /\ version'[u] = version[u]
           \/ \A units : u \in units => Comes(bus', "Loaded", units)
      BY <1>1, <1>3, <1>16, Zenon
  <2>7. JigsNamed(c, loaded', version', bus')
    <3> SUFFICES ASSUME NEW j \in loaded' \cap Jig
                 PROVE  c.describe[j] \in {0, version'[j]} \/ Comes(bus', "Loaded", {j})
        BY Zenon DEF JigsNamed
    <3>1. CASE j \in loaded /\ version'[j] = version[j]
      <4>1. b.describe[j] \in {0, version[j]} \/ Comes(bus, "Loaded", {j})
          BY <2>2, <3>1, Zenon DEF Seen, JigsNamed, b
      <4>2. QED
          BY <1>16, <2>5, <3>1, <4>1, Zenon
    <3>2. QED
        BY <2>6, <3>1, Zenon DEF Described
  <2>8. CASE Greets(bus, i) \/ Greets(control, i)
    <3>1. Greets(bus', i) \/ Greets(control', i)
        BY <1>15, <1>19, <2>8, Zenon DEF Greets
    <3>2. QED
        BY <2>7, <3>1, Zenon DEF Seen, c
  <2>9. CASE Informed(b, manager.jig, manager.scenario, loaded, version, bus)
    <3>1. c.list = loaded' \cap Scenario \/ Comes(bus', "Loaded", loaded' \cap Scenario)
      <4>1. CASE gone \cap Scenario = {}
        <5>1. last = None /\ loaded' \cap Scenario = loaded \cap Scenario
            BY <1>1, <4>1, Zenon
        <5>2. QED
            BY <1>16, <2>5, <2>9, <5>1, Zenon DEF Informed
      <4>2. CASE gone \cap Scenario # {}
        <5>1. last \in gone \cap Scenario /\ last # None
            BY <1>21, <4>2, Zenon
        <5>2. c.list = (loaded' \cap Scenario) \ {last}
            BY <1>22, <2>5, <5>1, Zenon
        <5>3. CASE last \in reloaded
            BY <1>2, <1>16, <5>1, <5>3, Zenon DEF Described
        <5>4. CASE last \notin reloaded
            BY <1>1, <5>1, <5>2, <5>4, Zenon
        <5>5. QED
            BY <5>3, <5>4, Zenon
      <4>3. QED
          BY <4>1, <4>2, Zenon
    <3>2. manager'.jig \in {c.jig, None} \/ Comes(bus', "Selected", Jig)
      <4>1. manager.jig \in {b.jig, None} \/ Comes(bus', "Selected", Jig)
          BY <1>16, <2>9, Zenon DEF Informed
      <4>2. manager'.jig \in {kept.jig, None} \/ Comes(bus', "Selected", Jig)
          BY <1>13, <1>16, Zenon
      <4>3. QED
          BY <1>7, <2>5, <4>1, <4>2, Zenon
    <3>3. \/ manager'.scenario = None \/ KnowsScenario(c, manager'.scenario, version')
          \/ Comes(bus', "Selected", Scenario)
      <4> DEFINE s == manager.scenario
      <4>1. s = None \/ KnowsScenario(b, s, version) \/ Comes(bus', "Selected", Scenario)
          BY <1>16, <2>9, Zenon DEF Informed
      <4>2. manager'.scenario \in {kept.scenario, None} \/ Comes(bus', "Selected", Scenario)
          BY <1>13, <1>16, Zenon
      <4>3. CASE manager'.scenario = s /\ kept.scenario = s /\ s # None
        <5>1. s \in Scenario /\ s \notin gone
            BY <1>7, <1>11, <4>3, TableFields, Zenon DEF Tables, ScenarioTable
        <5>2. version'[s] = version[s]
            BY <1>3, <5>1, Zenon DEF Described
        <5>3. KnowsScenario(b, s, version) => KnowsScenario(c, manager'.scenario, version')
            BY <2>5, <4>3, <5>2, Zenon DEF KnowsScenario
        <5>4. QED
            BY <4>1, <4>3, <5>3, Zenon
      <4>4. QED
          BY <1>7, <4>2, <4>3, Zenon
    <3>4. ASSUME NEW s \in loaded' \cap Scenario
          PROVE  c.describe[s] = version'[s] \/ Comes(bus', "Loaded", {s})
      <4>1. CASE s \in loaded /\ version'[s] = version[s]
        <5>1. b.describe[s] = version[s] \/ Comes(bus, "Loaded", {s})
            BY <2>9, <4>1, Zenon DEF Informed
        <5>2. QED
            BY <1>16, <2>5, <4>1, <5>1, Zenon
      <4>2. QED
          BY <2>6, <4>1, Zenon DEF Described
    <3>5. c.hello
        BY <2>5, <2>9, Zenon DEF Informed
    <3>6. Informed(c, manager'.jig, manager'.scenario, loaded', version', bus')
        BY <3>1, <3>2, <3>3, <3>4, <3>5, Zenon DEF Informed
    <3>7. QED
        BY <2>7, <3>6, Zenon DEF Seen, c
  <2>10. QED
      BY <2>2, <2>8, <2>9, Zenon DEF Seen, b
<1>29. QED
    BY <1>10, <1>26, <1>27, <1>28, Zenon DEF ViewInv

-----------------------------------------------------------------------------
(* A message that is put on or moved between the queues takes nothing away. *)
LEMMA MoreMessagesKeep ==
    ASSUME ViewInv, bus' \in Seq(Message), control' \in Seq(Message),
           Among(bus) \subseteq Among(bus'),
           Among(bus) \cup Among(control) \subseteq Among(bus') \cup Among(control'),
           UNCHANGED <<manager, loaded, version, told, rescans, panicked>>
    PROVE  ViewInv'
<1>1. /\ manager' = manager /\ loaded' = loaded /\ version' = version /\ told' = told
      /\ rescans' = rescans /\ panicked' = panicked
    BY Zenon
<1>2. ViewTypes' /\ Tables(manager', loaded')
    BY <1>1, Zenon DEF ViewInv, ViewTypes
<1>3. \A what, units : Comes(bus, what, units) => Comes(bus', what, units)
    BY Zenon DEF Comes
<1>4. \A i : Greets(bus, i) \/ Greets(control, i) => Greets(bus', i) \/ Greets(control', i)
    BY Zenon DEF Greets
<1>5. ASSUME ~panicked', NEW i \in manager'.process \cap Interface PROVE Seen(i)'
  <2>1. ~panicked
      BY ONLY <1>1, <1>5
  <2>2. i \in manager.process \cap Interface
      BY ONLY <1>1, <1>5, Zenon
  <2>3. Seen(i)
      BY <2>1, <2>2, Zenon DEF ViewInv
  <2>4. JigsNamed(told'[i], loaded', version', bus')
      BY <1>1, <1>3, <2>3, Zenon DEF Seen, JigsNamed
  <2>5. Informed(told[i], manager.jig, manager.scenario, loaded, version, bus) =>
           Informed(told'[i], manager'.jig, manager'.scenario, loaded', version', bus')
      BY <1>1, <1>3, Zenon DEF Informed
  <2>6. QED
      BY <1>4, <2>3, <2>4, <2>5, Zenon DEF Seen
<1>6. QED
    BY <1>2, <1>5, Zenon DEF ViewInv

(* Questions of interfaces.                                                 *)
LEMMA InterfaceAsksKeeps ==
    ASSUME ViewInv, NEW i \in Interface, NEW what \in Kind, NEW s \in Unit \cup {None},
           what = "Scenario" => s \in Scenario, InterfaceAsks(i, what, s)
    PROVE  ViewInv'
<1> DEFINE x == Ask(what, s, i)
<1>1. x \in Message
    BY Zenon DEF Ask, Message, Unit, Client
<1>2. control' = Append(control, x) /\ bus' = bus
      /\ UNCHANGED <<manager, loaded, version, told, rescans, panicked>>
    BY Zenon DEF InterfaceAsks
<1> HIDE DEF x
<1>3. bus \in Seq(Message) /\ control \in Seq(Message)
    BY Zenon DEF ViewInv, ViewTypes
<1>4. control' \in Seq(Message) /\ Among(control') = Among(control) \cup {x}
    BY <1>1, <1>2, <1>3, AmongAppend, Zenon
<1>5. /\ bus' \in Seq(Message) /\ Among(bus) \subseteq Among(bus')
      /\ Among(bus) \cup Among(control) \subseteq Among(bus') \cup Among(control')
    BY <1>2, <1>3, <1>4, Zenon
<1>6. QED
    BY <1>2, <1>4, <1>5, MoreMessagesKeep, Zenon

(* control_message_monitor                                                  *)
LEMMA MonitorForwardsKeeps ==
    ASSUME ViewInv, MonitorForwards
    PROVE  ViewInv'
<1> DEFINE x == Head(control)
<1>1. /\ bus' = Append(bus, x) /\ control' = Tail(control) /\ control # <<>>
      /\ UNCHANGED <<manager, loaded, version, told, rescans, panicked>>
    BY Zenon DEF MonitorForwards
<1>2. bus \in Seq(Message) /\ control \in Seq(Message)
    BY Zenon DEF ViewInv, ViewTypes
<1>3. /\ x \in Message /\ control' \in Seq(Message)
      /\ Among(control) = {x} \cup Among(control')
    BY <1>1, <1>2, AmongTail, Zenon
<1> HIDE DEF x
<1>4. bus' \in Seq(Message) /\ Among(bus') = Among(bus) \cup {x}
  <2>1. bus' = Append(bus, x) /\ bus \in Seq(Message) /\ x \in Message
      BY <1>1, <1>2, <1>3, Zenon
  <2>2. QED
      BY ONLY <2>1, AmongAppend, Zenon
<1>5. /\ Among(bus) \subseteq Among(bus')
      /\ Among(bus) \cup Among(control) \subseteq Among(bus') \cup Among(control')
    BY <1>3, <1>4, Zenon
<1>6. QED
    BY <1>1, <1>3, <1>4, <1>5, MoreMessagesKeep, Zenon

(* The invariant holds, and so what an interface believes is current or     *)
(* about to be corrected, for every library and every history of rescans    *)
(* and requests: no Loaded or Selected event (load!, select) and no sending *)
(* of status_message, manager_request or unload_scenario is missing.        *)
THEOREM StaleAnnounced == Spec => []StaleIsAnnounced
<1>1. Init => ViewInv
  <2> SUFFICES ASSUME Init PROVE ViewInv
      BY Zenon
  <2>1. 0 \in Nat
      OBVIOUS
  <2>2. Nothing \in Belief
      BY <2>1, Zenon DEF Nothing, Belief
  <2>3. <<>> \in Seq(Message)
      BY AmongNone, Zenon
  <2>4. ViewTypes
      BY <2>1, <2>2, <2>3, Zenon DEF Init, ViewTypes
  <2>5. NewManager \in ManagerTables
      BY Zenon DEF NewManager, ManagerTables
  <2>6. Tables(manager, loaded) /\ manager.process = {}
      BY <2>5, Zenon DEF Init, NewManager, Tables, JigTable, ScenarioTable, ProcessTable
  <2>7. QED
      BY <2>4, <2>6, Zenon DEF ViewInv
<1>2. ViewInv /\ [Next]_vars => ViewInv'
  <2> SUFFICES ASSUME ViewInv, [Next]_vars PROVE ViewInv'
      BY Zenon
  <2>1. CASE UNCHANGED vars
      BY <2>1, Zenon DEF vars, ViewInv, ViewTypes, Seen
  <2>2. CASE MainThread
      BY <2>2, HandleLoadedKeeps, HandleSelectedKeeps, HandleGreetingKeeps, HandleJigKeeps,
         HandleScenariosKeeps, HandleTestsKeeps, HandleScenarioKeeps, HandleStartKeeps, Zenon
         DEF MainThread
  <2>3. CASE MonitorForwards
      BY <2>3, MonitorForwardsKeeps, Zenon
  <2>4. ASSUME NEW i \in Interface, NEW what \in {"Jig", "Scenarios"},
               InterfaceAsks(i, what, None)
        PROVE  ViewInv'
    <3>1. what \in Kind /\ what # "Scenario" /\ None \in Unit \cup {None}
        BY DEF Kind
    <3>2. QED
        BY <2>4, <3>1, InterfaceAsksKeeps, Zenon
  <2>5. ASSUME NEW i \in Interface, NEW s \in Scenario \cup {None},
               InterfaceAsks(i, "Tests", s)
        PROVE  ViewInv'
    <3>1. "Tests" \in Kind /\ "Tests" # "Scenario" /\ s \in Unit \cup {None}
        BY DEF Kind, Unit
    <3>2. QED
        BY <2>5, <3>1, InterfaceAsksKeeps, Zenon
  <2>6. ASSUME NEW i \in Interface, NEW s \in Scenario, InterfaceAsks(i, "Scenario", s)
        PROVE  ViewInv'
    <3>1. "Scenario" \in Kind /\ s \in Unit \cup {None}
        BY DEF Kind, Unit
    <3>2. QED
        BY <2>6, <3>1, InterfaceAsksKeeps, Zenon
  <2>7. ASSUME NEW i \in Interface, NEW u \in Unit \cup {None}, InterfaceAsks(i, "Start", u)
        PROVE  ViewInv'
    <3>1. "Start" \in Kind /\ "Start" # "Scenario"
        BY DEF Kind
    <3>2. QED
        BY <2>7, <3>1, InterfaceAsksKeeps, Zenon
  <2>8. ASSUME NEW deleted \in SUBSET Unit, NEW reloaded \in SUBSET Unit,
               deleted \cap reloaded = {}, Rescan(deleted, reloaded)
        PROVE  ViewInv'
      BY <2>8, RescanKeeps, Zenon
  <2>9. QED
      BY <2>1, <2>2, <2>3, <2>4, <2>5, <2>6, <2>7, <2>8, Zenon DEF Next
<1>3. QED
    BY <1>1, <1>2, ViewInvSuffices, PTL DEF Spec
=============================================================================
