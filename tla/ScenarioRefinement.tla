------------------------- MODULE ScenarioRefinement -------------------------
(***************************************************************************)
(* ScenarioRun keeps what ScenarioPromise promises, when one scenario is   *)
(* loaded and clients only start it.                                       *)
(***************************************************************************)
EXTENDS ScenarioRun

\* The end of a run is decided when its ScenarioFinished is sent, and announced when
\* that is handled.
Finishing == \E i \in 1..Len(Pending) : Pending[i].what = "ScenarioFinished"

\* The scenario was activated again before its last end was announced: its own StopTest
\* is past, and the message that finds it active is on its way.
Doomed ==
    /\ Finishing
    /\ current \in active
    /\ \A i \in 1..Len(Pending) : Pending[i] # StopTest(current)

PhaseSeen ==
    IF ~Alive \/ Doomed THEN "broken"
    ELSE IF Finishing THEN "finishing"
    ELSE IF current \in active THEN "running" ELSE "idle"

ContractSeen ==
    LET d == Desc(current)
    IN [tests |-> TestsOf(d),
        needs |-> [t \in Test |-> InspectedParents(d, T, t)],
        may_stop |-> d.timeout \/ d.stop_after_failure_count # None]

Promise == INSTANCE ScenarioPromise WITH
    contract <- ContractSeen,
    phase <- PhaseSeen,
    prepared <- scenario[current].exec_start_state,
    verdict <- scenario[current].test_states,
    code <- finish

(* A lone scenario implements ScenarioPromise: one run at a time, tests     *)
(* judged one by one after their requirements, every test judged unless the *)
(* run may be cut short, one FINISH with the code of the verdicts, and      *)
(* every run ends (Scenario::activate, advance, finish_scenario and the     *)
(* manager's handlers, with everything that may come between them).         *)
KeepsPromise == Promise!FairSpec
=============================================================================
