--------------------------- MODULE MCScenarioSteps ---------------------------
(***************************************************************************)
(* Descriptions for ScenarioSteps: three tests, all requirements that go   *)
(* back in the order of the tests, in every order of writing, at most one  *)
(* assumed test, and every combination of commands, failure count and      *)
(* Timeout.                                                                *)
(***************************************************************************)
EXTENDS ScenarioSteps

CONSTANTS t1, t2, t3

InARow == <<t1, t2, t3>>

Requirements ==
    [t1 |-> {<<>>}, t2 |-> {<<>>, <<t1>>},
     t3 |-> {<<>>, <<t1>>, <<t2>>, <<t1, t2>>, <<t2, t1>>}]

TestChoices ==
    {[t \in Test |->
        [requires |-> IF t = t1 THEN <<>> ELSE IF t = t2 THEN second ELSE third,
         daemon |-> FALSE, timeout |-> FALSE, compatible |-> TRUE]] :
     second \in Requirements.t2, third \in Requirements.t3}

ScenarioChoices ==
    {[test_sequence |-> SelectSeq(InARow, LAMBDA t : t \notin assumed), assumptions |-> assumed,
      exec_start |-> start, exec_stop_success |-> success, exec_stop_failure |-> failure,
      stop_after_failure_count |-> count, timeout |-> timed] :
     assumed \in {{}, {t1}, {t2}}, start \in BOOLEAN, success \in BOOLEAN,
     failure \in BOOLEAN, count \in {None, 0, 1, 2}, timed \in BOOLEAN}

AllDescriptions == ScenarioChoices \X TestChoices
=============================================================================
