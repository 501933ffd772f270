--------------------------- MODULE ScenarioPromise ---------------------------
(***************************************************************************)
(* What a scenario promises to the clients that start it, without the      *)
(* threads, messages and tables by which it is kept:                       *)
(*                                                                         *)
(*   - a run begins only when none is under way, and without verdicts;     *)
(*   - tests are judged one at a time, each after the tests it requires    *)
(*     passed; a test is skipped only for a requirement that did not pass; *)
(*     a verdict is final;                                                 *)
(*   - a run that is not cut short judges every test;                      *)
(*   - its end is announced once, with the code of its verdicts, and the   *)
(*     next run may begin;                                                 *)
(*   - every run goes on until then, unless the program breaks.            *)
(*                                                                         *)
(* ScenarioRefinement shows that ScenarioRun implements it.                *)
(***************************************************************************)
EXTENDS Naturals, FiniteSets

CONSTANT Test     \* the names of tests

VARIABLES
    contract,   \* what the scenario's file says, see Contract
    phase,      \* idle, running, finishing (the end is decided), or broken
    prepared,   \* the verdict on the command run before the tests
    verdict,    \* the verdict on each test
    code        \* the code of the last FINISH, 0 before the first

vars == <<contract, phase, prepared, verdict, code>>

\* tests: those of the scenario; needs: what each requires, as written before the first
\* assumed one; may_stop: a Timeout or a StopAfterFailureCount may cut a run short.
Contract == [tests : SUBSET Test, needs : [Test -> SUBSET Test], may_stop : BOOLEAN]

TypeOK ==
    /\ contract \in Contract
    /\ phase \in {"idle", "running", "finishing", "broken"}
    /\ prepared \in {"Pending", "Pass", "Fail"}
    /\ verdict \in [Test -> {"Pending", "Pass", "Fail", "Skip"}]
    /\ code \in Nat

NoVerdict == [t \in Test |-> "Pending"]

Init ==
    /\ contract \in Contract
    /\ phase = "idle"
    /\ prepared = "Pending"
    /\ verdict = NoVerdict
    /\ code = 0

-----------------------------------------------------------------------------
Start ==
    /\ phase = "idle"
    /\ phase' = "running"
    /\ prepared' = "Pending"
    /\ verdict' = NoVerdict
    /\ UNCHANGED <<contract, code>>

\* At most one test is judged by its result, and the others that change are skipped.
Judges(t, result, skipped) ==
    /\ verdict[t] = "Pending"
    /\ \A p \in contract.needs[t] : verdict[p] = "Pass"
    /\ verdict' = [u \in Test |-> IF u = t THEN result
                                  ELSE IF u \in skipped THEN "Skip" ELSE verdict[u]]

SkipsOnly(skipped) ==
    verdict' = [u \in Test |-> IF u \in skipped THEN "Skip" ELSE verdict[u]]

\* Skipped tests had no verdict, and lack a requirement.
Skippable(skipped) ==
    \A u \in skipped : /\ verdict[u] = "Pending"
                       /\ \E p \in contract.needs[u] : verdict'[p] # "Pass"

Complete ==
    \/ contract.may_stop
    \/ prepared' = "Fail"
    \/ \A t \in contract.tests : verdict'[t] # "Pending"

(* The run moves on: the command run before the tests is over, or a test   *)
(* is; some tests are skipped; and the run may turn out to be over.        *)
Advance ==
    /\ phase = "running"
    /\ \E skipped \in SUBSET contract.tests :
          /\ \/ /\ prepared = "Pending" /\ verdict = NoVerdict
                /\ prepared' \in {"Pending", "Pass", "Fail"}
                /\ SkipsOnly(skipped)
             \/ /\ prepared # "Fail"
                /\ \E t \in contract.tests \ skipped, result \in {"Pass", "Fail"} :
                      Judges(t, result, skipped)
                /\ UNCHANGED prepared
             \/ SkipsOnly({}) /\ UNCHANGED prepared
          /\ Skippable(skipped)
    /\ \/ phase' = "running"
       \/ phase' = "finishing" /\ Complete
    /\ UNCHANGED <<contract, code>>

Failures ==
    Cardinality({t \in contract.tests : verdict[t] = "Fail"})
    + (IF prepared = "Fail" THEN 1 ELSE 0)

Announce ==
    /\ phase = "finishing"
    /\ phase' = "idle"
    /\ code' = IF Failures = 0 THEN 200 ELSE 500 + Failures
    /\ UNCHANGED <<contract, prepared, verdict>>

(* The program dies, or is bound to: a START in the moment between the end  *)
(* of a run and its announcement, or a run that cannot be carried out.      *)
Break ==
    /\ phase \in {"running", "finishing"}
    /\ phase' = "broken"
    /\ prepared' \in {"Pending", "Pass", "Fail"}
    /\ verdict' \in [Test -> {"Pending", "Pass", "Fail", "Skip"}]
    /\ UNCHANGED <<contract, code>>

-----------------------------------------------------------------------------
Next == Start \/ Advance \/ Announce \/ Break

Spec == Init /\ [][Next]_vars

FairSpec == Spec /\ WF_vars(Advance) /\ WF_vars(Announce)
=============================================================================
