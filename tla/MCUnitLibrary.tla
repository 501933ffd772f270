--------------------------- MODULE MCUnitLibrary ---------------------------
(* Instances of UnitLibrary: two jigs, a test, two scenarios and an         *)
(* interface.                                                               *)
EXTENDS UnitLibrary

CONSTANTS j1, j2, t, s1, s2, i

(* t and i need j1, s1 is the default of j1 and uses t.                     *)
MCJigs == [u \in Unit |-> IF u \in {t, i} THEN {j1} ELSE {}]
MCTestsOf == [s \in Scenario |-> IF s = s1 THEN {t} ELSE {}]
MCDefault == [j \in Jig |-> IF j = j1 THEN s1 ELSE None]

(* Users before what they use, for three files with two changes to come,    *)
(* for four with one; with a second jig; and with a second scenario, for    *)
(* which no file changes are left.                                          *)
MCListings == {<<i, s2, j1>>, <<s1, t, j1>>, <<i, s1, t, j1>>, <<j1, s1, j2, i>>,
               <<j1, t, s1, s2, i>>, <<j1, s1, j2, s2, i>>}
=============================================================================
