-------------------------- MODULE MCInterfaceView --------------------------
(* An instance of InterfaceView: two jigs, of which one has a default       *)
(* scenario, that scenario and an interface, none of them in need of        *)
(* another.                                                                 *)
EXTENDS InterfaceView

CONSTANTS j1, j2, s1, i1

MCJigs == [u \in Unit |-> {}]
MCTestsOf == [s \in Scenario |-> {}]
MCDefault == [j \in Jig |-> IF j = j1 THEN s1 ELSE None]
=============================================================================
