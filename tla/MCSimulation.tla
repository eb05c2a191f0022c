---------------------------- MODULE MCSimulation ----------------------------
(* An instance of Simulation for TLC: a target of each state, open ones    *)
(* at a saved position, at an unsaved one and at the end of the sweep.     *)
EXTENDS Simulation, TLC

SixTargets ==
    0 :> "open" @@ 1 :> "open" @@ 2 :> "no_response" @@ 3 :> "closed"
    @@ 4 :> "unreachable" @@ 5 :> "open"
=============================================================================
