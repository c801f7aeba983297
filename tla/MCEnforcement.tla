--------------------------- MODULE MCEnforcement ---------------------------
(* An instance of Enforcement for TLC. *)
EXTENDS Enforcement, TLC

\* A run of each scenario, alone with the operators.
Alone ==
    { [scenario |-> [r \in Run |-> IF r = "run1" THEN s ELSE None], ops |-> 2] :
      s \in ScenarioId }

\* Two runs whose injections meet in the stores: the fixture of one is added
\* while the other takes its own there and back.
Together ==
    [scenario |-> ("run1" :> AbaScenario @@ "run2" :> "set_head_stale"), ops |-> 0]

AloneOrTogether == Alone \cup {Together}
=============================================================================
