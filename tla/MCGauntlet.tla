----------------------------- MODULE MCGauntlet -----------------------------
(* Small instances of Gauntlet. *)
EXTENDS Gauntlet

CONSTANTS f1, f2, c1, c2

MCCtx ==
    [anchor |-> "m1", run |-> "r1",
     id |-> [cell_id |-> CellId(<<"t">>, <<"a">>, 0), lineage |-> <<"a">>, side |-> "tempting",
             reviewer |-> <<"b">>]]

Ran(image, isolation, e1, e2) ==
    [image |-> image, isolation |-> isolation, exits |-> <<e1, e2>>]

(* Clean, failing, incomplete, unresolved, drifted and weakly isolated runs. *)
MCSandboxRuns ==
    {Ran(Pinned, "hermetic", 0, 0), Ran(Pinned, "hermetic", 0, 1),
     Ran(Pinned, "hermetic", NoExit, NoExit), Ran(Unknown, "hermetic", 0, 0),
     Ran("drifted", "hermetic", 0, 0), Ran(Pinned, "process", 0, 0)}

Projected(kind, reason, outcome) ==
    [result_kind |-> kind, result_reason |-> reason, gate_outcome |-> outcome]

(* One projection of each kind, and a non_run whose disposition and gate   *)
(* outcome disagree.                                                       *)
MCProjections ==
    {Projected("admitted_run", "", "run_verdict"),
     Projected("blocking_refusal", "generation_moved", "run_verdict"),
     Projected("non_run", "skip_neutral", "neutral_gate"),
     Projected("non_run", "skip_neutral", "block_gate"),
     Projected("infrastructure_failure", "", NoOutcome)}
=============================================================================
