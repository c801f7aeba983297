---------------------------- MODULE CellPerimeter ----------------------------
(***************************************************************************)
(* What run_gauntlet promises its caller: the cell is empty until the call *)
(* returns, then holds its four terminal receipts, once and for all; or    *)
(* the call raises and the cell stays empty.                               *)
(***************************************************************************)
EXTENDS BoardSchema

CONSTANT Ctx    \* the CellContext: anchor, planned run and display identity

VARIABLES
    cell,       \* the receipts the caller has
    raised      \* the call ended with an exception

vars == <<cell, raised>>

Init == cell = << >> /\ raised = FALSE

Publish ==
    /\ cell = << >> /\ ~raised
    /\ CellFilled(cell', Ctx)
    /\ UNCHANGED raised

Raise ==
    /\ cell = << >> /\ ~raised
    /\ raised' = TRUE
    /\ UNCHANGED cell

Next == Publish \/ Raise

Spec == Init /\ [][Next]_vars
=============================================================================
