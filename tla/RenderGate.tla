----------------------------- MODULE RenderGate -----------------------------
(***************************************************************************)
(* One board: its manifest is planned or brought, validated and signed     *)
(* (ManifestPlan); then a harness key signs the receipts of whatever cells *)
(* a driver runs - for this board or another, in any context it passes,    *)
(* again if it likes - and someone assembles the board from the signed     *)
(* receipts and asks assert_board_admissible (manifest.py).                *)
(***************************************************************************)
EXTENDS BoardSchema, Functions

CONSTANTS
    TaskLists, LineageLists, Replicates, CellLists,     \* of ManifestPlan
    Pin,            \* toolchain_env_digest of the manifest
    OtherBoard,     \* the digest of another board's manifest
    Unplanned,      \* a run id of no manifest
    Trees,          \* sealed artifact digests
    Envs,           \* toolchain images a static stage may have run in
    NotRendered,
    MaxCells,       \* bound on the cells of a board that is filled
    MaxAttempts     \* bound on the calls of run_gauntlet

(* What a driver declares or brings are lists, and counts; names are lists *)
(* of words.                                                               *)
ASSUME ListsAssumption ==
    /\ \A s \in TaskLists :
           s \in Seq(Range(s)) /\ \A i \in DOMAIN s : s[i].task_id \in Seq(STRING)
    /\ \A s \in LineageLists : s \in Seq(Range(s)) /\ \A i \in DOMAIN s : s[i] \in Seq(STRING)
    /\ \A s \in CellLists : s \in Seq(Range(s))
    /\ Replicates \subseteq Nat

VARIABLES
    payload, planned, minted,   \* the manifest: ManifestPlan
    attempts,   \* calls of run_gauntlet so far (bound; the time of a receipt)
    signed,     \* receipts signed by the harness, in order
    board       \* the receipts of the admitted board

manifest == <<payload, planned, minted>>
vars == <<manifest, attempts, signed, board>>

Plan == INSTANCE ManifestPlan WITH signed <- minted

Init == Plan!Init /\ attempts = 0 /\ signed = << >> /\ board = NotRendered

Mint == Plan!Next /\ UNCHANGED <<attempts, signed, board>>

(* A digest is the value digested. *)
Manifest == [digest |-> payload, env_digest |-> Pin, n |-> payload.n,
             tasks |-> payload.tasks, cells |-> payload.cells]

(* The CellContexts a driver passes: each cell's own; and mistaken ones -  *)
(* the anchor of another board, another cell's identity, a run of nobody.  *)
Context(anchor, run, id) == [anchor |-> anchor, run |-> run, id |-> id]

Contexts ==
    LET cells == Range(payload.cells)
        first == payload.cells[1]
    IN  {Context(payload, c.run, c.id) : c \in cells}
        \cup {Context(payload, first.run, c.id) : c \in cells}
        \cup {Context(OtherBoard, first.run, first.id),
              Context(payload, Unplanned, first.id)}

Receipt(ctx, tree, stage, outcome, obs) ==
    [run |-> ctx.run, anchor |-> ctx.anchor, id |-> ctx.id, stage |-> stage,
     digest |-> tree, outcome |-> outcome, obs |-> obs, at |-> attempts + 1]

Failed(ctx, tree, stage) == Receipt(ctx, tree, stage, "error", HarnessError)

(* The four receipts of a cell that measured everything, all of them pass  *)
(* or static and gate fail (a bound: the gate never reads an outcome).     *)
FullRow(ctx, tree, env, ruff) ==
    <<Receipt(ctx, tree, "static", ToolsOutcome(ruff, 0),
        [env_digest |-> env, ruff_exit |-> ruff, mypy_exit |-> 0]),
     Receipt(ctx, tree, "own_tests", "pass",
        [isolation |-> "hermetic", image_digest |-> env, exit |-> 0, status |-> "passed"]),
     Receipt(ctx, tree, "llm_review", "pass", [verdict |-> "approve", source |-> tree]),
     Receipt(ctx, tree, "gate", ToolsOutcome(ruff, 0),
        [result_kind |-> "admitted_run", result_reason |-> "admitted", gate_outcome |-> "run_verdict",
         measured_tree_digest |-> tree])>>

(* run_gauntlet returns, as Gauntlet shows it does, one receipt per stage  *)
(* over one digest: a full row, or a row of errors with or without a seal. *)
RunGauntlet ==
    /\ minted /\ Len(payload.cells) <= MaxCells
    /\ board = NotRendered
    /\ attempts < MaxAttempts
    /\ attempts' = attempts + 1
    /\ \E ctx \in Contexts, tree \in Trees :
           \/ \E env \in Envs, ruff \in {0, 1} :
                  signed' = signed \o FullRow(ctx, tree, env, ruff)
           \/ \E d \in {tree, Unmeasurable} :
                  signed' = signed \o [i \in 1..4 |-> Failed(ctx, d, GAUNTLET_STAGES[i])]
    /\ UNCHANGED <<manifest, board>>

(* Every signature verifies: the harness signed these receipts.            *)
Verified(rs) == rs \in Seq(Range(signed))

(* An assembly of about k receipts: a subsequence of the signed ones, with *)
(* one of them perhaps a second time at the end.                           *)
Assemblies(k) ==
    LET Listed(S) == SelectSeq(signed, LAMBDA r : r \in S)
        sets == {S \in SUBSET Range(signed) : Cardinality(S) \in (k - 1)..(k + 1)}
    IN  {Listed(S) : S \in sets} \cup UNION {{Append(Listed(S), r) : r \in S} : S \in sets}

Render ==
    /\ minted /\ board = NotRendered
    /\ \E rs \in Assemblies(Len(payload.cells) * Cardinality(VALID_STAGES)) :
           /\ Verified(rs) /\ assert_board_admissible(Manifest, rs)
           /\ board' = rs
    /\ UNCHANGED <<manifest, attempts, signed>>

Next == Mint \/ RunGauntlet \/ Render

Spec == Init /\ [][Next]_vars

-----------------------------------------------------------------------------
Rendered == board # NotRendered
Rows == {board[i] : i \in DOMAIN board}

(* A signed denominator is the whole product of the declared tasks, the    *)
(* lineages and the replicates, each cell once under a run of its own; and *)
(* a rendered board is exactly that: as many receipts as cells times       *)
(* stages, each (cell, stage) once, so nothing was dropped, added or       *)
(* repeated (schemas.py, validate_manifest_payload; manifest.py).          *)
DenominatorExact ==
    /\ Plan!SignedIsComplete
    /\ Rendered =>
        LET pairs == {<<r.run, r.stage>> : r \in Rows}
        IN  /\ pairs = PlannedRuns(Manifest) \X VALID_STAGES
            /\ Len(board) = Cardinality(pairs)

(* What plan_cells makes of distinct tasks is signable, provided no name   *)
(* is empty and either no task id or no lineage has a "/" in it: planning  *)
(* and validating agree on the order, the replicates and the rotation of   *)
(* reviewers, and then on the cell_ids (manifest.py, schemas.py).          *)
PlanIsSignable == Plan!PlanIsSignable

(* The rows of a board can be compared: none was signed for another board  *)
(* or another cell - run_gauntlet had been given this board's anchor and   *)
(* the row's own identity - and the measured static rows, passing or       *)
(* failing, ran under one toolchain (manifest.py, assert_board_admissible).*)
RowsAreComparable ==
    Rendered =>
        /\ \A r \in Rows : \E k \in CellIndexes(Manifest) :
               [anchor |-> r.anchor, run |-> r.run, id |-> r.id]
               = [anchor |-> payload, run |-> payload.cells[k].run, id |-> payload.cells[k].id]
        /\ \A r, s \in {q \in Rows : q.stage = "static" /\ Measured(q)} :
               r.obs.env_digest = s.obs.env_digest

(* gauntlet.py: every receipt binds "the ONE artifact_tree_digest the      *)
(* whole cell is verified against".                                        *)
OneTreePerCell ==
    Rendered =>
        \A r, s \in Rows :
            r.run = s.run /\ Measured(r) /\ Measured(s) => r.digest = s.digest
=============================================================================
