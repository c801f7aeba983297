----------------------------- MODULE BoardSchema -----------------------------
(***************************************************************************)
(* The signed vocabulary of the demonstration board: the laws a            *)
(* cell_stage receipt must satisfy to be signable (schemas.py), the plan   *)
(* and the laws of the manifest (manifest.py, schemas.py), and the render  *)
(* gate assert_board_admissible, as pure operators.  A digest is the value *)
(* it is computed over, a signature is membership in the set of receipts   *)
(* the harness has signed, and a cell's display identity (cell_id, side,   *)
(* lineage, reviewer_lineage) is one record.  A name - of a task, of a     *)
(* lineage - is the sequence of its parts, words and the separators "/"    *)
(* and "_" between them, so that names join as their strings do.           *)
(***************************************************************************)
EXTENDS Integers, Sequences, FiniteSets

CONSTANTS
    Unmeasurable,   \* UNMEASURABLE_TREE_DIGEST, bound when nothing was sealed
    Unknown,        \* "unknown": no image digest was resolved
    NoExit,         \* None: a sandbox run that did not complete
    NoOutcome       \* None: an infrastructure row carries no gate outcome

GAUNTLET_STAGES == <<"static", "own_tests", "llm_review", "gate">>
VALID_STAGES == {GAUNTLET_STAGES[i] : i \in DOMAIN GAUNTLET_STAGES}

(* What a file holds whose write was cut short. *)
Torn == [torn |-> TRUE]

(* The observation of a stage that could not measure. *)
HarnessError == [harness_error |-> TRUE]
Measured(r) == r.obs # HarnessError

-----------------------------------------------------------------------------
(* The coherence law of each stage: the measurement fixes the outcome. *)

ToolsOutcome(ruff, mypy) == IF ruff = 0 /\ mypy = 0 THEN "pass" ELSE "fail"

ValidStatic(o, outcome) ==
    /\ o.env_digest # Unknown
    /\ o.ruff_exit # NoExit /\ o.mypy_exit # NoExit
    /\ outcome = ToolsOutcome(o.ruff_exit, o.mypy_exit)

expected_pytest_status(exit) ==
    CASE exit = 0 -> "passed"
      [] exit = 1 -> "failed"
      [] exit = 5 -> "no_tests"
      [] OTHER -> "error"

OWN_TESTS_CELL_OUTCOME ==
    [passed |-> "pass", failed |-> "fail", no_tests |-> "error", error |-> "error"]

ValidOwnTests(o, outcome) ==
    /\ o.isolation = "hermetic"
    /\ o.image_digest # Unknown
    /\ o.status = expected_pytest_status(o.exit)
    /\ outcome = OWN_TESTS_CELL_OUTCOME[o.status]

ReviewOutcomeOf(verdict) == IF verdict = "approve" THEN "pass" ELSE "fail"

ValidReview(o, outcome) ==
    /\ o.verdict \in {"approve", "request_changes"}
    /\ outcome = ReviewOutcomeOf(o.verdict)

(* What account() lets each result kind carry; a non_run's disposition     *)
(* fixes its gate outcome.                                                 *)
GateOutcomes(o) ==
    CASE o.result_kind \in {"admitted_run", "blocking_refusal"} -> {"run_verdict"}
      [] o.result_kind = "infrastructure_failure" -> {NoOutcome}
      [] o.result_kind = "non_run" /\ o.result_reason = "block_action_required" -> {"block_gate"}
      [] o.result_kind = "non_run" /\ o.result_reason = "skip_neutral" -> {"neutral_gate"}
      [] OTHER -> {}

GateCellOutcomes(kind) ==
    CASE kind = "admitted_run" -> {"pass", "fail"}
      [] kind = "blocking_refusal" -> {"blocked"}
      [] OTHER -> {"error"}

(* Mutant of MeasuredBound: the P1 law is missing. *)
MeasuredBound_Unchecked(o, digest) == TRUE

(* P1: the gate certifies only the tree it measured. *)
MeasuredBound(o, digest) == o.measured_tree_digest = digest

ValidGate(o, outcome, digest) ==
    /\ o.gate_outcome \in GateOutcomes(o)
    /\ MeasuredBound(o, digest)
    /\ outcome \in GateCellOutcomes(o.result_kind)

ValidObservation(r) ==
    CASE r.stage = "static" -> ValidStatic(r.obs, r.outcome)
      [] r.stage = "own_tests" -> ValidOwnTests(r.obs, r.outcome)
      [] r.stage = "llm_review" -> ValidReview(r.obs, r.outcome)
      [] r.stage = "gate" -> ValidGate(r.obs, r.outcome, r.digest)

(* A cell is reviewed by a lineage that has a name, and is not its own. *)
ReviewerIndependent(id) == id.lineage # << >> /\ id.reviewer \notin {<< >>, id.lineage}

(* validate_cell_stage_payload: the sentinel digest, and the harness-error *)
(* observation, only with outcome "error".                                 *)
ValidCellStage(r) ==
    /\ r.stage \in VALID_STAGES
    /\ ReviewerIndependent(r.id)
    /\ r.digest = Unmeasurable => ~Measured(r)
    /\ IF Measured(r) THEN ValidObservation(r) ELSE r.outcome = "error"

-----------------------------------------------------------------------------
(* The manifest: declared tasks with their side, the replicate count, the  *)
(* toolchain pin and the ordered planned cells.                            *)

(* The slug task/lineage/replicate: what stands before its last "/", and   *)
(* the number after it.                                                    *)
CellId(task, lineage, rep) == [path |-> task \o <<"/">> \o lineage, rep |-> rep]

Cell(run, task, lineage, side, rep, reviewer) ==
    [run |-> run, task |-> task, rep |-> rep, id |->
        [cell_id |-> CellId(task, lineage, rep), lineage |-> lineage, side |-> side,
         reviewer |-> reviewer]]

(* Mutant of NextLineage: the rotation lands on the producer. *)
NextLineage_Same(lineages, i) == lineages[((i - 1) % Len(lineages)) + 1]

(* The reviewer of a lineage is the next one in the declared order. *)
NextLineage(lineages, i) == lineages[(i % Len(lineages)) + 1]

(* plan_cells: the k-th cell in task, lineage, replicate order.  Its       *)
(* planned_run_id is a fresh UUID, here k.  None, for fewer than two       *)
(* lineages, a repeated one, or no replicate: it raises.                   *)
Plannable(lineages, n) ==
    /\ Len(lineages) >= 2
    /\ \A i, j \in DOMAIN lineages : lineages[i] = lineages[j] => i = j
    /\ n >= 1

plan_cells(tasks, lineages, n) ==
    [k \in 1..(Len(tasks) * Len(lineages) * n) |->
        LET t == ((k - 1) \div (Len(lineages) * n)) + 1
            l == (((k - 1) \div n) % Len(lineages)) + 1
        IN  Cell(k, tasks[t].task_id, lineages[l], tasks[t].side, (k - 1) % n,
                 NextLineage(lineages, l))]

CellIndexes(m) == DOMAIN m.cells
TasksOf(m) == {m.tasks[i].task_id : i \in DOMAIN m.tasks}
LineagesOf(m) == {m.cells[k].id.lineage : k \in CellIndexes(m)}

(* The replicates planned for a task and a lineage. *)
RepsOf(m, task, lineage) ==
    {m.cells[k].rep : k \in
        {j \in CellIndexes(m) : m.cells[j].task = task /\ m.cells[j].id.lineage = lineage}}

UniqueTasks(m) ==
    \A i, j \in DOMAIN m.tasks : m.tasks[i].task_id = m.tasks[j].task_id => i = j

NamedTasks(m) == \A i \in DOMAIN m.tasks : m.tasks[i].task_id # << >>

(* What a cell is of. *)
Slot(c) == <<c.task, c.id.lineage, c.rep>>

(* Its run id and its cell_id are a cell's own, and no (task, lineage) has *)
(* a replicate twice.                                                      *)
UniqueCells(m) ==
    \A j, k \in CellIndexes(m) :
        \/ j = k
        \/ /\ m.cells[j].run # m.cells[k].run
           /\ m.cells[j].id.cell_id # m.cells[k].id.cell_id
           /\ Slot(m.cells[j]) # Slot(m.cells[k])

CellDeclared(m, c) ==
    /\ \E i \in DOMAIN m.tasks : m.tasks[i].task_id = c.task /\ m.tasks[i].side = c.id.side
    /\ ReviewerIndependent(c.id)
    /\ c.rep \in 0..(m.n - 1)

(* Every (task, lineage) that appears has all its replicates ... *)
CompleteGroups(m) ==
    \A k \in CellIndexes(m) :
        RepsOf(m, m.cells[k].task, m.cells[k].id.lineage) = 0..(m.n - 1)

(* ... and every declared task appears with every lineage that appears. *)
CompleteProduct(m) ==
    \A t \in TasksOf(m), l \in LineagesOf(m) : RepsOf(m, t, l) # {}

ValidManifest(m) ==
    /\ Len(m.tasks) > 0 /\ Len(m.cells) > 0 /\ m.n >= 1
    /\ NamedTasks(m) /\ UniqueTasks(m)
    /\ UniqueCells(m)
    /\ \A k \in CellIndexes(m) : CellDeclared(m, m.cells[k])
    /\ CompleteGroups(m)
    /\ CompleteProduct(m)

-----------------------------------------------------------------------------
(* The render gate over a sequence of receipts. *)

PlannedRuns(m) == {m.cells[k].run : k \in CellIndexes(m)}

(* Mutant of Anchored: any board's receipts are taken. *)
Anchored_Any(m, r) == TRUE

Anchored(m, r) == r.anchor = m.digest

(* The display identity of a planned receipt is the manifest cell's; an    *)
(* unplanned one is left to the bijection.                                 *)
IdentityMatches(m, r) ==
    \A k \in CellIndexes(m) : m.cells[k].run = r.run => m.cells[k].id = r.id

(* Mutant of StageDenominatorComplete: duplicates are not looked for. *)
StageDenominatorComplete_NoDuplicates(m, rs) ==
    /\ \A i \in DOMAIN rs : rs[i].run \in PlannedRuns(m)
    /\ \A run \in PlannedRuns(m), s \in VALID_STAGES :
           \E i \in DOMAIN rs : rs[i].run = run /\ rs[i].stage = s

(* assert_stage_denominator_complete: no missing, duplicate or unplanned   *)
(* (run, stage).                                                           *)
StageDenominatorComplete(m, rs) ==
    /\ \A i \in DOMAIN rs : rs[i].run \in PlannedRuns(m)
    /\ \A i, j \in DOMAIN rs : rs[i].run = rs[j].run /\ rs[i].stage = rs[j].stage => i = j
    /\ \A run \in PlannedRuns(m), s \in VALID_STAGES :
           \E i \in DOMAIN rs : rs[i].run = run /\ rs[i].stage = s

(* Every measured static receipt ran under the manifest's toolchain. *)
ToolchainPinned(m, rs) ==
    \A i \in DOMAIN rs :
        rs[i].stage = "static" /\ Measured(rs[i]) => rs[i].obs.env_digest = m.env_digest

assert_board_admissible(m, rs) ==
    /\ ValidManifest(m)
    /\ \A i \in DOMAIN rs :
           ValidCellStage(rs[i]) /\ Anchored(m, rs[i]) /\ IdentityMatches(m, rs[i])
    /\ StageDenominatorComplete(m, rs)
    /\ ToolchainPinned(m, rs)

-----------------------------------------------------------------------------
(* What run_gauntlet promises for one cell: the four stages in order, all  *)
(* under the context's identity and over one digest, each signable; with   *)
(* nothing sealed, four errors.                                            *)
CellFilled(rs, ctx) ==
    /\ Len(rs) = Len(GAUNTLET_STAGES)
    /\ \A i \in DOMAIN rs :
           /\ rs[i].stage = GAUNTLET_STAGES[i]
           /\ rs[i].anchor = ctx.anchor /\ rs[i].run = ctx.run /\ rs[i].id = ctx.id
           /\ rs[i].digest = rs[1].digest
           /\ ValidCellStage(rs[i])
=============================================================================
