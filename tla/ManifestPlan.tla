---------------------------- MODULE ManifestPlan ----------------------------
(***************************************************************************)
(* Minting a board manifest: a driver plans the denominator with           *)
(* plan_cells, or brings a cells list of its own, and build_manifest signs *)
(* what validate_manifest_payload accepts (manifest.py, schemas.py).       *)
(***************************************************************************)
EXTENDS BoardSchema

CONSTANTS
    TaskLists,      \* ordered [task_id, side] lists a driver may declare
    LineageLists,   \* ordered producing lineages
    Replicates,     \* values of n_replicates
    CellLists       \* cells lists a driver may bring instead of planning

VARIABLES
    payload,    \* the manifest payload being minted, or << >>
    planned,    \* it comes from plan_cells
    signed      \* build_manifest signed it

vars == <<payload, planned, signed>>

Init == payload = << >> /\ planned = FALSE /\ signed = FALSE

Plan ==
    /\ payload = << >>
    /\ \E ts \in TaskLists, ls \in LineageLists, n \in Replicates :
           /\ Plannable(ls, n)
           /\ payload' = [tasks |-> ts, n |-> n, cells |-> plan_cells(ts, ls, n)]
    /\ planned' = TRUE
    /\ UNCHANGED signed

Bring ==
    /\ payload = << >>
    /\ \E ts \in TaskLists, n \in Replicates, cs \in CellLists :
           payload' = [tasks |-> ts, n |-> n, cells |-> cs]
    /\ UNCHANGED <<planned, signed>>

(* build_manifest validates, then signs. *)
build_manifest ==
    /\ payload # << >> /\ ~signed
    /\ ValidManifest(payload)
    /\ signed' = TRUE
    /\ UNCHANGED <<payload, planned>>

Refuse ==
    /\ payload # << >> /\ ~signed
    /\ ~ValidManifest(payload)
    /\ UNCHANGED vars

Done == signed /\ UNCHANGED vars

Next == Plan \/ Bring \/ build_manifest \/ Refuse \/ Done

Spec == Init /\ [][Next]_vars

-----------------------------------------------------------------------------
(* A signed denominator is the whole product: every declared task, with    *)
(* every lineage of the board and every replicate, exactly once, each      *)
(* under a run of its own and reviewed by another lineage; no task is      *)
(* advertised and left out.                                                *)
SignedIsComplete ==
    signed =>
        LET lineages == LineagesOf(payload)
            wanted == TasksOf(payload) \X lineages \X (0..(payload.n - 1))
        IN  /\ {Slot(payload.cells[k]) : k \in CellIndexes(payload)} = wanted
            /\ Cardinality(wanted) = Len(payload.cells)
            /\ Cardinality(PlannedRuns(payload)) = Len(payload.cells)
            /\ \A k \in CellIndexes(payload) :
                   payload.cells[k].id.reviewer # payload.cells[k].id.lineage

NoSlash(name) == \A i \in DOMAIN name : name[i] # "/"

(* What plan_cells makes of distinct tasks is signable - planning and      *)
(* validating agree on the order, the replicates and the rotation of       *)
(* reviewers - provided no name is empty and either no task id or no       *)
(* lineage has a "/" in it: plan_cells looks at neither, and the tasks t   *)
(* and t/a under the lineages a/b and b join to one cell_id, which         *)
(* validate_manifest_payload refuses.                                      *)
PlanIsSignable ==
    LET names == TasksOf(payload) \cup LineagesOf(payload)
    IN  /\ planned /\ payload.tasks # << >> /\ UniqueTasks(payload)
        /\ << >> \notin names
        /\ (\A t \in TasksOf(payload) : NoSlash(t)) \/ (\A l \in LineagesOf(payload) : NoSlash(l))
        => ValidManifest(payload)
=============================================================================
