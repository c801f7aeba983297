------------------------------ MODULE Gauntlet ------------------------------
(***************************************************************************)
(* run_gauntlet over one board cell (gauntlet.py), while the producer's    *)
(* directory may still change under it and an operator may touch an        *)
(* extracted view.  The artifact is a map from files to contents; a tree   *)
(* hash is the map itself.  Hashing and archiving read one file at a time, *)
(* so either can see a mixture of two trees.  A stage ends by signing its  *)
(* observation or, whatever went wrong, an error; the receipts reach the   *)
(* caller when the fourth is made.                                         *)
(***************************************************************************)
EXTENDS BoardSchema

CONSTANTS
    Files,          \* paths of the artifact
    Contents,       \* contents of a regular file
    Link,           \* a symbolic link, hard link or special file at a path
    NoTree,         \* no view is extracted
    Ctx,            \* the CellContext
    Pinned,         \* the manifest's toolchain env_digest
    SandboxRuns,    \* what a sandbox may report: image, isolation, two exits
    Projections,    \* what the enforcement path may report to the gate stage
    MaxEdits,       \* bound on the producer's edits
    MaxDrifts       \* bound on the changes to extracted views

(* A planned cell is not reviewed by its own lineage (CellDeclared).        *)
ASSUME GauntletAssumption ==
    /\ NoTree \notin [Files -> Contents \cup {Link}]
    /\ ReviewerIndependent(Ctx.id)
    /\ MaxEdits \in Nat /\ MaxDrifts \in Nat

Trees == [Files -> Contents \cup {Link}]

VARIABLES
    dir,        \* artifact_dir, live
    edits,      \* edits so far (bound)
    pc,         \* where run_gauntlet is
    digest,     \* the tree hash, file by file, then SealedArtifact.digest
    archive,    \* the tar, file by file, then SealedArtifact.archive
    view,       \* the extracted view, or NoTree
    drifts,     \* changes to views so far (bound)
    result,     \* the observation the running stage will return
    over,       \* the bytes each measured receipt was made over (history)
    receipts    \* the receipts made so far

vars == <<dir, edits, pc, digest, archive, view, drifts, result, over, receipts>>

Nothing == [f \in {} |-> f]
NoResult == [outcome |-> "error", obs |-> HarnessError, over |-> NoTree]

TypeOK ==
    /\ dir \in Trees
    /\ edits \in 0..MaxEdits /\ drifts \in 0..MaxDrifts
    /\ pc \in {"start", "hash", "tar", "stage", "prepare", "run", "measure", "after",
               "sign", "returned", "raised"}
    /\ DOMAIN digest \subseteq Files /\ DOMAIN archive \subseteq Files
    /\ view \in Trees \cup {NoTree}
    /\ (view # NoTree) = (pc \in {"prepare", "run", "measure", "after"})
    /\ Len(receipts) = Len(over) /\ Len(receipts) <= Len(GAUNTLET_STAGES)
    /\ \A i \in DOMAIN receipts : receipts[i].stage = GAUNTLET_STAGES[i]

Init ==
    /\ dir \in Trees
    /\ edits = 0 /\ drifts = 0
    /\ pc = "start"
    /\ digest = Nothing /\ archive = Nothing
    /\ view = NoTree
    /\ result = NoResult
    /\ over = << >> /\ receipts = << >>

seal == <<digest, archive>>
bounds == <<edits, drifts>>

-----------------------------------------------------------------------------
(* Environment. *)

(* The producer edits a file.  After the archive is closed nothing reads   *)
(* the directory.                                                          *)
Produce ==
    /\ pc \in {"start", "hash", "tar"} /\ edits < MaxEdits
    /\ \E f \in Files, c \in Contents \cup {Link} : dir' = [dir EXCEPT ![f] = c]
    /\ edits' = edits + 1
    /\ UNCHANGED <<pc, seal, view, drifts, result, over, receipts>>

(* An extracted view changes between two reads of it. *)
Drift ==
    /\ view # NoTree /\ drifts < MaxDrifts
    /\ \E f \in Files, c \in Contents : view' = [view EXCEPT ![f] = c]
    /\ drifts' = drifts + 1
    /\ UNCHANGED <<dir, edits, pc, seal, result, over, receipts>>

-----------------------------------------------------------------------------
(* Receipts. *)

Receipt(stage, d, outcome, obs) ==
    [run |-> Ctx.run, anchor |-> Ctx.anchor, id |-> Ctx.id, stage |-> stage,
     digest |-> d, outcome |-> outcome, obs |-> obs]

ErrorReceipt(stage, d) == Receipt(stage, d, "error", HarnessError)

Stage == GAUNTLET_STAGES[Len(receipts) + 1]

(* Mutant of Append1: extract_view without its finally. *)
Append1_ViewKept(r, bytes) ==
    /\ receipts' = Append(receipts, r)
    /\ over' = Append(over, bytes)
    /\ pc' = IF Len(receipts) + 1 = Len(GAUNTLET_STAGES) THEN "returned" ELSE "stage"
    /\ result' = NoResult
    /\ UNCHANGED <<dir, bounds, seal, view>>

Append1(r, bytes) ==
    /\ receipts' = Append(receipts, r)
    /\ over' = Append(over, bytes)
    /\ pc' = IF Len(receipts) + 1 = Len(GAUNTLET_STAGES) THEN "returned" ELSE "stage"
    /\ view' = NoTree
    /\ result' = NoResult
    /\ UNCHANGED <<dir, bounds, seal>>

(* Mutant of StageError: the stage is run again. *)
StageError_Rerun ==
    /\ pc' = "stage"
    /\ view' = NoTree
    /\ result' = NoResult
    /\ UNCHANGED <<dir, bounds, seal, over, receipts>>

(* Any exception inside run_stage is a published error over the seal. *)
StageError == Append1(ErrorReceipt(Stage, digest), NoTree)

(* Mutant of CellFailure: what the stages had produced is kept. *)
CellFailure_KeepsDone ==
    /\ receipts' = [i \in DOMAIN GAUNTLET_STAGES |->
                        IF i \in DOMAIN receipts THEN receipts[i]
                        ELSE ErrorReceipt(GAUNTLET_STAGES[i], Unmeasurable)]
    /\ over' = [i \in DOMAIN GAUNTLET_STAGES |->
                        IF i \in DOMAIN over THEN over[i] ELSE NoTree]
    /\ pc' = "returned"
    /\ view' = NoTree
    /\ result' = NoResult
    /\ UNCHANGED <<dir, bounds, seal>>

(* Any exception outside a stage fills the cell with four errors over the  *)
(* sentinel; what the stages had produced is dropped.                      *)
CellFailure ==
    /\ receipts' = [i \in DOMAIN GAUNTLET_STAGES |->
                        ErrorReceipt(GAUNTLET_STAGES[i], Unmeasurable)]
    /\ over' = [i \in DOMAIN GAUNTLET_STAGES |-> NoTree]
    /\ pc' = "returned"
    /\ view' = NoTree
    /\ result' = NoResult
    /\ UNCHANGED <<dir, bounds, seal>>

-----------------------------------------------------------------------------
(* The seal. *)

Add(m, f) == [g \in DOMAIN m \cup {f} |-> IF g = f THEN dir[f] ELSE m[g]]

(* assert_safe_artifact_tree refuses links and special files; the wiring   *)
(* check, a missing directory and an OSError end the same way.             *)
Preflight ==
    /\ pc = "start"
    /\ \A f \in Files : dir[f] # Link
    /\ pc' = "hash"
    /\ UNCHANGED <<dir, bounds, seal, view, result, over, receipts>>

Misconfigured == pc = "start" /\ CellFailure

HashFile(f) ==
    /\ pc = "hash" /\ f \notin DOMAIN digest
    /\ digest' = Add(digest, f)
    /\ pc' = IF DOMAIN digest' = Files THEN "tar" ELSE "hash"
    /\ UNCHANGED <<dir, bounds, archive, view, result, over, receipts>>

TarFile(f) ==
    /\ pc = "tar" /\ f \notin DOMAIN archive
    /\ archive' = Add(archive, f)
    /\ pc' = IF DOMAIN archive' = Files THEN "stage" ELSE "tar"
    /\ UNCHANGED <<dir, bounds, digest, view, result, over, receipts>>

SealFails == pc \in {"hash", "tar"} /\ CellFailure

-----------------------------------------------------------------------------
(* A stage: static and own_tests extract, prepare a sandbox, run, verify   *)
(* the view again; gate extracts, measures, verifies; llm_review reads the *)
(* archive.                                                                *)

(* safe_extract_tarball refuses links; verify_tree compares with the seal. *)
VerifyTree(tree) == tree = digest

Extract ==
    /\ pc = "stage" /\ Stage # "llm_review"
    /\ IF (\A f \in Files : archive[f] # Link) /\ VerifyTree(archive)
         THEN /\ view' = archive
              /\ pc' = IF Stage = "gate" THEN "measure" ELSE "prepare"
              /\ UNCHANGED <<dir, bounds, seal, result, over, receipts>>
         ELSE StageError

(* OCISandbox.prepare snapshots the view and re-hashes the snapshot. *)
SnapshotBound(tree) == tree = digest

Prepare ==
    /\ pc = "prepare"
    /\ IF SnapshotBound(view)
         THEN /\ pc' = "run"
              /\ result' = [result EXCEPT !.over = view]
              /\ UNCHANGED <<dir, bounds, seal, view, over, receipts>>
         ELSE StageError

StaticObs(s) ==
    [env_digest |-> s.image, ruff_exit |-> s.exits[1], mypy_exit |-> s.exits[2]]

OwnTestsObs(s) ==
    [isolation |-> s.isolation, image_digest |-> s.image, exit |-> s.exits[1],
     status |-> expected_pytest_status(s.exits[1])]

(* The argvs run over the snapshot and the sandbox is torn down. *)
RunArgvs ==
    /\ pc = "run"
    /\ \E s \in SandboxRuns :
           result' = [result EXCEPT
               !.obs = IF Stage = "static" THEN StaticObs(s) ELSE OwnTestsObs(s),
               !.outcome = IF Stage = "static" THEN ToolsOutcome(s.exits[1], s.exits[2])
                           ELSE OWN_TESTS_CELL_OUTCOME[expected_pytest_status(s.exits[1])]]
    /\ pc' = "after"
    /\ UNCHANGED <<dir, bounds, seal, view, over, receipts>>

(* gate: the adapter copies the view at its own seam, measures the copy    *)
(* and decides; an admitted run carries its verdict, or "error" with none, *)
(* which no receipt of an admitted run may say.                            *)
Measure ==
    /\ pc = "measure"
    /\ \E p \in Projections, v \in {"pass", "fail", "error"} :
           result' = [outcome |-> IF p.result_kind = "admitted_run" THEN v
                                  ELSE IF p.result_kind = "blocking_refusal" THEN "blocked"
                                  ELSE "error",
                      obs |-> [result_kind |-> p.result_kind,
                               result_reason |-> p.result_reason,
                               gate_outcome |-> p.gate_outcome,
                               measured_tree_digest |-> view],
                      over |-> view]
    /\ pc' = "after"
    /\ UNCHANGED <<dir, bounds, seal, view, over, receipts>>

(* static_stage refuses an image that is not the manifest's and a run that *)
(* did not complete; own_tests_stage has neither check.                    *)
StageAccepts ==
    Stage = "static" =>
        /\ result.obs.env_digest = Pinned
        /\ result.obs.ruff_exit # NoExit /\ result.obs.mypy_exit # NoExit

VerifyAfter ==
    /\ pc = "after"
    /\ IF VerifyTree(view) /\ StageAccepts
         THEN /\ pc' = "sign"
              /\ view' = NoTree
              /\ UNCHANGED <<dir, bounds, seal, result, over, receipts>>
         ELSE StageError

(* Mutant of Reconstructs: no self-check before the source is shown. *)
Reconstructs_Unchecked(source) == TRUE

(* canonical_review_source: the archive's regular files must reconstruct   *)
(* the sealed digest.                                                      *)
ReviewSource ==
    LET regular == {f \in Files : archive[f] # Link}
    IN  [f \in regular |-> archive[f]]

Reconstructs(source) == source = digest

Review ==
    /\ pc = "stage" /\ Stage = "llm_review"
    /\ IF Reconstructs(ReviewSource)
         THEN /\ \E verdict \in {"approve", "request_changes", "unparsed"} :
                     result' = [outcome |-> ReviewOutcomeOf(verdict),
                                obs |-> [verdict |-> verdict, source |-> ReviewSource],
                                over |-> ReviewSource]
              /\ pc' = "sign"
              /\ UNCHANGED <<dir, bounds, seal, view, over, receipts>>
         ELSE StageError

(* build_cell_stage_receipt: an observation the schema refuses becomes an  *)
(* error receipt.                                                          *)
Sign ==
    /\ pc = "sign"
    /\ LET r == Receipt(Stage, digest, result.outcome, result.obs)
       IN  IF ValidCellStage(r) THEN Append1(r, result.over) ELSE StageError

(* The sandbox, the reviewer or the gate raises. *)
StageRaises ==
    /\ pc \in {"stage", "prepare", "run", "measure", "after"}
    /\ StageError

(* Receipt building itself fails inside run_stage's handler: the cell      *)
(* perimeter catches it.                                                   *)
PublishFails == pc = "sign" /\ CellFailure

(* The perimeter's own receipts cannot be built, or a BaseException passes *)
(* through it.                                                             *)
Raise ==
    /\ pc \notin {"returned", "raised"}
    /\ pc' = "raised"
    /\ view' = NoTree
    /\ UNCHANGED <<dir, bounds, seal, result, over, receipts>>

Step ==
    \/ Preflight \/ Misconfigured \/ SealFails
    \/ \E f \in Files : HashFile(f) \/ TarFile(f)
    \/ Extract \/ Prepare \/ RunArgvs \/ Measure \/ VerifyAfter \/ Review
    \/ Sign \/ StageRaises \/ PublishFails

(* The call has ended; the caller has its receipts or its exception. *)
Done == pc \in {"returned", "raised"} /\ UNCHANGED vars

Next == Step \/ Produce \/ Drift \/ Raise \/ Done

Spec == Init /\ [][Next]_vars

(* Every sandbox run has a wall-clock budget and every client call a       *)
(* timeout: the harness thread keeps going.                                *)
FairSpec == Spec /\ WF_vars(Step)

-----------------------------------------------------------------------------
(* A signed measurement was made over exactly the bytes its receipt binds, *)
(* whatever the producer did between hashing and archiving and whatever    *)
(* happened to the view between its extraction and its use.  (README:      *)
(* each stage binds the sealed artifact digest; drift is an ERROR.)        *)
MeasuredIsBound ==
    \A i \in DOMAIN receipts : Measured(receipts[i]) => over[i] = receipts[i].digest

(* A seal whose archive is not what was hashed measures nothing: all the   *)
(* stages of such a cell end in errors.                                    *)
TornSealMeasuresNothing ==
    DOMAIN archive = Files /\ archive # digest =>
        \A i \in DOMAIN receipts : ~Measured(receipts[i])

(* The code publishes whole cells: see CellPerimeter. *)
Perimeter == INSTANCE CellPerimeter WITH
    cell <- IF pc = "returned" THEN receipts ELSE << >>,
    raised <- (pc = "raised")

(* run_gauntlet returns the four receipts together, or raises with none;   *)
(* never a part of a cell, never two digests in one.                       *)
FillsTheCell == Perimeter!Spec

(* The call ends: a failing stage is never run again. *)
CellReturns == <>(pc \in {"returned", "raised"})

=============================================================================
