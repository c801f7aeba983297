# gated-uat in TLA+

A specification of `gated-uat`: the harness that runs a governance gate (the
separate `gated` package) end to end, signs what it saw, and renders a signed
board of gated demonstration cells. The modules are translated from the code in
`orchestrator/`, `profiles/`, `attestation/`, `cli.py` and the fault schedulers in
`tests/`; TLC checks them on small instances and TLAPS proves some of their
properties for every instance.

The question behind all of it: *when the harness signs something, did it happen;
and when it shows something, is it what was signed?*

## 1. Inventory

| Part | State it keeps | Operations | What is hard |
|---|---|---|---|
| **Run registry** `isolation.py` | an SQLite file: one row per run id, ACTIVE / COMPLETED / FAILED | constructor (WAL switch with bounded retry, table), `allocate`, `release` | several processes on one file; the WAL switch answers BUSY at once; kills inside transactions |
| **Preregistration store** `_mkdir_durable`, `_persist_prereg` | `runs_dir/<run_id>/prereg.json` | a chain of system calls ending in a rename | a kill or a power loss between any two; two runs that make `runs_dir` together |
| **Enforcement driver** `enforcement_driver.py`, `expectations.py` | the run's captured plan, result and receipts; its registry row | `seed_enabled_policy`, `enforce` | the gate reads its stores at several instants; any call may raise; every path must settle the row |
| **Fault schedulers** `tests/_*_scheduler*.py` | disarmed → armed → firing → completed / failed; what they read | wrap a store or the artifact source and change the stores inside one of admission's reads | a fault that fired half way; other actors at the same stores |
| **Evidence chain** `evidence.py`, `schemas.py`, `trust.py` | signed receipts (prereg, execution, teardown, index) | builders, `verify_integrity`, `evaluate_admission` | receipts of several versions, runs and contexts recombined |
| **Gauntlet** `gauntlet.py` | a sealed artifact, extracted views, the receipts of a cell | seal, four stages, `run_gauntlet` | the producer writes while the seal reads; views change; any exception |
| **Manifest and render gate** `manifest.py`, `schemas.py` | the signed manifest | `plan_cells`, `build_manifest`, `assert_board_admissible` | a complete denominator; assemblies of genuine receipts that are not one board |
| **Render driver** `render_driver.py` | the receipts, the capture sink, the output directory | `render_board` live and replayed, `_emit` | requests shared by cells; failures while writing; names that collide; a directory used before |
| **Live reviewer** `live_review.py`, `provider_gate.py` | captures; the rehearsal record; the published commitment | the two request builders, the strict parser, `rehearse_reviewable_shape`, `build_commitment`, `mint_reviewable_board`, one call to the provider | sources that cannot be shown; a builder swapped after the commitment; the order of rehearsal, commitment, board and record |
| **P1 profile** `cli.py`, `p1_regression.py`, `calibration_driver.py`, `runtime.py`, `gated_pin.py` | the corpus in memory, the log on disk, the row | the command's checks, `_load_corpus`, one calibration, `_write_atomic`, the v2 chain, release, the exit code | corpus, image tag and checkout change during the command; any call may raise; power losses |
| **Projector** `projector.py` | none | `read_sealed_run`, `build_statements` | reads whatever a directory holds |
| Policy seeding | the gate's stores | `seed_enabled_policy` | its result is where `Enforcement` begins (section 7) |
| Sterility check | none | a linter | not modelled |

How they interact. `enforce` allocates a row in the registry, persists a signed
prediction, asks the gate for a plan, runs the artifact source (where a scheduler
may arm itself, tamper, or rebind the policy), lets the gate execute and admit
(where an armed scheduler fires inside a read), then builds and verifies the
receipts and releases the row. `render_board` plans the cells, signs the manifest,
calls `run_gauntlet` for each cell, asks the render gate, and only then writes.
The gate stage of the gauntlet calls `enforce` through an adapter; the stages
share the sealed artifact and nothing else. A live board is rendered inside
`mint_reviewable_board`, whose directory a stranger reads with the projector. The
P1 command shares the registry and the evidence chain with `enforce`, nothing else.

What makes each part correct: a run id is handed out once and its verdict is
final (registry); a run begins only with its prediction on disk for good
(preregistration); an admitted run was authorized at one instant, a signed fault
took place, a COMPLETED row has a verified chain (driver and schedulers); a
refuted prediction is never admitted and never unsignable (evidence); a
measurement is of the bytes its receipt binds, and a cell is published whole
(gauntlet); a rendered board is exactly its planned denominator (render gate);
nothing unlicensed or inadmissible is on disk and a replay shows what was captured
(render and mint); an auditor's and a stranger's reading of the directory is what
the receipts say (wire and projector); a verdict's receipts bind what the sandbox
ran, and exit 0 is evidence (P1).

## 2. Modules

| Module | Stands for | State and actions |
|---|---|---|
| `RunRegistry` | what the registry promises | a map from run ids to row states; `Allocate`, `Release` are atomic |
| `SqliteRegistry` | the registry as written, over SQLite's locks | `pc` of each process; one action per SQL statement, per BUSY answer and per return. Implements `RunRegistry` |
| `PreregStore` | the durable write of a prediction | what processes see and what a power loss may leave, of each directory entry and file; one action per system call |
| `EvidenceChain` | receipts, schemas, verification, admission | operators only |
| `EvidenceArchive` | the builders in anybody's hands - a receipt on any receipt, an index over any three - and an auditor who is handed any four | `BuildPrereg`, `BuildExecution`, `BuildTeardown`, `BuildIndex` |
| `Enforcement` | `enforce` for several runs, with schedulers and operators at the same stores | `policy`, `members` are the gate's stores; `pc` of each run; uses `EvidenceChain` for what is signed and `RunRegistry` (an instance) for the row |
| `BoardSchema` | laws of cell-stage receipts and manifests, `plan_cells`, `assert_board_admissible` | operators only |
| `ManifestPlan` | minting a manifest | plan or bring a cells list, then sign |
| `Gauntlet` | `run_gauntlet` on one cell | the live directory, the digest and the archive built file by file, one view at a time, the receipts |
| `CellPerimeter` | what `run_gauntlet` promises | four receipts at once or an exception and none; implemented by `Gauntlet` |
| `RenderGate` | one board from its manifest to the render gate | `Mint` is a step of `ManifestPlan`; `RunGauntlet` in any context, again and again; `Render` takes any assembly of what was signed |
| `ReviewWire` | request builders, strict parser, auditor's check | operators only |
| `RenderBoard` | `render_board`: a live render, then the replay of its captures | label check, cells, admission, capture check, one action per file written |
| `Projector` | `projector.py` | operators only, on a directory as a map from file names to contents |
| `LiveMint` | a live board from rehearsal to `rehearsal.json`, its replay, its audit, its projection | `Rehearse`, `Skip`, `Commit`, `Gate`, the steps of `RenderBoard`, `WriteRehearsal`, `StartReplay` |
| `P1Run` | `gated-uat run p1`, with those who edit the corpus, rebuild the image and use the checkout | one action per call that can fail or race, the preregistration signed before the calibration and the other receipts after it; `disk` has, of each entry, what is seen and what a power loss may leave |
| `MC*` | instances for TLC | values of constants, symmetry |
| `*Proofs` | theorems | section 5 |

`Enforcement` composes the stores, the schedulers, the evidence and the registry's
promise; `SqliteRegistry` is shown to keep that promise, so a run against the
real registry is the composition of the two. `RenderGate` takes from `Gauntlet`
that a call returns one row over one digest (`FillsTheCell`), and runs `ManifestPlan`
inside itself. `LiveMint` extends `RenderBoard`, which extends `BoardSchema` and
`ReviewWire`, and applies `Projector` to its directory. `P1Run` uses the receipts,
schemas, verification and admission of `EvidenceChain`.

Correspondence worth knowing before reading:

* A digest is the value it is computed over, a signature is the name of its key
  (`EvidenceChain`) or membership in what was signed (`BoardSchema`); hashing and
  Ed25519 are taken as perfect. Field formats (hex lengths, exact key sets) are
  reduced to presence.
* A name - of a task, of a lineage - is the sequence of its words and of the
  separators `/` and `_` between them. `cell_id`, the string task/lineage/replicate that
  `plan_cells` makes, is the concatenation before its last `/` with the number after it
  (`CellId`), so two pairs of names may join to one `cell_id`; the schema compares the
  `cell_id`s and, apart from them, the (task, lineage, replicate) of the cells (`Slot`),
  and a manifest brought by hand may give a cell any `cell_id`. A file's name is the
  `cell_id` with `/` replaced by `_` (`Slug`).
* A write of `write_text` that fails leaves the file as it was, or `Torn`: emptied and
  perhaps half written. A reader of a directory with a torn receipt raises.
* `enforce` commits the row (`Release`) and returns the chain (`Return`) in two steps; a
  kill in between, or a `release()` that raises after its COMMIT, leaves COMPLETED and
  no chain in anybody's hands.
* `D2`, that the rehearsal's source is none of the board's, is a comparison of digests
  that the caller of `mint_reviewable_board` declares; a setup may declare others than
  its sources have (`DeclaredAsIs` says that it did not).
* The gate is not in this repository. `LegalEdge`, `transition`, `set_head`,
  `append`, `deprecate`, `current_attestation_snapshot`, `Engine`, `Attest`,
  `OracleRead`, `Check` and `Bracket` state what the driver, the schedulers and
  their comments rely on; where those leave the outcome open (which disposition a
  stale set gets, whether the set is compared before or after the oracle read,
  what an engine failure is called) every outcome is a choice of the model. They
  are marked external in the map.
* `Kill` in `SqliteRegistry` frees the locks and drops what was not committed, as
  SQLite promises; `PowerLoss` in `PreregStore` leaves for each entry any value it
  has had since its last fsync; so it does in `P1Run`.
* A sealed source is the set of its files; it is over the cap when it has more files
  than the builder allows. A body is its keys and its text blocks, so that what the
  strict parser sees of a request is what the model is shown.
* Gated's `calibrate` is one step of `P1Run` with every result that
  `CalibrationOutcome` can carry, over the fixtures and the image it is given
  (`CalibrationResults`); four provenance digests are there together or not.
* History variables exist only for properties: `grants`, `closed`, `verdict`
  (registry), the actual head and binding in `oracle` and the flag `quiet`
  (enforcement), `over` (gauntlet), `torn` (archive), `minted` (render), `ran`
  and `stopped` (P1).

## 3. Runs

| Run | Asks | Distinct states |
|---|---|---|
| `registry` | two processes: grants unique and durable, verdicts final, no instance over a half-made file, refinement of `RunRegistry`; every call ends under contention | 40 800 |
| `prereg` | two runs over a `runs_dir` that exists or that they make: nothing torn, no prediction lost except with a `runs_dir` that somebody else had made | 1 334 |
| `prereg_race` | *violation*: the run that finds `runs_dir` made but not yet durable | |
| `archive` | recombined receipts never admit an unconfirmed prediction, another's teardown, a one-image drift; a chain from one context verifies, whatever was observed | 229 219 |
| `enforcement` | one run of each of the ten scenarios against two operator changes, exceptions and kills, and two runs whose schedulers meet in one policy's stores: what is admitted, signed and completed is true; every row settles; undisturbed, it ends as predicted | 183 865 |
| `gauntlet` | producer edits and view drifts: nothing unbound is measured; the cell perimeter as a refinement; the call ends | 225 594 |
| `board` | what is signed is the whole product, what is planned over names that join apart can be signed; an admitted board is that denominator, attributed row by row, under one analyser | 33 621 |
| `board_one_tree` | *violation*: a row mixed from two trees | |
| `mint` | twelve setups of a live mint and its replay: what is written is licensed and admissible, every review is captured, an auditor confirms exactly what the committed builder made, statements say what the receipts say | 479 378 |
| `render_replay` | *violation*: a replay that does not reproduce its live board | |
| `render_names` | *violation*: two cells, one file name | |
| `p1` | the P1 command while corpus, tag or checkout change, with failures, kills and power losses: a verdict binds what ran, exit 0 is evidence, the log is the signed one and, uncut, tells the verdict, the row settles | 452 168 |

Every property of a passing run has a mutant beside the definition it mutates
(`X_SomethingWrong`, defined just before `X`): the code with a plausible bug, which
the run then refutes.

**Bounds and why they suffice.** Two processes and one run id are enough for the
registry because every step is decided by one lock and at most one writer, and rows
of different ids meet nowhere else (the theorems are for any number of ids); the
retry budget is 2, so that a try can fail, be repeated and fail for good. Two runs
suffice for `runs_dir`: one makes, one finds. Two receipts of a kind (`MaxOfKind`) and
six in all (`MaxReceipts`) are a chain and two more: a second execution with its
teardown, a second prediction, or a second index, in every mixture of versions and
contexts. They are of one run and one key: verification compares both for equality and
nothing else, and the theorems are for any. `MaxOps = 2` lets operators leave a binding and
come back to it (change a set and restore it, revoke and recalibrate) around one
admission; the two runs sharing a policy (`Together`) are the two whose injections
change the set the other reads, without operators. Two files and two contents
distinguish every mixture of two trees; one edit makes a torn seal, two drifts
change a view before its use and back after it. Two attempts of `run_gauntlet`
produce a duplicate, an omission and a second row, on boards of at most two cells
(`MaxCells`); the manifests minted before have up to twelve, among their names an empty
one and the tasks t, t/a with the lineages b, a/b, whose plan the schema refuses. Static and gate
outcomes of a row go together, since the gate of the board reads no outcome. Two
tasks by two lineages give cells that share a request and cells that do not. The
setups of `mint` are the right one and one for each thing that may be otherwise: a
directory with an earlier board's receipts, equal sources - the throwaway one of them,
and declared as another -, an empty source, a file that is not text, a builder with
another limit, kind, cap, prompt or model than committed, a client that does not tell
its model, a throwaway that is under review or cannot be shown; between them the gate
gives every result kind. `OneError` bounds the reviews that go unmeasured for no
reason of the setup to one per mint, since an error row meets the other cells only in
the sink, the corpus and the admission, all of which see the one. One change by
others (`MaxChanges`) is enough for `p1`: corpus, tag and checkout are each read once
per command, or checked once and read once, so what matters is on which side of each
read a change falls.

`CHECK_DEADLOCK FALSE` is set where an execution ends: all receipts built, every run
of `enforce` over, the command exited or stopped.

## 4. Fairness

* `SqliteRegistry`: weak fairness of each live process's own steps. A process is
  never scheduled out for ever; BUSY answers and the timeout of `BEGIN` are steps
  of it, so no fairness of lock acquisition is assumed. A kill is never fair.
* `Enforcement`: weak fairness of the runs' program text taken together, in which a
  scheduler's unmet guard raises: as long as some run can step, one does. Runs are
  finite and do not wait for each other, so this weaker assumption is enough.
  Operators, failures and kills are not fair. `RowSettles`
  excepts a killed process and a registry that refuses the release, which the code
  indeed leaves ACTIVE.
* `Gauntlet`: weak fairness of the harness thread as a whole; every sandbox run has
  a wall-clock budget and the clients a timeout.
* `P1Run`: weak fairness of the command's own steps, calibration included (gated
  bounds each trial by its budget). Failures are among those steps, as alternatives;
  those who change things, kills and power losses are not fair. `P1RowSettles` excepts
  a stopped process and a registry that refuses the release of the except clause.

## 5. Proofs

Checked by `tlapm` for every value of the constants.

* **`SqliteRegistryProofs`.** `TypeCorrect`, `GrantsAreUnique`, `GrantsAreDurable`,
  `VerdictsAreFinal`, `NoHalfInit` and `Refinement`, for any processes, run ids and retry budgets
  (assuming `Retries` is a positive natural number and `Free` names no process).
  `UniqueGrant` and `OneVerdict` are not inductive: nothing in them says why a
  second `INSERT` cannot have been prepared. The invariant adds that the write
  lock is held exactly while a connection is writing (`WriterInv`), that what a
  transaction read is still so (`TransactionInv`), and that between COMMIT and
  return a granted id or a verdict is in the hands of one call (`GrantInv`,
  `VerdictInv`). The refinement follows: only the two COMMITs change the rows, and
  the lock makes their guards those of `RunRegistry`.
* **`PreregStoreProofs`.** `NoTornPrereg`, for any number of runs: a name on disk is
  `prereg.json` only when the content on disk is whole (`FileInv`, by the position
  of the process). `PreregContract`: a run that made `runs_dir`, or over whose
  `runs_dir` nobody did, keeps its prediction through every kill and power loss.
  The invariant follows the fsyncs downwards: `runs_dir` is durable for such a run
  (`TopInv`), its directory is before the file is opened (`DirInv`), the name is
  before the run begins (`KeptInv`); `SecureKept` says that no later run turns
  an endangered run into a safe one, and `Undisturbed` that other runs' calls leave
  its entries alone. `OnlyRunsDirLost` is the action property: the three entries below
  `runs_dir` are durable for every run that began (`LastingInv`), so that a step can
  take its prediction only with `runs_dir`. For a run that found another's `runs_dir` the contract is
  false (`prereg_race`).
* **`EvidenceArchiveProofs`.** `PredictionConfirmed`, `AdmittedDrift`, `TeardownIsOwn` and
  `HonestVerify`, for any contexts, observations, run names and keys and any number of
  receipts built on one another in any way. The first
  two follow from verification and admission alone (`VerifiedPrediction`,
  `AdmittedTriple`, `VerifiedDrift`). The other two need to know how receipts come to be
  (`IInv`): what is signed passed its schema, and the `execution_digest` of a teardown is
  that of the execution it was reported for. `TeardownIsOwn` then rests on the comparison of that digest (check 7b of
  `verify_integrity`): the index is no help, since anyone may build one over any
  three receipts. `HonestVerify` goes through every comparison of the verifier for a
  chain built in one context (`Straight`).

* **`GauntletProofs`.** `TypeCorrect`, `MeasurementsAreBound`, `TornSeal` and `Refinement` (of
  `CellPerimeter`), for any files and contents, any sandbox, reviewer and enforcement
  path, and any number of edits and drifts (assuming that a planned cell is not
  reviewed by its own lineage, as the manifest's schema demands, and that `NoTree` is no
  tree). What a receipt binds is decided several calls before it is signed: the
  invariant follows the bytes, from the seal, which both halves of complete before a
  stage begins (`SealInv`), to the result that a stage will sign, which is over the
  digest, or, for the gate, carries the digest of what it measured for the schema to
  compare (`StageInv`). `CountInv` and `CellInv` say that the receipts so far are a
  cell's first ones; every way to make a receipt goes through `AppendKeeps` or
  `CellFailureKeeps`.
* **`P1RunProofs`.** `ExitCodeIsEvidence`, `LogIsWhole` and `ReceiptsBindWhatRan`, for any
  corpora, images, keys and commands and any number of changes by the others (assuming
  that `Absent` is not 0). `CorpusInv`: each fixture kept is what its manifest entry says,
  and nothing in memory changes after the run is allocated. `RunInv`: each call knows
  what the calls before it have checked, up to a chain that tells the outcome
  (`ChainHolds`). `LogInv` follows `_write_atomic` call by call; its core, `NoTornLog`, is
  that of all that a power loss may leave nothing is named `observer.log` unless
  everything that may be its content is whole. What a log tells it tells unless it was cut:
  either of its slots may be larger than the cap, a cut slot is JSON no longer, and the
  receipt says so (`observer_log_truncated`). `NoRowForgotten` is the safety half of
  `P1RowSettles`: the command is over with its row still active only if it was stopped, or
  the registry refused the release of the except clause.

* **`EnforcementProofs`.** `TypeCorrect`, `AdmittedCurrent`, `FaultRefused`,
  `CompletedVerified`, `AbaGenuine`, `FaultTookPlace`, `RefutationsSerialise`,
  `QuietIsPredicted` and `OverMeansSettled`, for any number of runs in any scenarios over one policy, any number of operator changes,
  failures and kills (assuming that no run has the name of a fixture that operators
  use). The invariant is one formula per run, in twelve parts. What makes it work for
  many runs is that it speaks of the stores only in ways the others' steps respect: the
  policy moves only to greater generations (`RunMovesPolicy`), and a run's fixture is
  moved by that run alone (`RunMovesFixtures`), so that `OtherKeeps` covers every step
  of another run and of the operators at once. `SnapInv` and `OracleInv` are the heart
  of admission: as long as the generation is that of the snapshot, the binding is the
  snapshot's, so the bracket's comparison of two numbers vouches for what was read in
  between (`CurrentInv`). `InjectedInv` says that an injected fault shows in the
  generation or in the head that was read, `DoneInv` how far a scheduler has come with
  the stores, `ResultInv` that every path to a result makes one that the schema knows,
  with the tree captured. `QuietInv` is a second invariant, of a run that has the policy
  for itself: at each call it says what the stores hold (`StoresCourse`), what the run has
  read of them (`ReadsCourse`) and which result, if any, it has (`ResultCourse`), so that
  the way from the scenario to the predicted triple can be read off it; it covers only
  such states (`Undisturbed`) and every step of another actor leaves them.
  `CompletedVerified` is about the row and the chain as two things: the row is written
  one step before the chain is returned, so that COMPLETED implies a verified chain and
  not that anybody has it. `OverMeansSettled`, the safety half of `RowSettles`, says that
  a run which is over has settled its own row. That the rows evolve as `RunRegistry`
  promises needs no proof here, since `Enforcement` writes them by `RunRegistry`'s own
  actions; what needs one is that the registry as written does (`SqliteRegistryProofs`).

* **`RenderGateProofs`.** `WholeDenominator`, `PlansAreSignable`, `ComparableRows` and
  `OneCallOneTree`, for any tasks, lineages, replicates and cells a driver declares or brings, and any receipts of
  any number of calls (assuming that lists are lists, names sequences of words, and replicates natural numbers).
  The argument is about numbers: `plan_cells` numbers its cells in three digits, task,
  lineage and replicate, which `DigitsOf` and `DigitsUnique` show to exist and to be
  unique; from that `PlanSigns` shows that the plan has no duplicate, no gap and no cell
  reviewed by its producer. That its `cell_id`s differ too is a matter of the names:
  where no task or no lineage has a slash, the place of the last slash, or of the first,
  tells the parts apart again (`NamesTellApart`); otherwise it can fail, and the schema then refuses the plan. `CellsAreProduct` and `ValidIsComplete` show that the laws of
  the schema leave no other denominator than the whole product, and a list of (run,
  stage) pairs without duplicates or gaps has as many entries as cells times stages.
  `OneCallOneTree` bounds what `board_one_tree` shows: since the receipts of a call are
  over one digest (`CallsInv`), a cell of two trees is one that `run_gauntlet` was called
  on twice.

* **`LiveMintProofs`.** `LicensedOnDisk`, `ReviewsCaptured`, `FaithfulReplay`,
  `OwnReceiptFiles`, `AuditorsConfirm` and `BoardsStatements`, for any tasks, lineages, setups, builders and responses, and without the run's bound `OneError`
  (assuming what `MintAssumption` says of a caller: a board has a cell, each of its tasks
  an artifact, a builder is one of the two, and no receipt that is in the directory from
  before is anchored to this board's manifest, whose run ids are fresh; the digests it
  declares may be any). The invariant says that receipts come
  row by row, in the order of the cells (`RowsInv`); that each measured one is a part of
  a planned cell's row, a review one that a capture answers (`ReviewInv`); that this is
  still so of what the live board showed, once it is replayed (`MintedInv`); that nothing
  is written before admission and the check of the captures (`WrittenInv`), nor rendered
  before the rehearsal is asked for (`StepInv`). A wire shows its source (`WireShows`), so
  the rehearsed request is no review's, if the sources were declared as they are. When captures are functional, two complete and
  measured boards over them are equal (`OneBoard`): that is the replay.

  What others read off the directory needs a second invariant, of the disk (`DiskInv`): every
  file is from before or a write of this board (`Base`, `ManifestWrite`, `ReceiptWrite`,
  `CaptureWrite`, `BoardWrites`), and each write that was made has its file, of its own
  content unless a later one of its name replaced it, or of torn content where the last
  write failed (`Written`, `Writing`). Then an auditor finds the
  capture of each review under the digest in its receipt, and what the strict parser sees
  of it is the tree the receipt is about (`AuditOfWire`); a statement of this board's
  digest is of a gate receipt that the board wrote (`OwnAnchor`, `FileOfItsOwn`), whose
  row of the table tells the same effect (`EffectOfTable`), a directory with a torn receipt
  not being read at all; and where file names are apart
  (`NamesApart`), every receipt has a file of its own, so that a finished board has
  exactly one statement for each cell (`OwnFiles`, `InjectiveList`).

Every invariant and every action property of a passing run is the statement of one of
these theorems, and so are both refinements. Only model-checked are the liveness properties
(`EveryCallEnds`, `RowSettles`, `CellReturns`, `P1RowSettles`): liveness under fairness
and ENABLED are out of the prover's reach. What recursive definitions compute for all
inputs would be too; no module has any.

Two things the proofs taught about the models. A `CASE` whose guards overlap leaves its
value open in TLA+, while TLC takes the first: `cell_verdict`, `Wire` and `MapOutcome`
had such guards and now say with IF which comes first, as the code does. And
`StatementsAreTheBoards` needs `NamesApart` and a manifest that no earlier receipt is
anchored to, neither of which was written down before: the first is the subject of
`render_names`, the second holds because `plan_cells` draws fresh run ids.

## 6. What the violations show

1. `prereg_race`: `_mkdir_durable` fsyncs only what it made. A run that finds
   `runs_dir` made by a concurrent run, before that run's fsync, begins on a
   prediction that a power loss takes with `runs_dir`.
2. `board_one_tree`: the render gate accepts any complete set of genuine receipts
   and does not compare the artifact digests within a row. It takes a second call on
   the cell (`OneCallOneTree`).
3. `render_replay`: live requests do not mention the lineage, so cells over equal
   trees share a request; replay gives all of them the first answer.
   `ReplayFaithful` is what does hold: the replay reproduces the board when equal
   requests were answered equally.
4. `render_names`: a receipt's file is named by the cell id with `/` turned into `_`,
   and task ids and lineages are only required not to be empty. Task `t_a` with
   lineage `b` and task `t` with lineage `a_b` share four file names; the render
   succeeds with receipts missing. `OwnReceiptFiles` proves that this is the only way
   to lose one: names that do not run together (`NamesApart`) keep every file.

Seen while modelling, in the models as behaviours, without a run of their own:

* The loser of a race on `mkdir(runs_dir)` gets `FileExistsError` and its run is
  FAILED (action `RunsExists`), where the docstring promises `mkdir -p`.
* `allocate` compares run ids as written, `run_id_slug` in lower case: two spellings
  of one UUID passed in by hand share their resources' names.
* Receipts do not say which attempt they are of, so in `RenderGate` a re-run's row
  can replace a failed one. `render_board` itself runs each cell once.
* A write of `_emit` that fails leaves a part of the board in the directory, the last
  file perhaps torn (`EmitFails`); `OnlyLicensedOnDisk` is what does hold of it.
* `plan_cells` looks at no name. The tasks `t`, `t/a` under the lineages `b`, `a/b` give
  two cells `t/a/b/0`, and an empty lineage a cell without a lineage: both plans come back
  from it and are refused by `validate_manifest_payload` when the manifest is signed.
  `PlanIsSignable` states the names for which that cannot happen.
* A process that dies between the registry's COMMIT and the return of `enforce`
  (enforcement_driver.py:573-574) leaves a row COMPLETED whose chain nobody received. That chain
  did verify (`CompletedMeansVerified`), but it was only in memory.
* An observer log over the cap is cut in mid-JSON: from it alone neither the records nor the verdict can
  be read, only that they were longer.
* The gate stage signs no receipt for an admitted run that the enforcement path calls
  `error`: the schema knows no such outcome, and the stage becomes an error
  (`Measure`, `StageError`).
* In a directory with an earlier board's receipts, the projector makes statements of
  those too, under this board's `statement_id` prefix; their `manifest_digest` tells
  them apart, but the `board_status` of this board's own statements is computed over
  both boards' reviews. `StatementsAreTheBoards` therefore promises the status only in
  a directory of the board's own.
* `captures/<request digest>.json` keeps the last of several answers to one request;
  all are in `board.json`. A rehearsal through the mint's own client leaves its
  capture among the board's, and so does a review whose cell then failed.
* `rehearsal.json` is written after the board: a failure in between leaves a published
  board without it (action `WriteRehearsal`). The record names neither the builder nor
  the board, and the digests that D2 compares are the caller's word (`DeclaredAsIs`).
* `AuditorConfirms` refuses what a swapped builder sent only as far as the commitment
  can tell: the model, the token limit, the prompt and the shape.
* P1's run directory is made with `mkdir(parents=True)` and its parent never fsynced:
  a power loss may take the log of a COMPLETED run whole. `LogIsTheSignedOne` is about
  the log as long as its directory is there.
* The pinned checkout is verified by two calls of git, and what is imported is read
  later; `UseCheckout` may change it in between.

## 7. Not modelled, and the plan

Not modelled: the gate's own engine and calibration; single-field formats; the texts
of a board and the columns of its table but the gate's; capture signatures; the DSSE
envelope and the statements' file names; the constant fields of the runtime pack;
what python imports from the pinned checkout; the durability of the chain that
`enforce` returns, which it leaves to its caller; key files; the sterility check (a
linter). `seed_enabled_policy` is only the initial state of `Enforcement`: between its
calls other operators may act, and what then becomes of the policy depends on what
`ratify_enable` compares, which is not in this repository; its four reads after the
ratification (pin, attestation, policy head, image) are not atomic either.

Done, in the order planned: registry, preregistration, evidence, enforcement with
its schedulers, gauntlet, manifest and render gate, render driver, live mint with
audit and projection, the P1 command, and the proofs of section 5: every safety property
of the runs. Next, proofs of what no single run states:

1. `RenderBoard` fills a cell as `CellPerimeter` promises, as `Gauntlet` does.
2. What a run of `Enforcement` signs is a chain that the builders of `EvidenceArchive` make, so
   that the theorems about chains are about its chains.
3. What of the liveness properties can be said without fairness: measures that each
   step of a run or a call decreases.

To run a check: `tlc -config registry.cfg MCSqliteRegistry`; a proof:
`tlapm SqliteRegistryProofs.tla`.
