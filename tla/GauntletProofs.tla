--------------------------- MODULE GauntletProofs ---------------------------
(***************************************************************************)
(* What run_gauntlet guarantees for every set of files and contents, every *)
(* sandbox, reviewer and enforcement path, and any number of changes to    *)
(* the producer's directory and to the extracted views.                    *)
(***************************************************************************)
EXTENDS Gauntlet, SequenceTheorems, TLAPS

Sealing == {"start", "hash", "tar"}
Viewing == {"prepare", "run", "measure", "after"}
Staging == {"stage", "sign"} \cup Viewing
Ended == {"returned", "raised"}

\* Program counters are compared everywhere.
USE DEF Sealing, Viewing, Staging, Ended

IsSequence(s) == \E S : s \in Seq(S)

\* The receipts come one by one: none before the seal, four at the end.
CountInv ==
    /\ IsSequence(receipts) /\ IsSequence(over)
    /\ pc \in Sealing => Len(receipts) = 0
    /\ pc \in Staging => Len(receipts) < Len(GAUNTLET_STAGES)
    /\ pc = "returned" => Len(receipts) = Len(GAUNTLET_STAGES)

\* Both halves of the seal hold what was read of each file, and are complete
\* when the stages begin.
SealInv ==
    /\ archive = [f \in DOMAIN archive |-> archive[f]]
    /\ \A f \in DOMAIN archive : archive[f] \in Contents \cup {Link}
    /\ pc \in Staging => DOMAIN digest = Files /\ DOMAIN archive = Files
    /\ pc = "tar" => DOMAIN digest = Files
    /\ pc \in {"start", "hash"} => DOMAIN archive = {}

\* A stage works on a seal that is not torn, and what it will sign is over the
\* digest; what the gate measured is still to be compared with it.
StageInv ==
    /\ pc \in Viewing \cup {"sign"} => archive = digest
    /\ pc \in {"prepare", "run"} => Stage \in {"static", "own_tests"}
    /\ pc = "measure" => Stage = "gate"
    /\ pc \in Sealing \cup {"stage", "prepare", "measure"} => result = NoResult
    /\ pc = "run" => result = [NoResult EXCEPT !.over = digest]
    /\ pc \in {"after", "sign"} =>
         IF Stage = "gate" THEN result.obs.measured_tree_digest = result.over
         ELSE result.over = digest

\* Every receipt is the context's, of its stage, and signable; those of a cell
\* share a digest, the sealed one until the cell is given up.
CellInv ==
    /\ \A i \in DOMAIN receipts :
         /\ receipts[i].stage = GAUNTLET_STAGES[i]
         /\ receipts[i].anchor = Ctx.anchor /\ receipts[i].run = Ctx.run
         /\ receipts[i].id = Ctx.id
         /\ receipts[i].digest = receipts[1].digest
         /\ ValidCellStage(receipts[i])
    /\ pc \in Staging => \A i \in DOMAIN receipts : receipts[i].digest = digest

\* Only a seal that is not torn has measured anything.
MeasuredSeal ==
    /\ MeasuredIsBound
    /\ \A i \in DOMAIN receipts : Measured(receipts[i]) => archive = digest

IInv == TypeOK /\ CountInv /\ SealInv /\ StageInv /\ CellInv /\ MeasuredSeal

-----------------------------------------------------------------------------
(* Receipts                                                                *)

\* Append, on the only things it needs: a sequence of whatever values.
LEMMA AppendToSequence ==
    ASSUME NEW s, IsSequence(s), NEW e
    PROVE  /\ IsSequence(Append(s, e))
           /\ Len(s) \in Nat
           /\ DOMAIN s = 1 .. Len(s)
           /\ Len(Append(s, e)) = Len(s) + 1
           /\ DOMAIN Append(s, e) = 1 .. (Len(s) + 1)
           /\ \A i \in 1 .. Len(s) : Append(s, e)[i] = s[i]
           /\ Append(s, e)[Len(s) + 1] = e
  <1>1. PICK S : s \in Seq(S)
    BY DEF IsSequence
  <1>2. s \in Seq(S \cup {e}) /\ e \in S \cup {e}
    BY <1>1
  <1> HIDE DEF IsSequence
  <1>3. Append(s, e) \in Seq(S \cup {e})
    BY <1>2, AppendProperties
  <1> QED
    BY <1>2, <1>3, AppendProperties DEF IsSequence

\* The stages, spelled out.
LEMMA FourStages ==
    /\ Len(GAUNTLET_STAGES) = 4
    /\ DOMAIN GAUNTLET_STAGES = 1 .. 4
    /\ GAUNTLET_STAGES[1] = "static" /\ GAUNTLET_STAGES[2] = "own_tests"
    /\ GAUNTLET_STAGES[3] = "llm_review" /\ GAUNTLET_STAGES[4] = "gate"
  BY DEF GAUNTLET_STAGES

\* They are the schema's.
LEMMA StagesAreValid == \A i \in 1 .. 4 : GAUNTLET_STAGES[i] \in VALID_STAGES
  BY FourStages DEF VALID_STAGES

\* An error receipt can be signed over any digest, and measures nothing.
LEMMA ErrorIsSignable ==
    ASSUME NEW stage \in VALID_STAGES, NEW d
    PROVE  /\ ErrorReceipt(stage, d).stage = stage
           /\ ErrorReceipt(stage, d).anchor = Ctx.anchor
           /\ ErrorReceipt(stage, d).run = Ctx.run
           /\ ErrorReceipt(stage, d).id = Ctx.id
           /\ ErrorReceipt(stage, d).digest = d
           /\ ~Measured(ErrorReceipt(stage, d))
           /\ ValidCellStage(ErrorReceipt(stage, d))
  BY GauntletAssumption DEF ErrorReceipt, Receipt, Measured, ValidCellStage

\* A stage adds a receipt that is its own, signable, over the digest, and, if it
\* measured, over bytes that are the digest's.
LEMMA AppendKeeps ==
    ASSUME IInv, pc \in Staging, NEW r, NEW b, Append1(r, b),
           r.stage = Stage, r.anchor = Ctx.anchor, r.run = Ctx.run, r.id = Ctx.id,
           r.digest = digest, ValidCellStage(r),
           Measured(r) => b = digest /\ archive = digest
    PROVE  IInv'
  <1> USE DEF IInv
  <1> DEFINE n == Len(receipts)
  <1>1. /\ n \in 0 .. 3 /\ Len(over) = n
        /\ DOMAIN receipts = 1 .. n /\ DOMAIN over = 1 .. n
        /\ IsSequence(receipts') /\ IsSequence(over')
        /\ Len(receipts') = n + 1 /\ Len(over') = n + 1
        /\ DOMAIN receipts' = 1 .. (n + 1)
        /\ \A i \in 1 .. n : receipts'[i] = receipts[i] /\ over'[i] = over[i]
        /\ receipts'[n + 1] = r /\ over'[n + 1] = b
    BY AppendToSequence, FourStages DEF CountInv, TypeOK, Append1
  <1>2. /\ pc' = IF n = 3 THEN "returned" ELSE "stage"
        /\ view' = NoTree /\ result' = NoResult
        /\ UNCHANGED <<dir, edits, drifts, digest, archive>>
    BY <1>1, FourStages DEF Append1, bounds, seal
  <1>3. TypeOK'
    <2>1. \A i \in DOMAIN receipts' : receipts'[i].stage = GAUNTLET_STAGES[i]
      BY <1>1 DEF TypeOK, Stage
    <2> QED
      BY <1>1, <1>2, <2>1, FourStages DEF TypeOK
  <1>4. CountInv'
    BY <1>1, <1>2, FourStages DEF CountInv
  <1>5. SealInv'
    BY <1>2 DEF SealInv
  <1>6. StageInv'
    BY <1>2 DEF StageInv
  <1>7. CellInv'
    <2>1. \A i \in DOMAIN receipts' :
            /\ receipts'[i].stage = GAUNTLET_STAGES[i]
            /\ receipts'[i].anchor = Ctx.anchor /\ receipts'[i].run = Ctx.run
            /\ receipts'[i].id = Ctx.id
            /\ ValidCellStage(receipts'[i])
            /\ receipts'[i].digest = digest
      BY <1>1 DEF CellInv, Stage
    <2>2. 1 \in DOMAIN receipts'
      BY <1>1
    <2> QED
      BY <1>2, <2>1, <2>2 DEF CellInv, ValidCellStage
  <1>8. MeasuredSeal'
    BY <1>1, <1>2 DEF MeasuredSeal, MeasuredIsBound, Measured
  <1> QED
    BY <1>3, <1>4, <1>5, <1>6, <1>7, <1>8

\* So does one whose stage went wrong.
LEMMA StageErrorKeeps ==
    ASSUME IInv, pc \in Staging, StageError
    PROVE  IInv'
  <1>1. Stage \in VALID_STAGES
    <2> DEFINE n == Len(receipts)
    <2>1. n \in 0 .. 3
      BY AppendToSequence, FourStages DEF IInv, CountInv, TypeOK
    <2>2. Stage = GAUNTLET_STAGES[n + 1]
      BY DEF Stage
    <2> HIDE DEF n
    <2>3. n + 1 \in 1 .. 4
      BY <2>1
    <2> QED
      BY <2>2, <2>3, StagesAreValid, Zenon
  <1> QED
    BY <1>1, AppendKeeps, ErrorIsSignable DEF StageError

\* A cell that is given up has four errors over the sentinel.
LEMMA CellFailureKeeps ==
    ASSUME IInv, pc \notin Ended, CellFailure
    PROVE  IInv'
  <1> USE DEF IInv
  <1>1. /\ DOMAIN receipts' = 1 .. 4 /\ Len(receipts') = 4
        /\ Len(over') = 4
        /\ IsSequence(receipts') /\ IsSequence(over')
        /\ \A i \in 1 .. 4 :
             receipts'[i] = ErrorReceipt(GAUNTLET_STAGES[i], Unmeasurable)
    <2>1. /\ receipts' = [i \in 1 .. 4 |-> ErrorReceipt(GAUNTLET_STAGES[i], Unmeasurable)]
          /\ over' = [i \in 1 .. 4 |-> NoTree]
      BY FourStages DEF CellFailure
    <2>2. /\ over' \in Seq({NoTree})
          /\ Len(over') = 4
      BY <2>1
    <2> DEFINE E == {ErrorReceipt(GAUNTLET_STAGES[i], Unmeasurable) : i \in 1 .. 4}
    <2>3. receipts' \in [1 .. 4 -> E]
      BY <2>1
    <2> HIDE DEF E
    <2>4. receipts' \in Seq(E) /\ Len(receipts') = 4
      BY <2>3
    <2> QED
      BY <2>1, <2>2, <2>4, Zenon DEF IsSequence
  <1>2. /\ pc' = "returned" /\ view' = NoTree /\ result' = NoResult
        /\ UNCHANGED <<dir, edits, drifts, digest, archive>>
    BY DEF CellFailure, bounds, seal
  <1>3. TypeOK'
    BY <1>1, <1>2, FourStages, StagesAreValid, ErrorIsSignable DEF TypeOK
  <1>4. CountInv'
    BY <1>1, <1>2, FourStages DEF CountInv
  <1>5. SealInv'
    BY <1>2 DEF SealInv
  <1>6. StageInv'
    BY <1>2 DEF StageInv
  <1>7. CellInv'
    BY <1>1, <1>2, StagesAreValid, ErrorIsSignable DEF CellInv
  <1>8. MeasuredSeal'
    BY <1>1, StagesAreValid, ErrorIsSignable DEF MeasuredSeal, MeasuredIsBound
  <1> QED
    BY <1>3, <1>4, <1>5, <1>6, <1>7, <1>8

-----------------------------------------------------------------------------
(* The steps                                                               *)

\* A step that makes no receipt keeps what is said of receipts, if the seal is
\* complete or there are none yet.
LEMMA NoReceipt ==
    ASSUME IInv, UNCHANGED <<receipts, over>>, pc' # "returned",
           \/ UNCHANGED <<digest, archive>> /\ (pc' \in Staging => pc \in Staging)
           \/ pc \in Sealing
    PROVE  /\ CellInv' /\ MeasuredSeal'
           /\ pc \in Sealing => Len(receipts') = 0 /\ Len(receipts') < Len(GAUNTLET_STAGES)
  <1> USE DEF IInv
  <1>1. pc \in Sealing => DOMAIN receipts = {} /\ Len(receipts) = 0
    BY AppendToSequence DEF CountInv
  <1> QED
    BY <1>1, FourStages DEF CellInv, MeasuredSeal, MeasuredIsBound, Measured, ValidCellStage

\* Sealing: the tree is hashed, then archived, file by file.
LEMMA SealStep ==
    ASSUME IInv, Preflight \/ (\E f \in Files : HashFile(f) \/ TarFile(f))
    PROVE  IInv'
  <1> USE DEF IInv
  <1>1. CASE Preflight
    <2> USE <1>1 DEF Preflight, bounds, seal
    <2>1. CellInv' /\ MeasuredSeal'
      BY NoReceipt
    <2>2. TypeOK'
      BY DEF TypeOK
    <2>3. CountInv'
      BY DEF CountInv
    <2>4. SealInv' /\ StageInv'
      BY DEF SealInv, StageInv
    <2> QED
      BY <2>1, <2>2, <2>3, <2>4
  <1>2. ASSUME NEW f \in Files, HashFile(f) PROVE IInv'
    <2> USE <1>2 DEF HashFile, bounds
    <2>1. CellInv' /\ MeasuredSeal' /\ Len(receipts') = 0
      BY NoReceipt DEF CountInv
    <2>2. DOMAIN digest' = DOMAIN digest \cup {f}
      BY DEF Add
    <2>3. TypeOK' /\ CountInv'
      BY <2>1, <2>2, FourStages DEF TypeOK, CountInv
    <2>4. SealInv' /\ StageInv'
      BY DEF SealInv, StageInv
    <2> QED
      BY <2>1, <2>3, <2>4
  <1>3. ASSUME NEW f \in Files, TarFile(f) PROVE IInv'
    <2> USE <1>3 DEF TarFile, bounds
    <2>1. CellInv' /\ MeasuredSeal' /\ Len(receipts') = 0
      BY NoReceipt DEF CountInv
    <2>2. archive' = [g \in DOMAIN archive \cup {f} |-> IF g = f THEN dir[f] ELSE archive[g]]
      BY DEF Add
    <2>3. TypeOK' /\ CountInv'
      BY <2>1, <2>2, FourStages DEF TypeOK, CountInv
    <2>4. SealInv'
      <3>1. DOMAIN archive' = DOMAIN archive \cup {f}
        BY <2>2
      <3>2. \A g \in DOMAIN archive' : archive'[g] \in Contents \cup {Link}
        BY <2>2, <3>1 DEF SealInv, TypeOK, Trees
      <3> QED
        BY <2>2, <3>1, <3>2 DEF SealInv
    <2>5. StageInv'
      BY DEF StageInv
    <2> QED
      BY <2>1, <2>3, <2>4, <2>5
  <1> QED
    BY <1>1, <1>2, <1>3

\* A stage up to its observation.
LEMMA StageStep ==
    ASSUME IInv, Extract \/ Prepare \/ RunArgvs \/ Measure \/ VerifyAfter \/ Review
    PROVE  IInv'
  <1> USE DEF IInv, bounds, seal
  <1>1. CASE StageError
    BY <1>1, StageErrorKeeps DEF Extract, Prepare, RunArgvs, Measure, VerifyAfter, Review
  <1>2. ASSUME ~StageError PROVE IInv'
    <2> USE <1>2
    <2>1. /\ pc \in Staging /\ pc' \in Viewing \cup {"sign"}
          /\ UNCHANGED <<dir, edits, drifts, digest, archive, receipts, over>>
      BY DEF Extract, Prepare, RunArgvs, Measure, VerifyAfter, Review
    <2>2. CellInv' /\ MeasuredSeal' /\ SealInv' /\ CountInv'
      BY <2>1, NoReceipt DEF SealInv, CountInv
    <2>3. view' \in Trees \cup {NoTree} /\ (view' # NoTree <=> pc' \in Viewing)
      <3>1. CASE Extract
        <4>1. view' = archive /\ pc' \in Viewing
          BY <3>1 DEF Extract
        <4>2. archive \in Trees
          BY <2>1, <3>1 DEF Extract, SealInv, Trees
        <4> QED
          BY <4>1, <4>2, GauntletAssumption DEF Trees
      <3>2. CASE Prepare \/ RunArgvs \/ Measure
        BY <3>2 DEF Prepare, RunArgvs, Measure, TypeOK
      <3>3. CASE VerifyAfter \/ Review
        BY <3>3 DEF VerifyAfter, Review, TypeOK
      <3> QED
        BY <3>1, <3>2, <3>3
    <2>4. TypeOK'
      BY <2>1, <2>3 DEF TypeOK
    <2>5. Stage \in {"static", "own_tests", "llm_review", "gate"} /\ Stage' = Stage
      BY <2>1, FourStages, AppendToSequence DEF Stage, CountInv
    <2>6. StageInv'
      <3> USE <2>1, <2>5 DEF StageInv
      <3>1. CASE Extract
        BY <3>1 DEF Extract, VerifyTree
      <3>2. CASE Prepare
        BY <3>2 DEF Prepare, SnapshotBound
      <3>3. CASE RunArgvs
        BY <3>3 DEF RunArgvs, NoResult
      <3>4. CASE Measure
        BY <3>4 DEF Measure
      <3>5. CASE VerifyAfter
        BY <3>5 DEF VerifyAfter
      <3>6. CASE Review
        <4>1. ReviewSource = digest /\ pc = "stage" /\ Stage = "llm_review"
          BY <3>6 DEF Review, Reconstructs
        <4>2. archive = digest
          BY <4>1 DEF ReviewSource, SealInv
        <4> QED
          BY <3>6, <4>1, <4>2 DEF Review
      <3> QED
        BY <3>1, <3>2, <3>3, <3>4, <3>5, <3>6
    <2> QED
      BY <2>2, <2>4, <2>6
  <1> QED
    BY <1>1, <1>2

\* What is signed as a measurement is over the digest, the gate's by the schema.
LEMMA SignStep ==
    ASSUME IInv, Sign
    PROVE  IInv'
  <1> USE DEF IInv
  <1> DEFINE r == Receipt(Stage, digest, result.outcome, result.obs)
  <1>1. CASE StageError
    BY <1>1, StageErrorKeeps DEF Sign
  <1>2. CASE ValidCellStage(r) /\ Append1(r, result.over)
    <2>1. /\ r.stage = Stage /\ r.anchor = Ctx.anchor /\ r.run = Ctx.run
          /\ r.id = Ctx.id /\ r.digest = digest /\ r.obs = result.obs
      BY DEF Receipt
    <2>2. pc = "sign" /\ archive = digest
      BY DEF Sign, StageInv
    <2> HIDE DEF r
    <2>3. Measured(r) => result.over = digest
      <3>1. CASE Stage # "gate"
        BY <2>2, <3>1 DEF StageInv
      <3>2. CASE Stage = "gate"
        <4>1. Measured(r) => ValidGate(r.obs, r.outcome, digest)
          BY <1>2, <2>1, <3>2 DEF ValidCellStage, ValidObservation
        <4> QED
          BY <4>1, <2>1, <2>2, <3>2 DEF ValidGate, MeasuredBound, StageInv
      <3> QED
        BY <3>1, <3>2
    <2> QED
      BY <1>2, <2>1, <2>2, <2>3, AppendKeeps
  <1> QED
    BY <1>1, <1>2 DEF Sign

\* The producer, whoever touches a view, and an exception that leaves the call.
LEMMA OutsideStep ==
    ASSUME IInv, Produce \/ Drift \/ Raise
    PROVE  IInv'
  <1> USE DEF IInv, seal, bounds
  <1>1. CASE Produce
    <2> USE <1>1 DEF Produce
    <2>1. CellInv' /\ MeasuredSeal'
      BY NoReceipt
    <2>2. TypeOK'
      BY GauntletAssumption DEF TypeOK, Trees
    <2>3. CountInv' /\ SealInv' /\ StageInv'
      BY DEF CountInv, SealInv, StageInv
    <2> QED
      BY <2>1, <2>2, <2>3
  <1>2. CASE Drift
    <2> USE <1>2 DEF Drift
    <2>1. pc \in Viewing
      BY DEF TypeOK
    <2>2. CellInv' /\ MeasuredSeal'
      BY <2>1, NoReceipt
    <2>3. TypeOK'
      BY <2>1, GauntletAssumption DEF TypeOK, Trees
    <2>4. CountInv' /\ SealInv'
      BY DEF CountInv, SealInv
    <2>5. StageInv'
      BY DEF StageInv, Stage
    <2> QED
      BY <2>2, <2>3, <2>4, <2>5
  <1>3. CASE Raise
    <2> USE <1>3 DEF Raise
    <2>1. CellInv' /\ MeasuredSeal'
      BY NoReceipt
    <2>2. TypeOK' /\ CountInv'
      BY DEF TypeOK, CountInv
    <2>3. SealInv' /\ StageInv'
      BY DEF SealInv, StageInv
    <2> QED
      BY <2>1, <2>2, <2>3
  <1> QED
    BY <1>1, <1>2, <1>3

\* The abstract specification's laws are those of the cell.
LEMMA SameLaws ==
    ASSUME NEW rs, NEW ctx
    PROVE  CellFilled(rs, ctx) <=> Perimeter!CellFilled(rs, ctx)
  BY DEF CellFilled, GAUNTLET_STAGES, VALID_STAGES, ValidCellStage, Measured, HarnessError,
         ReviewerIndependent, Perimeter!ReviewerIndependent,
         ValidObservation, ValidStatic, ValidOwnTests, ValidReview, ValidGate,
         ToolsOutcome, expected_pytest_status, OWN_TESTS_CELL_OUTCOME,
         ReviewOutcomeOf, GateOutcomes, GateCellOutcomes, MeasuredBound,
         Perimeter!CellFilled, Perimeter!GAUNTLET_STAGES, Perimeter!VALID_STAGES,
         Perimeter!ValidCellStage, Perimeter!Measured, Perimeter!HarnessError,
         Perimeter!ValidObservation, Perimeter!ValidStatic,
         Perimeter!ValidOwnTests, Perimeter!ValidReview, Perimeter!ValidGate,
         Perimeter!ToolsOutcome, Perimeter!expected_pytest_status,
         Perimeter!OWN_TESTS_CELL_OUTCOME, Perimeter!ReviewOutcomeOf,
         Perimeter!GateOutcomes, Perimeter!GateCellOutcomes,
         Perimeter!MeasuredBound

\* Nothing happens to a cell after the call has ended.
LEMMA EndedStays ==
    ASSUME IInv, [Next]_vars, pc \in Ended
    PROVE  UNCHANGED <<pc, receipts>>
  <1> USE DEF Next, Step, Done, vars
  <1>1. ~Drift /\ ~Produce /\ ~Raise
    BY DEF Drift, Produce, Raise, IInv, TypeOK
  <1>2. ~Step
    BY DEF Preflight, Misconfigured, SealFails, HashFile, TarFile, Extract, Prepare,
           RunArgvs, Measure, VerifyAfter, Review, Sign, StageRaises, PublishFails
  <1> QED
    BY <1>1, <1>2

\* Nothing is read, made or extracted yet.
LEMMA InitIInv == Init => IInv
  <1> SUFFICES ASSUME Init PROVE IInv
    OBVIOUS
  <1> USE DEF Init
  <1>1. /\ receipts = << >> /\ over = << >> /\ Len(receipts) = 0 /\ Len(over) = 0
        /\ DOMAIN receipts = {} /\ DOMAIN digest = {} /\ DOMAIN archive = {}
        /\ IsSequence(receipts) /\ IsSequence(over)
    BY DEF Nothing, IsSequence
  <1>2. TypeOK
    BY <1>1, FourStages, GauntletAssumption DEF TypeOK
  <1>3. CountInv
    BY <1>1 DEF CountInv
  <1>4. SealInv
    BY <1>1 DEF SealInv, Nothing
  <1>5. StageInv /\ CellInv /\ MeasuredSeal
    BY <1>1 DEF StageInv, CellInv, MeasuredSeal, MeasuredIsBound
  <1> QED
    BY <1>2, <1>3, <1>4, <1>5 DEF IInv

\* Every step keeps it.
LEMMA StepKeeps ==
    ASSUME IInv, [Next]_vars
    PROVE  IInv'
  <1>1. CASE Misconfigured \/ SealFails \/ PublishFails
    BY <1>1, CellFailureKeeps DEF Misconfigured, SealFails, PublishFails
  <1>2. CASE StageRaises
    BY <1>2, StageErrorKeeps DEF StageRaises
  <1>3. CASE UNCHANGED vars
    <2> USE <1>3 DEF vars, IInv
    <2>1. TypeOK' /\ CountInv' /\ SealInv'
      BY DEF TypeOK, CountInv, SealInv
    <2>2. StageInv'
      BY DEF StageInv, Stage
    <2>3. CellInv' /\ MeasuredSeal'
      BY DEF CellInv, MeasuredSeal, MeasuredIsBound, ValidCellStage
    <2> QED
      BY <2>1, <2>2, <2>3
  <1> QED
    BY <1>1, <1>2, <1>3, SealStep, StageStep, SignStep, OutsideStep DEF Next, Step, Done

-----------------------------------------------------------------------------
(* The theorems                                                            *)

\* IInv holds of every state of the call.
THEOREM Invariance == Spec => []IInv
  <1> QED
    BY InitIInv, StepKeeps, PTL DEF Spec

\* A signed measurement was made over exactly the bytes its receipt binds.
THEOREM MeasurementsAreBound == Spec => []MeasuredIsBound
  <1>1. IInv => MeasuredIsBound
    BY DEF IInv, MeasuredSeal
  <1> QED
    BY <1>1, Invariance, PTL

\* A seal whose archive is not what was hashed measures nothing.
THEOREM TornSeal == Spec => []TornSealMeasuresNothing
  <1>1. IInv => TornSealMeasuresNothing
    BY DEF IInv, MeasuredSeal, TornSealMeasuresNothing
  <1> QED
    BY <1>1, Invariance, PTL

\* The types, and a view only while a stage uses it.
THEOREM TypeCorrect == Spec => []TypeOK
  <1>1. IInv => TypeOK
    BY DEF IInv
  <1> QED
    BY <1>1, Invariance, PTL

\* run_gauntlet publishes a whole cell or nothing.
THEOREM Refinement == Spec => FillsTheCell
  <1>1. Init => Perimeter!Init
    BY DEF Init, Perimeter!Init
  <1>2. ASSUME IInv, IInv', [Next]_vars
        PROVE  [Perimeter!Next]_(Perimeter!vars)
    <2>1. CASE pc \in Ended
      <3>1. UNCHANGED <<pc, receipts>>
        BY <1>2, <2>1, EndedStays
      <3> QED
        BY <3>1 DEF Perimeter!vars
    <2>2. CASE pc \notin Ended /\ pc' \notin Ended
      BY <2>2 DEF Perimeter!vars
    <2>3. CASE pc \notin Ended /\ pc' = "raised"
      BY <2>3 DEF Perimeter!Next, Perimeter!Raise
    <2>4. CASE pc \notin Ended /\ pc' = "returned"
      <3>1. Len(receipts') = Len(GAUNTLET_STAGES)
        BY <1>2, <2>4 DEF IInv, CountInv
      <3>2. CellFilled(receipts', Ctx)
        BY <1>2, <3>1 DEF CellFilled, IInv, CellInv
      <3> QED
        BY <2>4, <3>2, SameLaws DEF Perimeter!Next, Perimeter!Publish
    <2> QED
      BY <2>1, <2>2, <2>3, <2>4
  <1> QED
    BY <1>1, <1>2, Invariance, PTL DEF Spec, FillsTheCell, Perimeter!Spec
=============================================================================
