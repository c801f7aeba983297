----------------------- MODULE EvidenceArchiveProofs -----------------------
(***************************************************************************)
(* Proofs about EvidenceArchive for every set of keys, contexts and        *)
(* observations and any number of receipts.  That a prediction was         *)
(* confirmed, and that a drift has two images, is what verification and    *)
(* admission say of any four receipts.  The other two also need to know    *)
(* how receipts come to be (IInv): what is signed passed its schema, and a *)
(* teardown names the execution it was reported for.                       *)
(***************************************************************************)
EXTENDS EvidenceArchive, TLAPS

\* Only what its schema lets pass is signed, and the execution_digest of a
\* teardown is that of the execution it was built for.
IInv ==
    /\ \A p \in preregs : validate_prereg_payload(p)
    /\ \A x \in executions : validate_execution_payload(x)
    /\ \A t \in teardowns : /\ <<t.execution_digest, t.failure>> \in torn
                           /\ t.failure \in BOOLEAN

-----------------------------------------------------------------------------
(* What verification and admission say of four receipts                    *)

\* A v3 preregistration that verifies has the prediction of its scenario.
LEMMA VerifiedPrediction ==
    ASSUME NEW p, NEW x, NEW t, NEW i, NEW key,
           verify_integrity(p, x, t, i, key), p.version = 3
    PROVE  /\ p.expected = expected_for(p.scenario)
           /\ x.version = 3
  <1>1. p.kind = "prereg" /\ VerifyOne(p, key) /\ SameVersion(p, x, t, i)
    BY DEF verify_integrity
  <1>2. validate_prereg_payload(p)
    BY <1>1 DEF VerifyOne
  <1>3. p.expected = expected_for(p.scenario)
    BY <1>2 DEF validate_prereg_payload
  <1> QED
    BY <1>1, <1>3 DEF SameVersion

\* An admitted v3 chain shows what was predicted.
LEMMA AdmittedTriple ==
    ASSUME NEW p, NEW x, NEW t, x.version = 3, evaluate_admission(p, x, t)
    PROVE  enforcement_observed_triple(x) = p.expected
  BY DEF evaluate_admission, enforcement_expected_triple

\* An execution of the drift scenario that verifies ran on the preregistered
\* image, and the seed on another.
LEMMA VerifiedDrift ==
    ASSUME NEW p, NEW x, NEW t, NEW i, NEW key,
           verify_integrity(p, x, t, i, key),
           p.scenario = "subject_drift_second_image"
    PROVE  x.seed.image # p.image
  <1>1. /\ p.kind = "prereg" /\ VerifyOne(p, key)
        /\ x.kind = "execution" /\ VerifyOne(x, key)
        /\ SameVersion(p, x, t, i) /\ SemanticContinuity(p, x, t)
    BY DEF verify_integrity
  <1>2. validate_prereg_payload(p) /\ validate_execution_payload(x)
    BY <1>1 DEF VerifyOne
  <1>3. p.version = 3
    BY <1>2 DEF validate_prereg_payload, None
  <1>4. x.version = 3
    BY <1>1, <1>3 DEF SameVersion
  <1>5. x.scenario = "subject_drift_second_image" /\ ImageContinuity(p, x)
    BY <1>1, <1>4 DEF SemanticContinuity
  <1>6. ValidExecutionV3(x)
    BY <1>2, <1>4 DEF validate_execution_payload
  <1>7. x.drift_image # None
    BY <1>5, <1>6 DEF ValidExecutionV3
  <1> QED
    BY <1>5, <1>7 DEF ImageContinuity

-----------------------------------------------------------------------------
(* How receipts come to be                                                 *)

LEMMA InitInvariant == Init => IInv
  BY DEF Init, IInv

\* The builders sign what their schemas let pass.
LEMMA StepInvariant == IInv /\ [Next]_vars => IInv'
  <1> SUFFICES ASSUME IInv, [Next]_vars PROVE IInv'
    OBVIOUS
  <1>1. ASSUME NEW run, NEW key, NEW v, NEW c, BuildPrereg(run, key, v, c)
        PROVE  IInv'
    BY <1>1 DEF BuildPrereg, IInv
  <1>2. ASSUME NEW p, NEW key, NEW v, NEW c, NEW o,
               BuildExecution(p, key, v, c, o)
        PROVE  IInv'
    BY <1>2 DEF BuildExecution, IInv
  <1>3. ASSUME NEW x, NEW key, NEW v, NEW c,
               NEW failure \in BOOLEAN, BuildTeardown(x, key, v, c, failure)
        PROVE  IInv'
    <2> DEFINE r == TeardownReceipt(x, key, v, c, failure)
    <2>1. /\ teardowns' = teardowns \union {r}
          /\ torn' = torn \union {<<x, failure>>}
          /\ UNCHANGED <<preregs, executions, indexes>>
      BY <1>3 DEF BuildTeardown
    <2>2. r.execution_digest = x /\ r.failure = failure
      BY DEF TeardownReceipt
    <2> HIDE DEF r
    <2> QED
      BY <2>1, <2>2 DEF IInv
  <1>4. ASSUME NEW run, NEW p, NEW x, NEW t, NEW key, NEW verify_key,
               BuildIndex(run, p, x, t, key, verify_key)
        PROVE  IInv'
    BY <1>4 DEF BuildIndex, IInv
  <1>5. CASE UNCHANGED vars
    BY <1>5 DEF vars, IInv
  <1> QED
    BY <1>1, <1>2, <1>3, <1>4, <1>5 DEF Next

LEMMA Invariance == Spec => []IInv
  BY InitInvariant, StepInvariant, PTL DEF Spec

-----------------------------------------------------------------------------
(* Receipts built one on the other in one context                          *)

\* Execution x says what preregistration p said, of the image as well unless
\* a drift was configured on the image of its own seed.
Continues(p, x) ==
    /\ x.version = p.version
    /\ x.profile = p.profile /\ x.gated_commit = p.gated_commit
    /\ x.version = 3 =>
        /\ x.policy = p.policy /\ x.scenario = p.scenario /\ x.event = p.event
        /\ PlanContinuity(p, x)
        /\ x.seed.policy = p.policy /\ x.seed.detector = p.detector
        /\ x.image \in {None, p.image} /\ x.drift_image \in {None, p.image}

\* The execution of a context continues the preregistration of that context.
LEMMA ContextContinues ==
    ASSUME NEW run, NEW key, NEW v, NEW c, NEW o
    PROVE  Continues(PreregReceipt(run, key, v, c),
                     ExecutionReceipt(PreregReceipt(run, key, v, c), key, v, c, o))
  BY DEF Continues, PlanContinuity, PreregReceipt, ExecutionReceipt

\* What the four builders take over from the receipt before.
LEMMA StraightChain ==
    ASSUME NEW p, NEW x, NEW t, NEW i, Straight(p, x, t, i)
    PROVE  /\ p.kind = "prereg" /\ p.version \in 2 .. 3 /\ p.key = TrustedKey
           /\ x.kind = "execution" /\ x.run = p.run /\ x.key = TrustedKey
           /\ x.prereg_digest = p /\ Continues(p, x)
           /\ t.kind = "teardown" /\ t.run = p.run /\ t.key = TrustedKey
           /\ t.execution_digest = x /\ t.version = p.version
           /\ t.profile = p.profile
           /\ i.kind = "index" /\ i.run = p.run /\ i.key = TrustedKey
           /\ i.version = p.version /\ i.verify_key = TrustedKey
           /\ i.prereg = p /\ i.execution = x /\ i.teardown = t
  <1>1. PICK run \in RunName, v \in 2 .. 3, c \in Context :
           /\ p = PreregReceipt(run, TrustedKey, v, c)
           /\ \E o \in Observation : x = ExecutionReceipt(p, TrustedKey, v, c, o)
           /\ \E failure \in BOOLEAN :
                  t = TeardownReceipt(x, TrustedKey, v, c, failure)
           /\ i = IndexReceipt(run, p, x, t, TrustedKey, TrustedKey)
    BY DEF Straight
  <1>2. PICK o \in Observation : x = ExecutionReceipt(p, TrustedKey, v, c, o)
    BY <1>1
  <1>3. PICK failure \in BOOLEAN : t = TeardownReceipt(x, TrustedKey, v, c, failure)
    BY <1>1
  <1>4. /\ p.kind = "prereg" /\ p.version = v /\ p.key = TrustedKey
        /\ p.run = run /\ p.profile = c.profile
    BY <1>1 DEF PreregReceipt
  <1>5. /\ x.kind = "execution" /\ x.run = p.run /\ x.key = TrustedKey
        /\ x.prereg_digest = p
    BY <1>2 DEF ExecutionReceipt
  <1>6. Continues(p, x)
    BY <1>1, <1>2, ContextContinues
  <1>7. /\ t.kind = "teardown" /\ t.run = x.run /\ t.key = TrustedKey
        /\ t.execution_digest = x /\ t.version = v /\ t.profile = c.profile
    BY <1>3 DEF TeardownReceipt
  <1>8. /\ i.kind = "index" /\ i.run = run /\ i.key = TrustedKey
        /\ i.version = p.version /\ i.verify_key = TrustedKey
        /\ i.prereg = p /\ i.execution = x /\ i.teardown = t
    BY <1>1 DEF IndexReceipt
  <1> QED
    BY <1>4, <1>5, <1>6, <1>7, <1>8

-----------------------------------------------------------------------------
\* No mixture of receipts gets a run admitted whose preregistered prediction
\* was not confirmed (evaluate_admission over verify_integrity).
THEOREM PredictionConfirmed == Spec => []PredictionNotEvaded
  <1>1. PredictionNotEvaded
    <2> SUFFICES ASSUME NEW p \in preregs, NEW x \in executions,
                        NEW t \in teardowns, NEW i \in indexes,
                        Admitted(p, x, t, i), p.version = 3
                 PROVE  enforcement_observed_triple(x) = expected_for(p.scenario)
      BY DEF PredictionNotEvaded, enforcement_observed_triple
    <2>1. verify_integrity(p, x, t, i, TrustedKey) /\ evaluate_admission(p, x, t)
      BY DEF Admitted
    <2>2. p.expected = expected_for(p.scenario) /\ x.version = 3
      BY <2>1, VerifiedPrediction
    <2>3. enforcement_observed_triple(x) = p.expected
      BY <2>1, <2>2, AdmittedTriple
    <2> QED
      BY <2>2, <2>3
  <1> QED
    BY <1>1, PTL

\* A drift that is admitted had a seed of another image (image continuity).
THEOREM AdmittedDrift == Spec => []DriftHasTwoImages
  <1>1. DriftHasTwoImages
    <2> SUFFICES ASSUME NEW p \in preregs, NEW x \in executions,
                        NEW t \in teardowns, NEW i \in indexes,
                        Admitted(p, x, t, i),
                        p.scenario = "subject_drift_second_image"
                 PROVE  x.seed.image # p.image
      BY DEF DriftHasTwoImages
    <2>1. verify_integrity(p, x, t, i, TrustedKey)
      BY DEF Admitted
    <2> QED
      BY <2>1, VerifiedDrift
  <1> QED
    BY <1>1, PTL

\* Whatever four receipts an index puts together, an execution is admitted
\* only if a clean teardown was reported for it (check 7b of verify_integrity,
\* build_teardown_receipt and evaluate_admission).
THEOREM TeardownIsOwn == Spec => []OwnTeardown
  <1>1. IInv => OwnTeardown
    <2> SUFFICES ASSUME IInv, NEW p \in preregs, NEW x \in executions,
                        NEW t \in teardowns, NEW i \in indexes,
                        Admitted(p, x, t, i)
                 PROVE  <<x, FALSE>> \in torn
      BY DEF OwnTeardown
    <2>1. t.execution_digest = x
      BY DEF Admitted, verify_integrity, Linked
    <2>2. ~t.failure
      BY DEF Admitted, evaluate_admission
    <2>3. <<x, t.failure>> \in torn /\ t.failure \in BOOLEAN
      BY <2>1 DEF IInv
    <2> QED
      BY <2>2, <2>3
  <1> QED
    BY <1>1, Invariance, PTL

\* A chain that was built in one context verifies, whatever was observed and
\* whatever else was signed: a refuted prediction is a record, not an error
\* (the four builders against verify_integrity).
THEOREM HonestVerify == Spec => []HonestChainsVerify
  <1>1. IInv => HonestChainsVerify
    <2> SUFFICES ASSUME IInv, NEW p \in preregs, NEW x \in executions,
                        NEW t \in teardowns, NEW i \in indexes,
                        Straight(p, x, t, i), ~Misconfigured(x)
                 PROVE  verify_integrity(p, x, t, i, TrustedKey)
      BY DEF HonestChainsVerify
    <2>1. /\ p.kind = "prereg" /\ p.version \in 2 .. 3 /\ p.key = TrustedKey
          /\ x.kind = "execution" /\ x.run = p.run /\ x.key = TrustedKey
          /\ x.prereg_digest = p /\ Continues(p, x)
          /\ t.kind = "teardown" /\ t.run = p.run /\ t.key = TrustedKey
          /\ t.execution_digest = x /\ t.version = p.version
          /\ t.profile = p.profile
          /\ i.kind = "index" /\ i.run = p.run /\ i.key = TrustedKey
          /\ i.version = p.version /\ i.verify_key = TrustedKey
          /\ i.prereg = p /\ i.execution = x /\ i.teardown = t
      BY StraightChain
    <2>2. validate_prereg_payload(p) /\ validate_execution_payload(x)
      BY DEF IInv
    <2>3. SemanticContinuity(p, x, t)
      BY <2>1 DEF SemanticContinuity, Continues, ImageContinuity, Misconfigured
    <2>4. VerifyOne(p, TrustedKey) /\ VerifyOne(x, TrustedKey)
      BY <2>1, <2>2 DEF VerifyOne
    <2>5. VerifyOne(t, TrustedKey) /\ VerifyOne(i, TrustedKey)
      BY <2>1 DEF VerifyOne, validate_teardown_payload
    <2>6. SameVersion(p, x, t, i) /\ Linked(p, x, t, i)
      BY <2>1 DEF SameVersion, Linked, Continues
    <2> QED
      BY <2>1, <2>3, <2>4, <2>5, <2>6 DEF verify_integrity
  <1> QED
    BY <1>1, Invariance, PTL
=============================================================================
