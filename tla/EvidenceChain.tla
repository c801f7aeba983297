--------------------------- MODULE EvidenceChain ---------------------------
(***************************************************************************)
(* The signed evidence of one run: preregistration, execution, teardown    *)
(* and index (orchestrator/evidence.py, schemas.py, expectations.py).      *)
(* What may be signed, what verifies as one chain and what is admitted.    *)
(*                                                                         *)
(* A receipt is a record.  The digest of a receipt is the receipt itself   *)
(* (a perfect hash), its signature the name of the key that made it.  A    *)
(* key that a payload does not have is None.                               *)
(***************************************************************************)
EXTENDS Naturals

None == "none"

\* The sub reason of a result that has none.
NoSub == ""

ScenarioId ==
    {"compliant_admit", "non_enabled_degraded", "aba_generation_moved",
     "subject_drift_second_image", "sha_tamper", "set_head_stale",
     "oracle_unavailable", "live_attestation_unavailable",
     "authorized_set_moved", "authorized_subject_moved"}

\* The scenarios whose fault a scheduler injects and must disclose.
FaultScenarios ==
    ScenarioId \ {"compliant_admit", "non_enabled_degraded",
                  "subject_drift_second_image"}

\* <<result kind, reason, sub reason>> that the author of a scenario predicts.
expected_for(s) ==
    CASE s = "compliant_admit" -> <<"admitted_run", "pass", NoSub>>
      [] s = "non_enabled_degraded" -> <<"non_run", "block_action_required", NoSub>>
      [] s = "aba_generation_moved" ->
             <<"blocking_refusal", "policy_generation_moved", NoSub>>
      [] s = "subject_drift_second_image" ->
             <<"blocking_refusal", "subject_drift", NoSub>>
      [] s = "sha_tamper" ->
             <<"infrastructure_failure", "artifact_integrity_mismatch", NoSub>>
      [] s = "oracle_unavailable" ->
             <<"blocking_refusal", "oracle_unavailable", "store_unreachable">>
      [] s = "live_attestation_unavailable" ->
             <<"blocking_refusal", "live_attestation_unavailable",
               "attestation_absent">>
      [] OTHER -> <<"blocking_refusal", s, NoSub>>

NoPrediction == <<None, None, None>>

-----------------------------------------------------------------------------
(* Payload schemas: build_receipt signs nothing else                       *)

validate_prereg_payload(p) ==
    /\ p.version \in 1 .. 3
    /\ IF p.version = 3
       THEN p.scenario \in ScenarioId /\ p.expected = expected_for(p.scenario)
       ELSE p.scenario = None /\ p.expected = NoPrediction

\* gated's account() pairs a result with what the gate shows for it.
GateOutcome(kind, reason) ==
    CASE kind \in {"admitted_run", "blocking_refusal"} -> "run_verdict"
      [] kind = "non_run" -> IF reason = "block_action_required"
                             THEN "block_gate" ELSE "neutral_gate"
      [] OTHER -> None

ValidDiscriminator(x) ==
    /\ x.result_kind \in {"admitted_run", "blocking_refusal", "non_run",
                          "infrastructure_failure"}
    /\ x.result_kind = "non_run" =>
         x.result_reason \in {"block_action_required", "skip_neutral"}
    /\ x.gate_outcome = GateOutcome(x.result_kind, x.result_reason)
    /\ x.plan_policy = None <=> x.result_kind = "non_run"

\* The heads of an ABA: gone and back, across a move of the policy.
ValidAbaInjection(fault) ==
    /\ fault.head_bound = fault.head_returned
    /\ fault.head_moved # fault.head_bound
    /\ fault.policy_head_pre # fault.policy_head_post

\* A v3 execution has the keys of its scenario (what the harness did) and of
\* its observed kind (what the gate did), and no other.
ValidExecutionV3(x) ==
    /\ x.scenario \in ScenarioId
    /\ ValidDiscriminator(x)
    /\ x.disclosed <=> x.scenario \in FaultScenarios
    /\ x.scenario = "aba_generation_moved" => ValidAbaInjection(x.fault)
    /\ x.drift_image # None <=> x.scenario = "subject_drift_second_image"
    /\ x.image # None <=> x.result_kind = "admitted_run"
    /\ x.result_kind # "admitted_run" => x.outcome = "error"

validate_execution_payload(x) ==
    /\ x.version \in 1 .. 3
    /\ x.outcome \in {"pass", "fail", "error"}
    /\ IF x.version = 3
       THEN ValidExecutionV3(x)
       ELSE x.scenario = None /\ x.result_kind = None

validate_teardown_payload(t) == t.version \in 1 .. 3

-----------------------------------------------------------------------------
(* Verification                                                            *)

\* Mutant: the image an execution configured may be the seed's.
ImageContinuity_AnySeed(p, x) ==
    x.image \in {None, p.image} /\ x.drift_image \in {None, p.image}

\* The image that ran is the preregistered one; in a drift it is not the one
\* the policy was calibrated on.
ImageContinuity(p, x) ==
    /\ x.image \in {None, p.image}
    /\ x.drift_image # None =>
         x.drift_image = p.image /\ x.seed.image # p.image

\* Mutant: a null plan is not told apart from a foreign one.
PlanContinuity_NullRefused(p, x) == x.plan_policy = p.policy

PlanContinuity(p, x) == x.plan_policy \in {None, p.policy}

\* validate_semantic_continuity: what was preregistered is what was run.
SemanticContinuity(p, x, t) ==
    /\ p.profile = x.profile /\ p.profile = t.profile
    /\ p.gated_commit = x.gated_commit
    /\ x.version = 3 =>
        /\ p.policy = x.policy
        /\ p.scenario = x.scenario
        /\ p.event = x.event
        /\ PlanContinuity(p, x)
        /\ x.seed.policy = p.policy
        /\ x.seed.detector = p.detector
        /\ ImageContinuity(p, x)

\* _verify_one: digest, signature, schema.
VerifyOne(r, key) ==
    /\ r.key = key
    /\ CASE r.kind = "prereg"    -> validate_prereg_payload(r)
         [] r.kind = "execution" -> validate_execution_payload(r)
         [] r.kind = "teardown"  -> validate_teardown_payload(r)
         [] r.kind = "index"     -> r.version \in 1 .. 3

\* Mutant: the four receipts may be of different schema versions.
SameVersion_Any(p, x, t, i) == TRUE

SameVersion(p, x, t, i) ==
    p.version = x.version /\ p.version = t.version /\ p.version = i.version

\* Mutant: the teardown is bound by the index only.
Linked_TeardownFree(p, x, t, i) ==
    /\ x.prereg_digest = p
    /\ i.prereg = p /\ i.execution = x /\ i.teardown = t

Linked(p, x, t, i) ==
    /\ x.prereg_digest = p
    /\ t.execution_digest = x
    /\ i.prereg = p /\ i.execution = x /\ i.teardown = t

verify_integrity(p, x, t, i, key) ==
    /\ p.kind = "prereg" /\ x.kind = "execution"
    /\ t.kind = "teardown" /\ i.kind = "index"
    /\ p.run = x.run /\ p.run = t.run /\ p.run = i.run
    /\ SameVersion(p, x, t, i)
    /\ VerifyOne(p, key) /\ VerifyOne(x, key)
    /\ VerifyOne(t, key) /\ VerifyOne(i, key)
    /\ Linked(p, x, t, i)
    /\ i.verify_key = key
    /\ SemanticContinuity(p, x, t)

-----------------------------------------------------------------------------
(* Admission of a verified chain                                           *)

enforcement_expected_triple(p) == p.expected

enforcement_observed_triple(x) ==
    << x.result_kind,
       IF x.result_kind = "admitted_run" THEN x.outcome ELSE x.result_reason,
       x.result_sub_reason >>

evaluate_admission(p, x, t) ==
    /\ x.version >= 2
    /\ ~t.failure
    /\ IF x.version = 3
       THEN /\ x.result_kind # "infrastructure_failure"
            /\ enforcement_observed_triple(x) = enforcement_expected_triple(p)
       ELSE x.outcome \in {"pass", "fail"}
=============================================================================
