---------------------------- MODULE Enforcement ----------------------------
(***************************************************************************)
(* enforce() (orchestrator/enforcement_driver.py): live runs that drive    *)
(* the gate over one policy's stores, with the schedulers of tests/ that   *)
(* inject a run's fault at an exact interleaving, and operators who change *)
(* the same stores meanwhile.                                              *)
(*                                                                         *)
(* The gate itself is not in this repository: its stores and its           *)
(* admission are modelled from how the driver, the schedulers and their    *)
(* documentation use them, with every outcome they leave open as a choice. *)
(* The head of a calibration set is its membership, the subject an image   *)
(* measures is the image's name, and a policy head is a counter.           *)
(***************************************************************************)
EXTENDS EvidenceChain

CONSTANTS
    Run,            \* the runs of enforce(), as strings: a run is also the
                    \* fixture its scheduler adds
    Casts           \* which runs there are, by their scenarios (None: no such
                    \* run), and how often operators may change the stores

\* The fixtures that schedulers add are their own.
ASSUME RunAssumption == Run \cap {"base", "extra", "second"} = {}

ASSUME CastsAssumption ==
    \A c \in Casts :
        c.scenario \in [Run -> ScenarioId \cup {None}] /\ c.ops \in Nat

VARIABLES
    policy,     \* the policy's row: state, binding and generation
    members,    \* the fixtures of each calibration set
    ops,        \* bound: changes the operators have left
    quiet,      \* no operator, failure or kill so far (for the properties)
    scenario,   \* of each run, from its configuration
    pc, row,    \* where the run is; its row in the run registry
    sched,      \* state of the run's fault scheduler
    fault,      \* what the scheduler has read so far
    plan,       \* captured: the dispatched plan
    tree_hash,  \* captured: is the bound tree hash there?
    snap,       \* admission's attestation snapshot
    oracle,     \* admission's oracle read; the head and the ENABLED binding
                \* there really are at that instant (for the properties)
    result,     \* the JobResult
    execution   \* the signed execution receipt

stores == <<policy, members>>
local == <<sched, fault, plan, tree_hash, snap, oracle>>
record == <<result, execution>>
env == <<ops, quiet>>
vars == <<stores, env, scenario, pc, row, local, record>>

-----------------------------------------------------------------------------
(* The seed and the configuration                                          *)

SetId == {"set1", "set2"}
Image == {"img1", "img2"}

Seed == [policy |-> "pol", detector |-> "retry", image |-> "img1",
         set |-> "set1", head |-> {"base"}]

\* The image a run is launched by.
RunImage(r) ==
    IF scenario[r] = "subject_drift_second_image" THEN "img2" ELSE "img1"

AbaScenario == "aba_generation_moved"
AtOracle == {AbaScenario, "set_head_stale", "oracle_unavailable"}
RecalScenarios == {"authorized_set_moved", "authorized_subject_moved"}
ArmedScenarios == AtOracle \cup {"live_attestation_unavailable"}

\* The binding the recalibration loop of a scenario moves the policy to.
TargetSet(r) == IF scenario[r] = "authorized_set_moved" THEN "set2" ELSE "set1"
RecalImage(r) ==
    IF scenario[r] = "authorized_subject_moved" THEN "img2" ELSE "img1"

NoPlan == [set |-> None, head |-> {}, subject |-> None]
NoSnap == [set |-> None, head |-> {}, subject |-> None, generation |-> 0]
NoOracle == [head |-> {}, live |-> {}, policy |-> NoPlan]
Registry == INSTANCE RunRegistry WITH RunId <- Run, registry <- row

NoReceipt == [kind |-> None]
NoResult == [kind |-> None, reason |-> None, sub |-> None, outcome |-> None]
NoFault == [head_bound |-> {}, head_moved |-> {}, head_returned |-> {},
            policy_head_pre |-> 0, policy_head_post |-> 0]

Refusal(reason, sub) == [kind |-> "blocking_refusal", reason |-> reason,
                         sub |-> sub, outcome |-> "error"]
Infra(reason) == [kind |-> "infrastructure_failure", reason |-> reason,
                  sub |-> NoSub, outcome |-> "error"]
NonRun(reason) == [kind |-> "non_run", reason |-> reason,
                   sub |-> NoSub, outcome |-> "error"]
AdmittedRun(outcome) == [kind |-> "admitted_run", reason |-> "completed",
                         sub |-> NoSub, outcome |-> outcome]

Ended == {"returned", "raised", "stranded", "killed"}

RecalSteps == {"recal_demote", "recal_pending", "recal_calibrate", "recal_pin",
               "recal_ratify", "recal_readback"}
AbaSteps == {"aba_add", "aba_moved", "aba_pre", "aba_degrade", "aba_post",
               "aba_deprecate", "aba_returned"}
AttnSteps == {"attn_degrade", "attn_post", "attn_snapshot"}

Step == {"entry", "prereg", "decide", "source", "engine", "attest", "oracle",
         "stale_add", "stale_moved", "checks", "bracket", "map", "assemble",
         "release", "return", "failing"} \cup RecalSteps \cup AbaSteps \cup AttnSteps

\* The seeded policy; the test of a degraded policy revokes it beforehand.
Init ==
    /\ \E c \in Casts : scenario = c.scenario /\ ops = c.ops
    /\ \E s \in {"ENABLED", "DEGRADED"} :
        /\ s = "DEGRADED" => \E r \in Run : scenario[r] = "non_enabled_degraded"
        /\ policy = [state |-> s, set |-> "set1", head |-> {"base"},
                     subject |-> "img1",
                     generation |-> IF s = "ENABLED" THEN 0 ELSE 1]
    /\ members = [s \in SetId |-> IF s = "set1" THEN {"base"} ELSE {}]
    /\ quiet = TRUE
    /\ pc = [r \in Run |-> "entry"]
    /\ row = [r \in Run |-> "absent"]
    /\ sched = [r \in Run |-> "disarmed"]
    /\ fault = [r \in Run |-> NoFault]
    /\ plan = [r \in Run |-> NoPlan]
    /\ tree_hash = [r \in Run |-> FALSE]
    /\ snap = [r \in Run |-> NoSnap]
    /\ oracle = [r \in Run |-> NoOracle]
    /\ result = [r \in Run |-> NoResult]
    /\ execution = [r \in Run |-> NoReceipt]

Go(r, from, to) == pc[r] = from /\ pc' = [pc EXCEPT ![r] = to]

Put(f, r, v) == f' = [f EXCEPT ![r] = v]

-----------------------------------------------------------------------------
(* The governance stores                                                   *)

LegalEdge ==
    {<<"ENABLED", "DEGRADED">>, <<"ENABLED", "ADVISORY">>,
     <<"ADVISORY", "PENDING">>, <<"PENDING", "CALIBRATING">>,
     <<"CALIBRATING", "ENABLED">>}

\* Every transition is a new entry of the policy's chain.
transition(state) ==
    /\ <<policy.state, state>> \in LegalEdge
    /\ policy' = [policy EXCEPT !.state = state, !.generation = @ + 1]

set_head(s) == members[s]

append(s, fixture) == members' = [members EXCEPT ![s] = @ \cup {fixture}]

deprecate(s, fixture) == members' = [members EXCEPT ![s] = @ \ {fixture}]

\* The ENABLED binding, and nothing of a policy in another state.
current_attestation_snapshot(p) ==
    IF p.state # "ENABLED" THEN NoSnap
    ELSE [set |-> p.set, head |-> p.head, subject |-> p.subject,
          generation |-> p.generation]

\* An operator revokes or demotes the policy, recalibrates it to the end of
\* the loop, or changes a set.
Operate ==
    /\ ops > 0 /\ ops' = ops - 1 /\ quiet' = FALSE
    /\ \/ \E s \in {"DEGRADED", "ADVISORY"} : transition(s) /\ UNCHANGED members
       \/ \E s \in SetId, image \in Image :
            /\ policy.state \in {"ENABLED", "ADVISORY", "DEGRADED"}
            /\ members[s] # {}
            /\ policy' = [state |-> "ENABLED", set |-> s, head |-> set_head(s),
                          subject |-> image, generation |-> policy.generation + 4]
            /\ UNCHANGED members
       \/ \E f \in {"base", "extra"} :
            /\ IF f \in members["set1"] THEN deprecate("set1", f)
                                        ELSE append("set1", f)
            /\ UNCHANGED policy
    /\ UNCHANGED <<scenario, pc, row, local, record>>

-----------------------------------------------------------------------------
(* enforce(): entry to the run                                             *)

\* The guards before the row exists raise out of enforce().
Enter(r) ==
    /\ scenario[r] # None
    /\ \/ Go(r, "entry", "prereg") /\ Registry!Allocate(r) /\ UNCHANGED quiet
       \/ Go(r, "entry", "raised") /\ quiet' = FALSE /\ UNCHANGED row
    /\ UNCHANGED <<stores, ops, scenario, local, record>>

\* What the driver signs for r before it runs.
Prereg(r) ==
    [kind |-> "prereg", run |-> r, key |-> "key", version |-> 3,
     profile |-> "p1", gated_commit |-> "commit", scenario |-> scenario[r],
     expected |-> expected_for(scenario[r]), policy |-> Seed.policy,
     event |-> "event", detector |-> Seed.detector, image |-> RunImage(r)]

\* build_receipt signs what the schema allows, and the file is durable.
PersistPrereg(r) ==
    /\ validate_prereg_payload(Prereg(r))
    /\ Go(r, "prereg", "decide")
    /\ UNCHANGED <<stores, env, scenario, row, local, record>>

\* resolve_decision: the gate reads the policy and its set once.  A plan is
\* for the bound set, head and subject.
ResolveDecision(r) ==
    /\ \/ /\ policy.state = "ENABLED"
          /\ Go(r, "decide", "source")
          /\ Put(plan, r, [set |-> policy.set, head |-> policy.head,
                           subject |-> policy.subject])
          /\ UNCHANGED result
       \/ \E d \in {"block_action_required", "skip_neutral"} :
            /\ policy.state = "ENABLED" =>
                 /\ set_head(policy.set) # policy.head
                 /\ d = "block_action_required"
            /\ policy.state = "DEGRADED" => d = "block_action_required"
            /\ Go(r, "decide", "map")
            /\ Put(result, r, NonRun(d))
            /\ UNCHANGED plan
    /\ UNCHANGED <<stores, env, scenario, row, sched, fault, tree_hash, snap,
                   oracle, execution>>

\* The selected source stages the tree and binds its hash; then a scheduler
\* arms itself, or tampers with the tree.
CapturingSource(r) ==
    /\ scenario[r] \notin RecalScenarios
    /\ Go(r, "source", "engine")
    /\ Put(tree_hash, r, TRUE)
    /\ Put(sched, r, CASE scenario[r] \in ArmedScenarios -> "armed"
                       [] scenario[r] = "sha_tamper"     -> "completed"
                       [] OTHER                          -> sched[r])
    /\ UNCHANGED <<stores, env, scenario, row, fault, plan, snap, oracle, record>>

-----------------------------------------------------------------------------
(* The recalibration loop of a rebind scenario, inside the source          *)

\* _run_loop fires: the distinct second set gets its fixtures.
RecalFire(r) ==
    /\ scenario[r] \in RecalScenarios /\ sched[r] = "disarmed"
    /\ Go(r, "source", "recal_demote")
    /\ Put(sched, r, "firing")
    /\ IF TargetSet(r) = "set2" THEN append("set2", "second")
                                ELSE UNCHANGED members
    /\ UNCHANGED <<policy, env, scenario, row, fault, plan, tree_hash, snap,
                   oracle, record>>

RecalTransition(r) ==
    /\ \/ Go(r, "recal_demote", "recal_pending") /\ transition("ADVISORY")
       \/ Go(r, "recal_pending", "recal_calibrate") /\ transition("PENDING")
       \/ Go(r, "recal_calibrate", "recal_pin") /\ transition("CALIBRATING")
    /\ UNCHANGED <<members, env, scenario, row, local, record>>

RecalPin(r) ==
    /\ Go(r, "recal_pin", "recal_ratify")
    /\ fault' = [fault EXCEPT ![r].head_bound = set_head(TargetSet(r))]
    /\ UNCHANGED <<stores, env, scenario, row, sched, plan, tree_hash, snap,
                   oracle, record>>

\* The pass is ratified: the policy is ENABLED on the new binding.
RecalRatify(r) ==
    /\ Go(r, "recal_ratify", "recal_readback")
    /\ <<policy.state, "ENABLED">> \in LegalEdge
    /\ policy' = [state |-> "ENABLED", set |-> TargetSet(r),
                  head |-> fault[r].head_bound, subject |-> RecalImage(r),
                  generation |-> policy.generation + 1]
    /\ UNCHANGED <<members, env, scenario, row, local, record>>

\* _assert_moved of the two schedulers, on the binding read back.
Moved(r, att) ==
    /\ att.set # None
    /\ IF scenario[r] = "authorized_set_moved"
       THEN att.set # Seed.set
       ELSE att.set = Seed.set /\ att.head = Seed.head /\ att.subject # Seed.image

\* Mutant: each source has to capture the tree hash, and this one does not.
RecalReadback_NoCapture(r) ==
    /\ Moved(r, current_attestation_snapshot(policy))
    /\ Go(r, "recal_readback", "engine")
    /\ Put(sched, r, "completed")
    /\ UNCHANGED <<stores, env, scenario, row, fault, plan, tree_hash, snap,
                   oracle, record>>

RecalReadback(r) ==
    /\ Moved(r, current_attestation_snapshot(policy))
    /\ Go(r, "recal_readback", "engine")
    /\ Put(sched, r, "completed")
    /\ Put(tree_hash, r, TRUE)
    /\ UNCHANGED <<stores, env, scenario, row, fault, plan, snap, oracle, record>>

-----------------------------------------------------------------------------
(* The engine, and admission up to its oracle read                         *)

\* Measured on its image, the candidate has a verdict or the run a failure.
Engine(r) ==
    /\ \/ /\ scenario[r] = "sha_tamper"
          /\ Go(r, "engine", "map")
          /\ Put(result, r, Infra("artifact_integrity_mismatch"))
          /\ UNCHANGED quiet
       \/ /\ scenario[r] # "sha_tamper" /\ RunImage(r) # plan[r].subject
          /\ Go(r, "engine", "map")
          /\ Put(result, r, Refusal("subject_drift", NoSub))
          /\ UNCHANGED quiet
       \/ \E verdict \in {"pass", "fail", "error"} :
            /\ scenario[r] # "sha_tamper" /\ RunImage(r) = plan[r].subject
            /\ quiet' = (quiet /\ verdict = "pass")
            /\ Go(r, "engine", "attest")
            /\ Put(result, r, AdmittedRun(verdict))
       \/ /\ quiet' = FALSE
          /\ Go(r, "engine", "map")
          /\ Put(result, r, Infra("sandbox_failure"))
    /\ UNCHANGED <<stores, ops, scenario, row, local, execution>>

AttestationAbsent ==
    Refusal("live_attestation_unavailable", "attestation_absent")

Attest(r) ==
    /\ scenario[r] = "live_attestation_unavailable" => sched[r] # "armed"
    /\ Put(snap, r, current_attestation_snapshot(policy))
    /\ IF policy.state = "ENABLED"
       THEN Go(r, "attest", "oracle") /\ UNCHANGED result
       ELSE Go(r, "attest", "map") /\ Put(result, r, AttestationAbsent)
    /\ UNCHANGED <<stores, env, scenario, row, sched, fault, plan, tree_hash,
                   oracle, execution>>

\* on_attestation: head_pre, the transition, head_post, and the real snapshot,
\* which has to be absent.
AttnFire(r) ==
    /\ scenario[r] = "live_attestation_unavailable" /\ sched[r] = "armed"
    /\ Go(r, "attest", "attn_degrade")
    /\ Put(sched, r, "firing")
    /\ fault' = [fault EXCEPT ![r].policy_head_pre = policy.generation]
    /\ UNCHANGED <<stores, env, scenario, row, plan, tree_hash, snap, oracle,
                   record>>

AttnDegrade(r) ==
    /\ Go(r, "attn_degrade", "attn_post")
    /\ transition("DEGRADED")
    /\ UNCHANGED <<members, env, scenario, row, local, record>>

AttnPost(r) ==
    /\ Go(r, "attn_post", "attn_snapshot")
    /\ policy.generation # fault[r].policy_head_pre
    /\ UNCHANGED <<stores, env, scenario, row, local, record>>

AttnSnapshot(r) ==
    /\ Go(r, "attn_snapshot", "map")
    /\ current_attestation_snapshot(policy) = NoSnap
    /\ Put(sched, r, "completed")
    /\ Put(result, r, AttestationAbsent)
    /\ UNCHANGED <<stores, env, scenario, row, fault, plan, tree_hash, snap,
                   oracle, execution>>

\* The oracle read ends with this head.
OracleReturns(r, head) ==
    Put(oracle, r, [head |-> head, live |-> set_head(plan[r].set),
                    policy |-> [set |-> current_attestation_snapshot(policy).set,
                                head |-> current_attestation_snapshot(policy).head,
                                subject |-> current_attestation_snapshot(policy).subject]])

OracleRead(r) ==
    /\ scenario[r] \in AtOracle => sched[r] # "armed"
    /\ Go(r, "oracle", "checks")
    /\ OracleReturns(r, set_head(plan[r].set))
    /\ UNCHANGED <<stores, env, scenario, row, sched, fault, plan, tree_hash,
                   snap, record>>

\* The scheduler's exception is what the store itself would raise.
OracleFire(r) ==
    /\ scenario[r] = "oracle_unavailable" /\ sched[r] = "armed"
    /\ Go(r, "oracle", "map")
    /\ Put(sched, r, "completed")
    /\ Put(result, r, Refusal("oracle_unavailable", "store_unreachable"))
    /\ UNCHANGED <<stores, env, scenario, row, fault, plan, tree_hash, snap,
                   oracle, execution>>

-----------------------------------------------------------------------------
(* on_set_head of the two schedulers that change the stores in the read    *)

StaleFire(r) ==
    /\ scenario[r] = "set_head_stale" /\ sched[r] = "armed"
    /\ Go(r, "oracle", "stale_add")
    /\ Put(sched, r, "firing")
    /\ fault' = [fault EXCEPT ![r].head_bound = set_head(plan[r].set)]
    /\ UNCHANGED <<stores, env, scenario, row, plan, tree_hash, snap, oracle,
                   record>>

StaleAdd(r) ==
    /\ Go(r, "stale_add", "stale_moved")
    /\ append(plan[r].set, r)
    /\ UNCHANGED <<policy, env, scenario, row, local, record>>

\* Mutant: the read returns the head from before the addition.
StaleMoved_ReturnsBound(r) ==
    /\ Go(r, "stale_moved", "checks")
    /\ set_head(plan[r].set) # fault[r].head_bound
    /\ Put(sched, r, "completed")
    /\ OracleReturns(r, fault[r].head_bound)
    /\ UNCHANGED <<stores, env, scenario, row, fault, plan, tree_hash, snap,
                   record>>

StaleMoved(r) ==
    /\ Go(r, "stale_moved", "checks")
    /\ set_head(plan[r].set) # fault[r].head_bound
    /\ Put(sched, r, "completed")
    /\ OracleReturns(r, set_head(plan[r].set))
    /\ UNCHANGED <<stores, env, scenario, row, fault, plan, tree_hash, snap,
                   record>>

AbaFire(r) ==
    /\ scenario[r] = AbaScenario /\ sched[r] = "armed"
    /\ Go(r, "oracle", "aba_add")
    /\ Put(sched, r, "firing")
    /\ fault' = [fault EXCEPT ![r].head_bound = set_head(plan[r].set)]
    /\ UNCHANGED <<stores, env, scenario, row, plan, tree_hash, snap, oracle,
                   record>>

AbaChange(r) ==
    /\ \/ Go(r, "aba_add", "aba_moved")
          /\ append(plan[r].set, r) /\ UNCHANGED policy
       \/ Go(r, "aba_degrade", "aba_post")
          /\ transition("DEGRADED") /\ UNCHANGED members
       \/ Go(r, "aba_deprecate", "aba_returned")
          /\ deprecate(plan[r].set, r) /\ UNCHANGED policy
    /\ UNCHANGED <<env, scenario, row, local, record>>

AbaRead(r) ==
    /\ \/ /\ Go(r, "aba_moved", "aba_pre")
          /\ fault' = [fault EXCEPT ![r].head_moved = set_head(plan[r].set)]
       \/ /\ Go(r, "aba_pre", "aba_degrade")
          /\ fault' = [fault EXCEPT ![r].policy_head_pre = policy.generation]
       \/ /\ Go(r, "aba_post", "aba_deprecate")
          /\ fault' = [fault EXCEPT ![r].policy_head_post = policy.generation]
    /\ UNCHANGED <<stores, env, scenario, row, sched, plan, tree_hash, snap,
                   oracle, record>>

\* Mutant: that the head came back is assumed, not read.
AbaReturned_Assumed(r) ==
    LET f == [fault[r] EXCEPT !.head_returned = fault[r].head_bound]
    IN  /\ Go(r, "aba_returned", "checks")
        /\ ValidAbaInjection(f)
        /\ Put(fault, r, f)
        /\ Put(sched, r, "completed")
        /\ OracleReturns(r, f.head_returned)
        /\ UNCHANGED <<stores, env, scenario, row, plan, tree_hash, snap, record>>

\* The three assertions on what was read are those of the schema.
AbaReturned(r) ==
    LET f == [fault[r] EXCEPT !.head_returned = set_head(plan[r].set)]
    IN  /\ Go(r, "aba_returned", "checks")
        /\ ValidAbaInjection(f)
        /\ Put(fault, r, f)
        /\ Put(sched, r, "completed")
        /\ OracleReturns(r, f.head_returned)
        /\ UNCHANGED <<stores, env, scenario, row, plan, tree_hash, snap, record>>

-----------------------------------------------------------------------------
(* Admission after its oracle read                                         *)

\* The binding's checks, in the gate's order; the set may also be compared
\* before the oracle is read.
Refusals(r) ==
    IF snap[r].set # plan[r].set THEN {"authorized_set_moved"}
    ELSE IF oracle[r].head # plan[r].head THEN {"set_head_stale"}
    ELSE IF snap[r].subject # plan[r].subject THEN {"authorized_subject_moved"}
    ELSE {}

Check(r) ==
    /\ \/ \E reason \in Refusals(r) :
            /\ Go(r, "checks", "map")
            /\ Put(result, r, Refusal(reason, NoSub))
       \/ /\ Refusals(r) = {}
          /\ Go(r, "checks", "bracket") /\ UNCHANGED result
       \/ /\ snap[r].set # plan[r].set
          /\ Go(r, "oracle", "map")
          /\ Put(result, r, Refusal("authorized_set_moved", NoSub))
    /\ UNCHANGED <<stores, env, scenario, row, local, execution>>

\* Mutant: the generation is not read again.
Bracket_NotReread(r) ==
    /\ Go(r, "bracket", "map")
    /\ UNCHANGED <<stores, env, scenario, row, local, record>>

\* The generation is read again: the binding that was checked is admitted
\* only if the policy has not moved since it was read.
Bracket(r) ==
    /\ Go(r, "bracket", "map")
    /\ IF policy.generation = snap[r].generation THEN UNCHANGED result
       ELSE Put(result, r, Refusal("policy_generation_moved", NoSub))
    /\ UNCHANGED <<stores, env, scenario, row, local, execution>>

-----------------------------------------------------------------------------
(* enforce(): from the result to the verified chain                        *)

\* Mutant: a scheduler discloses from whatever state it is in.
RequireDisclosure_AnyState(r) ==
    /\ Go(r, "map", "assemble")
    /\ UNCHANGED <<stores, env, scenario, row, local, record>>

\* require_completed_disclosure() of a scenario that has a scheduler.
RequireDisclosure(r) ==
    /\ IF scenario[r] \in FaultScenarios => sched[r] = "completed"
       THEN Go(r, "map", "assemble") ELSE Go(r, "map", "failing")
    /\ UNCHANGED <<stores, env, scenario, row, local, record>>

\* What the driver signs of r's result.
Execution(r) ==
    [kind |-> "execution", run |-> r, key |-> "key", version |-> 3,
     profile |-> "p1", gated_commit |-> "commit", prereg_digest |-> Prereg(r),
     outcome |-> result[r].outcome, scenario |-> scenario[r],
     policy |-> Seed.policy, event |-> "event",
     plan_policy |-> IF result[r].kind = "non_run" THEN None ELSE Seed.policy,
     seed |-> Seed,
     result_kind |-> result[r].kind, result_reason |-> result[r].reason,
     result_sub_reason |-> result[r].sub,
     gate_outcome |-> GateOutcome(result[r].kind, result[r].reason),
     disclosed |-> scenario[r] \in FaultScenarios, fault |-> fault[r],
     image |-> IF result[r].kind = "admitted_run" THEN RunImage(r) ELSE None,
     drift_image |-> IF scenario[r] = "subject_drift_second_image"
                     THEN RunImage(r) ELSE None]

Teardown(r) ==
    [kind |-> "teardown", run |-> r, key |-> "key", version |-> 3,
     profile |-> "p1", execution_digest |-> Execution(r), failure |-> FALSE]

Index(r) ==
    [kind |-> "index", run |-> r, key |-> "key", version |-> 3,
     prereg |-> Prereg(r), execution |-> Execution(r), teardown |-> Teardown(r),
     verify_key |-> "key"]

\* No step of the assembly raises: the coordinates of an admitted run were
\* captured, and what is signed verifies.
CanAssemble(r) ==
    /\ result[r].kind = "admitted_run" => tree_hash[r]
    /\ verify_integrity(Prereg(r), Execution(r), Teardown(r), Index(r), "key")

Assemble(r) ==
    /\ IF CanAssemble(r)
       THEN Go(r, "assemble", "release") /\ Put(execution, r, Execution(r))
       ELSE Go(r, "assemble", "failing") /\ UNCHANGED execution
    /\ UNCHANGED <<stores, env, scenario, row, local, result>>

\* Mutant: the row gets the name of the state, not its value.
Release_Name(r) ==
    /\ Go(r, "release", "return") /\ Registry!Release(r, "COMPLETED")
    /\ UNCHANGED <<stores, env, scenario, local, record>>

\* The registry's COMMIT; the chain is still the driver's alone.
Release(r) ==
    /\ Go(r, "release", "return") /\ Registry!Release(r, "completed")
    /\ UNCHANGED <<stores, env, scenario, local, record>>

\* Mutant: the exception leaves enforce() and the row alone.
Fail_NotReleased(r) ==
    /\ Go(r, "failing", "raised")
    /\ UNCHANGED <<stores, env, scenario, row, local, record>>

\* Mutant: the except clause leaves the state to release()'s default, COMPLETED.
Fail_DefaultState(r) ==
    /\ \/ Go(r, "failing", "raised") /\ Registry!Release(r, "completed")
          /\ UNCHANGED quiet
       \/ Go(r, "failing", "stranded") /\ quiet' = FALSE /\ UNCHANGED row
    /\ UNCHANGED <<stores, ops, scenario, local, record>>

\* The except clause releases the row as FAILED; a registry that refuses (it
\* must, a row that is COMPLETED already) leaves it as it is and its own
\* exception leaves enforce().  A process that dies between the COMMIT and the
\* raise differs in nothing that is looked at later.
Fail(r) ==
    /\ \/ Go(r, "failing", "raised") /\ Registry!Release(r, "failed")
          /\ UNCHANGED quiet
       \/ Go(r, "failing", "stranded") /\ quiet' = FALSE /\ UNCHANGED row
    /\ UNCHANGED <<stores, ops, scenario, local, record>>

\* After the COMMIT enforce() returns the chain.
Return(r) ==
    /\ Go(r, "return", "returned")
    /\ UNCHANGED <<stores, env, scenario, row, local, record>>

-----------------------------------------------------------------------------
(* What may befall a run                                                   *)

\* A call raises in the driver, or the gate lets an exception through; release()
\* may raise after its COMMIT, as it closes the connection.
Raise(r) ==
    /\ quiet' = FALSE
    /\ pc[r] \in Step \ {"entry", "failing"}
    /\ pc' = [pc EXCEPT ![r] = "failing"]
    /\ IF pc[r] \in RecalSteps \cup AbaSteps \cup AttnSteps
                    \cup {"stale_add", "stale_moved"}
       THEN Put(sched, r, "failed") ELSE UNCHANGED sched
    /\ UNCHANGED <<stores, ops, scenario, row, fault, plan, tree_hash, snap,
                   oracle, record>>

\* A store call or an assertion of a scheduler raises, and the gate makes a
\* result of it; in the oracle read that is a documented refusal.
SchedulerRaise(r) ==
    /\ quiet' = FALSE
    /\ pc[r] \in RecalSteps \cup AbaSteps \cup AttnSteps
                   \cup {"stale_add", "stale_moved"}
    /\ pc' = [pc EXCEPT ![r] = "map"]
    /\ Put(sched, r, "failed")
    /\ Put(result, r,
           IF pc[r] \in AbaSteps \cup {"stale_add", "stale_moved"}
           THEN Refusal("oracle_unavailable", "store_unreachable")
           ELSE Infra("job_failure"))
    /\ UNCHANGED <<stores, ops, scenario, row, fault, plan, tree_hash, snap,
                   oracle, execution>>

\* The process dies, or is interrupted by what is not an Exception.
Kill(r) ==
    /\ quiet' = FALSE
    /\ pc[r] \in Step \ {"entry"}
    /\ pc' = [pc EXCEPT ![r] = "killed"]
    /\ UNCHANGED <<stores, ops, scenario, row, local, record>>

-----------------------------------------------------------------------------
RecalStep(r) ==
    RecalFire(r) \/ RecalTransition(r) \/ RecalPin(r) \/ RecalRatify(r)
    \/ RecalReadback(r)

AttestStep(r) ==
    Attest(r) \/ AttnFire(r) \/ AttnDegrade(r) \/ AttnPost(r) \/ AttnSnapshot(r)

OracleStep(r) ==
    OracleRead(r) \/ OracleFire(r) \/ StaleFire(r) \/ StaleAdd(r)
    \/ StaleMoved(r) \/ AbaFire(r) \/ AbaChange(r) \/ AbaRead(r) \/ AbaReturned(r)

\* The program text of a run, up to the end of enforce().
Proceed(r) ==
    \/ Enter(r) \/ PersistPrereg(r) \/ ResolveDecision(r) \/ CapturingSource(r)
    \/ RecalStep(r) \/ Engine(r) \/ AttestStep(r) \/ OracleStep(r)
    \/ Check(r) \/ Bracket(r)
    \/ RequireDisclosure(r) \/ Assemble(r) \/ Release(r) \/ Fail(r)
    \/ Return(r)

Next ==
    \/ Operate
    \/ \E r \in Run : Proceed(r) \/ SchedulerRaise(r) \/ Raise(r) \/ Kill(r)

Spec == Init /\ [][Next]_vars

\* A run that is not killed goes on, and a guard of a scheduler that does not
\* hold raises: as long as some run can step, one does.  Operators and failures
\* owe nothing.
FairSpec ==
    Spec /\ WF_vars(\E r \in Run : Proceed(r) \/ SchedulerRaise(r))

-----------------------------------------------------------------------------
(* Properties                                                              *)

TypeOK ==
    /\ policy.state \in {"ENABLED", "DEGRADED", "ADVISORY", "PENDING",
                         "CALIBRATING"}
    /\ policy.set \in SetId /\ policy.subject \in Image
    /\ policy.generation \in Nat
    /\ members \in [SetId -> SUBSET ({"base", "extra", "second"} \cup Run)]
    /\ ops \in Nat /\ quiet \in BOOLEAN
    /\ scenario \in [Run -> ScenarioId \cup {None}]
    /\ pc \in [Run -> Step \cup Ended]
    /\ row \in [Run -> {"absent"} \cup Registry!RunState]
    /\ sched \in [Run -> {"disarmed", "armed", "firing", "completed", "failed"}]
    /\ tree_hash \in [Run -> BOOLEAN]

\* The job runner has returned its result to the driver.
Judged(r) == pc[r] \in {"map", "assemble", "release", "return", "returned"}

Signed(r) == execution[r] # NoReceipt

\* An admitted run was authorized when its oracle was read: the policy was
\* ENABLED on the plan's set and subject and the set had the plan's head, all
\* at one instant, although each was read at another.
AdmittedWasCurrent ==
    \A r \in Run :
        Judged(r) /\ result[r].kind = "admitted_run" =>
            /\ oracle[r].policy.set = plan[r].set
            /\ oracle[r].policy.subject = plan[r].subject
            /\ oracle[r].live = plan[r].head

\* A fault that was injected at an admission read is never admitted, whatever
\* the operators do around it.
FaultNeverAdmitted ==
    \A r \in Run :
        /\ Judged(r) /\ sched[r] = "completed"
        /\ scenario[r] \in ArmedScenarios \cup {"sha_tamper"}
        => result[r].kind # "admitted_run"

\* What the heads of a signed ABA say happened, did: an admissible one was in
\* the blind spot of the head comparison, where only the generation tells.
AbaIsGenuine ==
    \A r \in Run :
        /\ Signed(r) /\ scenario[r] = AbaScenario
        /\ evaluate_admission(Prereg(r), Execution(r), Teardown(r))
        => /\ execution[r].fault.head_bound = plan[r].head
           /\ oracle[r].live = plan[r].head
           /\ execution[r].fault.policy_head_post > snap[r].generation

\* Once the injection is disclosed every result of the gate can be signed and
\* verifies, also one that refutes the prediction ("a refutation always
\* serialises", enforcement_driver.py:523).
RefutationSerialises ==
    \A r \in Run : pc[r] = "assemble" => CanAssemble(r)

\* A signed fault took place in the stores to its last step: an excursion is
\* undone, a revocation is in the chain, no injection stopped half way.
SignedFaultTookPlace ==
    \A r \in Run :
        Signed(r) =>
            /\ scenario[r] = AbaScenario => \A s \in SetId : r \notin members[s]
            /\ scenario[r] = "set_head_stale" => \E s \in SetId : r \in members[s]
            /\ scenario[r] = "live_attestation_unavailable" =>
                 policy.generation > fault[r].policy_head_pre
            /\ scenario[r] \in RecalScenarios => policy.generation >= 4

\* The registry tells the truth of the evidence: a COMPLETED row is that of a
\* run whose signed chain verifies, also when its process died, or its release()
\* raised, after the COMMIT; and who got a chain from enforce() finds its row
\* COMPLETED.
CompletedMeansVerified ==
    \A r \in Run :
        /\ row[r] = "completed" =>
             /\ Signed(r)
             /\ verify_integrity(Prereg(r), execution[r], Teardown(r), Index(r), "key")
        /\ pc[r] = "returned" => row[r] = "completed"

\* When no operator was at the stores and nothing failed the gate does to every
\* scenario what its author predicted, and every chain is admitted but that of
\* the tamper, whose infrastructure failure judges nothing.
QuietPrediction ==
    \A r \in Run :
        /\ quiet /\ pc[r] \in Ended /\ \A q \in Run \ {r} : scenario[q] = None
        /\ scenario[r] = "non_enabled_degraded" => policy.state = "DEGRADED"
        => /\ Signed(r)
           /\ enforcement_observed_triple(execution[r]) = expected_for(scenario[r])
           /\ evaluate_admission(Prereg(r), execution[r], Teardown(r))
                <=> scenario[r] # "sha_tamper"

Unsettled(r) == row[r] = "active" /\ pc[r] \notin {"killed", "stranded"}

\* Every row that is allocated gets its verdict, unless its process dies or
\* the registry refuses the release.
RowSettles ==
    (\E r \in Run : Unsettled(r)) ~> \A r \in Run : ~Unsettled(r)
=============================================================================
