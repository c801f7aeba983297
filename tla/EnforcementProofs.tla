------------------------- MODULE EnforcementProofs -------------------------
(***************************************************************************)
(* What enforce() and the gate guarantee for any number of runs, in any    *)
(* scenarios, over one policy, and any number of operator changes, of      *)
(* failures and of kills.  The invariant has a part for the stores and one *)
(* for each run: what the run has read of the stores and how that relates  *)
(* to what the stores are now.  A run's steps leave the others' state      *)
(* alone and change the stores only in ways that those parts survive.      *)
(* QuietInv follows a run that nobody disturbs from entry to verdict.      *)
(***************************************************************************)
EXTENDS Enforcement, TLAPS

StaleSteps == {"stale_add", "stale_moved"}
InOracle == {"oracle"} \cup StaleSteps \cup AbaSteps
Compared == {"checks", "bracket"}
Snapped == InOracle \cup Compared

\* The policy is a row; every variable of the runs has a value for each.
Rows ==
    /\ policy = [state |-> policy.state, set |-> policy.set, head |-> policy.head,
                 subject |-> policy.subject, generation |-> policy.generation]
    /\ fault = [r \in Run |-> fault[r]]
    /\ \A r \in Run :
         fault[r] = [head_bound |-> fault[r].head_bound,
                     head_moved |-> fault[r].head_moved,
                     head_returned |-> fault[r].head_returned,
                     policy_head_pre |-> fault[r].policy_head_pre,
                     policy_head_post |-> fault[r].policy_head_post]
    /\ plan = [r \in Run |-> plan[r]]
    /\ snap = [r \in Run |-> snap[r]]
    /\ oracle = [r \in Run |-> oracle[r]]
    /\ result = [r \in Run |-> result[r]]
    /\ execution = [r \in Run |-> execution[r]]

Shape == TypeOK /\ Rows

\* The row of a call follows the call, and COMPLETED its verified chain.
RowInv(r) ==
    /\ pc[r] = "entry" => row[r] = "absent"
    /\ pc[r] \in Step \ {"entry", "return", "failing"} => row[r] = "active"
    /\ pc[r] \in {"failing", "stranded", "killed"} => row[r] # "absent"
    /\ pc[r] = "raised" => row[r] \in {"absent", "failed"}
    /\ pc[r] \in {"return", "returned"} => row[r] = "completed"
    /\ pc[r] = "release" \/ row[r] = "completed" =>
         execution[r] = Execution(r) /\ CanAssemble(r)

\* The binding that a run took is the policy's as long as its generation is.
SnapInv(r) ==
    pc[r] \in Snapped =>
        /\ snap[r].generation \in Nat /\ snap[r].generation <= policy.generation
        /\ policy.generation = snap[r].generation =>
             /\ policy.state = "ENABLED"
             /\ policy.set = snap[r].set /\ policy.subject = snap[r].subject

\* So was it at the oracle read, whose head is that of the set; what passed the
\* comparison is the plan's.
OracleInv(r) ==
    /\ pc[r] \in Compared =>
         /\ oracle[r].head = oracle[r].live
         /\ policy.generation = snap[r].generation =>
              /\ oracle[r].policy.set = snap[r].set
              /\ oracle[r].policy.subject = snap[r].subject
    /\ pc[r] = "bracket" =>
         /\ snap[r].set = plan[r].set /\ snap[r].subject = plan[r].subject
         /\ oracle[r].head = plan[r].head

\* Only a run whose plan was current keeps a verdict.
CurrentInv(r) ==
    Judged(r) /\ result[r].kind = "admitted_run" =>
        /\ oracle[r].policy.set = plan[r].set
        /\ oracle[r].policy.subject = plan[r].subject
        /\ oracle[r].live = plan[r].head

\* Where an armed fault may still be, and where it has been.
FaultInv(r) ==
    /\ scenario[r] \in ArmedScenarios /\ pc[r] \in {"engine", "attest", "oracle"}
         => sched[r] = "armed"
    /\ pc[r] \in {"attest"} \cup AttnSteps \cup Snapped => scenario[r] # "sha_tamper"
    /\ pc[r] \in Snapped => scenario[r] # "live_attestation_unavailable"
    /\ pc[r] \in Compared => scenario[r] # "oracle_unavailable"
    /\ pc[r] \in StaleSteps => scenario[r] = "set_head_stale"
    /\ pc[r] \in AbaSteps => scenario[r] = AbaScenario
    /\ pc[r] \in RecalSteps => scenario[r] \in RecalScenarios

\* An excursion moved the policy past the snapshot; a stale head shows.
InjectedInv(r) ==
    /\ pc[r] \in {"aba_post", "aba_deprecate", "aba_returned"} =>
         policy.generation > snap[r].generation
    /\ scenario[r] = AbaScenario /\ pc[r] \in Compared =>
         policy.generation > snap[r].generation
    /\ pc[r] = "stale_moved" => r \in set_head(plan[r].set)
    /\ scenario[r] = "set_head_stale" /\ pc[r] \in Compared => r \in oracle[r].head

Fresh(r) ==
    /\ r \notin policy.head
    /\ \A s \in SetId : r \notin members[s]
    /\ \A q \in Run : r \notin fault[q].head_bound

\* A run's own fixture is nowhere before its plan, and never in its plan.
FreshInv(r) ==
    /\ pc[r] \in {"entry", "prereg", "decide"} => Fresh(r)
    /\ r \notin plan[r].head
    /\ pc[r] \in {"source", "engine", "attest"} \cup RecalSteps \cup AttnSteps
        \cup Snapped
         => plan[r].set \in SetId

RefusedInv(r) ==
    /\ Judged(r) /\ sched[r] = "completed"
    /\ scenario[r] \in ArmedScenarios \cup {"sha_tamper"}
    => result[r].kind # "admitted_run"

\* The gate's results, as the schema of an execution knows them.
ValidResult(res) ==
    \/ res.kind = "admitted_run" /\ res.outcome \in {"pass", "fail", "error"}
    \/ /\ res.kind \in {"blocking_refusal", "infrastructure_failure"}
       /\ res.outcome = "error"
    \/ /\ res.kind = "non_run" /\ res.outcome = "error"
       /\ res.reason \in {"block_action_required", "skip_neutral"}

\* A run's result is one of them, and what an admitted run signs was captured.
ResultInv(r) ==
    /\ pc[r] \notin {"entry", "raised"} => scenario[r] # None
    /\ pc[r] \in {"engine", "attest"} \cup AttnSteps \cup Snapped => tree_hash[r]
    /\ pc[r] \in {"attest", "map", "assemble"} \cup AttnSteps \cup Snapped =>
         ValidResult(result[r])
    /\ pc[r] \in {"map", "assemble"} /\ result[r].kind = "admitted_run" => tree_hash[r]

\* What a completed fault has done to the stores, for good.
TookPlace(r) ==
    /\ scenario[r] = AbaScenario =>
         ValidAbaInjection(fault[r]) /\ \A s \in SetId : r \notin members[s]
    /\ scenario[r] = "set_head_stale" => \E s \in SetId : r \in members[s]
    /\ scenario[r] = "live_attestation_unavailable" =>
         /\ fault[r].policy_head_pre \in Nat
         /\ policy.generation > fault[r].policy_head_pre
    /\ scenario[r] \in RecalScenarios => policy.generation >= 4

\* A fault that is being injected has come as far as its run has.
DoneInv(r) ==
    /\ pc[r] \in RecalSteps \cup AbaSteps \cup AttnSteps \cup StaleSteps =>
         sched[r] = "firing"
    /\ pc[r] \in AttnSteps =>
         /\ scenario[r] = "live_attestation_unavailable"
         /\ fault[r].policy_head_pre \in Nat
         /\ fault[r].policy_head_pre <= policy.generation
    /\ pc[r] \in {"attn_post", "attn_snapshot"} =>
         policy.generation > fault[r].policy_head_pre
    /\ pc[r] = "recal_pending" => policy.generation >= 1
    /\ pc[r] = "recal_calibrate" => policy.generation >= 2
    /\ pc[r] \in {"recal_pin", "recal_ratify"} => policy.generation >= 3
    /\ pc[r] = "recal_readback" => policy.generation >= 4
    /\ pc[r] \in {"source", "engine", "attest"} \cup RecalSteps \cup AttnSteps
        \cup Snapped
         => \A s \in SetId \ {plan[r].set} : r \notin members[s]
    /\ pc[r] = "aba_returned" => \A s \in SetId : r \notin members[s]
    /\ sched[r] = "completed" => TookPlace(r)

\* What is signed is of the run as it is, its fault completed.
SignedInv(r) ==
    /\ pc[r] = "assemble" /\ scenario[r] \in FaultScenarios => sched[r] = "completed"
    /\ Signed(r) =>
         /\ pc[r] \in {"release", "return", "failing"} \cup Ended
         /\ execution[r] = Execution(r)
         /\ scenario[r] \in FaultScenarios => sched[r] = "completed"

\* The policy moved after the run's snapshot of it.
Genuine(r) == fault[r].policy_head_post > snap[r].generation

\* An ABA that the bracket refused had passed the head comparison.
GenuineInv(r) ==
    /\ pc[r] \in {"aba_deprecate", "aba_returned"} => Genuine(r)
    /\ scenario[r] = AbaScenario /\ pc[r] \in Compared =>
         Genuine(r) /\ fault[r].head_bound = oracle[r].head
    /\ result[r].reason = "policy_generation_moved" =>
         /\ pc[r] \in {"map", "assemble", "release", "return", "failing"} \cup Ended
         /\ scenario[r] = AbaScenario =>
              /\ Genuine(r)
              /\ fault[r].head_bound = plan[r].head /\ oracle[r].live = plan[r].head

RunInv(r) ==
    /\ RowInv(r) /\ SnapInv(r) /\ OracleInv(r) /\ CurrentInv(r)
    /\ FaultInv(r) /\ InjectedInv(r) /\ FreshInv(r) /\ RefusedInv(r)
    /\ ResultInv(r) /\ DoneInv(r) /\ SignedInv(r) /\ GenuineInv(r)

IInv == Shape /\ \A r \in Run : RunInv(r)

\* Program counters are compared everywhere.
USE DEF Step, RecalSteps, AbaSteps, AttnSteps, Ended, StaleSteps, InOracle, Compared,
        Snapped

-----------------------------------------------------------------------------
(* What a step leaves alone                                                *)

RunStep(q) == Proceed(q) \/ SchedulerRaise(q) \/ Raise(q) \/ Kill(q)

SameRun(r) ==
    /\ pc'[r] = pc[r] /\ row'[r] = row[r] /\ sched'[r] = sched[r]
    /\ fault'[r] = fault[r] /\ plan'[r] = plan[r] /\ tree_hash'[r] = tree_hash[r]
    /\ snap'[r] = snap[r] /\ oracle'[r] = oracle[r] /\ result'[r] = result[r]
    /\ execution'[r] = execution[r] /\ scenario'[r] = scenario[r]

\* A run's step leaves the other runs' state alone.
LEMMA OthersSame ==
    ASSUME Shape, NEW q \in Run, RunStep(q), NEW r \in Run \ {q}
    PROVE  SameRun(r)
  <1> USE DEF Shape, Rows, SameRun, TypeOK, Go, Put, stores, local, record, env
  <1> USE DEF Registry!Allocate, Registry!Release, OracleReturns
  <1>1. CASE Enter(q)
    BY <1>1 DEF Enter
  <1>2. CASE PersistPrereg(q)
    BY <1>2 DEF PersistPrereg
  <1>3. CASE ResolveDecision(q)
    BY <1>3 DEF ResolveDecision
  <1>4. CASE CapturingSource(q)
    BY <1>4 DEF CapturingSource
  <1>5. CASE RecalFire(q)
    BY <1>5 DEF RecalFire
  <1>6. CASE RecalTransition(q)
    BY <1>6 DEF RecalTransition
  <1>7. CASE RecalPin(q)
    BY <1>7 DEF RecalPin
  <1>8. CASE RecalRatify(q)
    BY <1>8 DEF RecalRatify
  <1>9. CASE RecalReadback(q)
    BY <1>9 DEF RecalReadback
  <1>10. CASE Engine(q)
    BY <1>10 DEF Engine
  <1>11. CASE Attest(q)
    BY <1>11 DEF Attest
  <1>12. CASE AttnFire(q)
    BY <1>12 DEF AttnFire
  <1>13. CASE AttnDegrade(q)
    BY <1>13 DEF AttnDegrade
  <1>14. CASE AttnPost(q)
    BY <1>14 DEF AttnPost
  <1>15. CASE AttnSnapshot(q)
    BY <1>15 DEF AttnSnapshot
  <1>16. CASE OracleRead(q)
    BY <1>16 DEF OracleRead
  <1>17. CASE OracleFire(q)
    BY <1>17 DEF OracleFire
  <1>18. CASE StaleFire(q)
    BY <1>18 DEF StaleFire
  <1>19. CASE StaleAdd(q)
    BY <1>19 DEF StaleAdd
  <1>20. CASE StaleMoved(q)
    BY <1>20 DEF StaleMoved
  <1>21. CASE AbaFire(q)
    BY <1>21 DEF AbaFire
  <1>22. CASE AbaChange(q)
    BY <1>22 DEF AbaChange
  <1>23. CASE AbaRead(q)
    BY <1>23 DEF AbaRead
  <1>24. CASE AbaReturned(q)
    BY <1>24 DEF AbaReturned
  <1>25. CASE Check(q)
    BY <1>25 DEF Check
  <1>26. CASE Bracket(q)
    BY <1>26 DEF Bracket
  <1>27. CASE RequireDisclosure(q)
    BY <1>27 DEF RequireDisclosure
  <1>28. CASE Assemble(q)
    BY <1>28 DEF Assemble
  <1>29. CASE Release(q)
    BY <1>29 DEF Release
  <1>30. CASE Fail(q)
    BY <1>30 DEF Fail
  <1>31. CASE SchedulerRaise(q)
    BY <1>31 DEF SchedulerRaise
  <1>32. CASE Raise(q)
    BY <1>32 DEF Raise
  <1>33. CASE Kill(q)
    BY <1>33 DEF Kill
  <1>34. CASE Return(q)
    BY <1>34 DEF Return
  <1> QED
    BY <1>1, <1>2, <1>3, <1>4, <1>5, <1>6, <1>7, <1>8, <1>9, <1>10, <1>11, <1>12,
       <1>13, <1>14, <1>15, <1>16, <1>17, <1>18, <1>19, <1>20, <1>21, <1>22, <1>23,
       <1>24, <1>25, <1>26, <1>27, <1>28, <1>29, <1>30, <1>31, <1>32, <1>33,
       <1>34 DEF RunStep, Proceed, RecalStep, AttestStep, OracleStep

\* What is signed of a run is the run's own.
LEMMA OwnReceipts ==
    ASSUME NEW r \in Run, scenario'[r] = scenario[r], result'[r] = result[r],
           fault'[r] = fault[r], tree_hash'[r] = tree_hash[r]
    PROVE  Execution(r)' = Execution(r) /\ (CanAssemble(r)' <=> CanAssemble(r))
  <1>1. Prereg(r)' = Prereg(r)
    BY DEF Prereg, RunImage
  <1>2. Execution(r)' = Execution(r)
    BY <1>1 DEF Execution, RunImage
  <1>3. Teardown(r)' = Teardown(r)
    BY <1>2 DEF Teardown
  <1>4. Index(r)' = Index(r)
    BY <1>1, <1>2, <1>3 DEF Index
  <1> HIDE DEF Step, RecalSteps, AbaSteps, AttnSteps, Ended, StaleSteps, InOracle,
               Compared, Snapped
  <1>6. verify_integrity(Prereg(r), Execution(r), Teardown(r), Index(r), "key")'
        <=> verify_integrity(Prereg(r), Execution(r), Teardown(r), Index(r), "key")
    BY <1>1, <1>2, <1>3, <1>4
  <1> QED
    BY <1>2, <1>6 DEF CanAssemble

\* The policy's generation tells whether the policy was touched.
PolicyMoves ==
    \/ policy' = policy
    \/ policy'.generation \in Nat /\ policy'.generation > policy.generation

\* A run's fixtures are its own, and spread only from where they are.
FixturesStay(r) ==
    /\ \A s \in SetId : r \in members'[s] <=> r \in members[s]
    /\ Fresh(r) => Fresh(r)'

\* A transition is a new generation of the same binding.
LEMMA TransitionMoves ==
    ASSUME Shape, NEW st, transition(st)
    PROVE  /\ policy'.generation \in Nat /\ policy'.generation = policy.generation + 1
           /\ policy'.state = st /\ policy'.set = policy.set
           /\ policy'.head = policy.head /\ policy'.subject = policy.subject
           /\ st \in {"ENABLED", "DEGRADED", "ADVISORY", "PENDING", "CALIBRATING"}
           /\ policy' = [state |-> policy'.state, set |-> policy'.set,
                         head |-> policy'.head, subject |-> policy'.subject,
                         generation |-> policy'.generation]
  <1>1. policy = [state |-> policy.state, set |-> policy.set, head |-> policy.head,
                  subject |-> policy.subject, generation |-> policy.generation]
        /\ policy.generation \in Nat
    BY DEF Shape, Rows, TypeOK
  <1>2. policy' = [state |-> st, set |-> policy.set, head |-> policy.head,
                   subject |-> policy.subject, generation |-> policy.generation + 1]
    BY <1>1 DEF transition
  <1>3. st \in {"ENABLED", "DEGRADED", "ADVISORY", "PENDING", "CALIBRATING"}
    BY DEF transition, LegalEdge
  <1> QED
    BY <1>1, <1>2, <1>3

\* A run's step moves the policy, if at all, to a new generation.
LEMMA RunMovesPolicy ==
    ASSUME Shape, NEW q \in Run, RunStep(q)
    PROVE  PolicyMoves
  <1> USE DEF Shape, Rows, PolicyMoves, TypeOK, stores
  <1>1. CASE Enter(q)
    BY <1>1 DEF Enter
  <1>2. CASE PersistPrereg(q)
    BY <1>2 DEF PersistPrereg
  <1>3. CASE ResolveDecision(q)
    BY <1>3 DEF ResolveDecision
  <1>4. CASE CapturingSource(q)
    BY <1>4 DEF CapturingSource
  <1>5. CASE RecalFire(q)
    BY <1>5 DEF RecalFire
  <1>6. CASE RecalTransition(q)
    BY <1>6, TransitionMoves DEF RecalTransition
  <1>7. CASE RecalPin(q)
    BY <1>7 DEF RecalPin
  <1>8. CASE RecalRatify(q)
    BY <1>8 DEF RecalRatify
  <1>9. CASE RecalReadback(q)
    BY <1>9 DEF RecalReadback
  <1>10. CASE Engine(q)
    BY <1>10 DEF Engine
  <1>11. CASE Attest(q)
    BY <1>11 DEF Attest
  <1>12. CASE AttnFire(q)
    BY <1>12 DEF AttnFire
  <1>13. CASE AttnDegrade(q)
    BY <1>13, TransitionMoves DEF AttnDegrade
  <1>14. CASE AttnPost(q)
    BY <1>14 DEF AttnPost
  <1>15. CASE AttnSnapshot(q)
    BY <1>15 DEF AttnSnapshot
  <1>16. CASE OracleRead(q)
    BY <1>16 DEF OracleRead
  <1>17. CASE OracleFire(q)
    BY <1>17 DEF OracleFire
  <1>18. CASE StaleFire(q)
    BY <1>18 DEF StaleFire
  <1>19. CASE StaleAdd(q)
    BY <1>19 DEF StaleAdd
  <1>20. CASE StaleMoved(q)
    BY <1>20 DEF StaleMoved
  <1>21. CASE AbaFire(q)
    BY <1>21 DEF AbaFire
  <1>22. CASE AbaChange(q)
    BY <1>22, TransitionMoves DEF AbaChange
  <1>23. CASE AbaRead(q)
    BY <1>23 DEF AbaRead
  <1>24. CASE AbaReturned(q)
    BY <1>24 DEF AbaReturned
  <1>25. CASE Check(q)
    BY <1>25 DEF Check
  <1>26. CASE Bracket(q)
    BY <1>26 DEF Bracket
  <1>27. CASE RequireDisclosure(q)
    BY <1>27 DEF RequireDisclosure
  <1>28. CASE Assemble(q)
    BY <1>28 DEF Assemble
  <1>29. CASE Release(q)
    BY <1>29 DEF Release
  <1>30. CASE Fail(q)
    BY <1>30 DEF Fail
  <1>31. CASE SchedulerRaise(q)
    BY <1>31 DEF SchedulerRaise
  <1>32. CASE Raise(q)
    BY <1>32 DEF Raise
  <1>33. CASE Kill(q)
    BY <1>33 DEF Kill
  <1>34. CASE Return(q)
    BY <1>34 DEF Return
  <1> QED
    BY <1>1, <1>2, <1>3, <1>4, <1>5, <1>6, <1>7, <1>8, <1>9, <1>10, <1>11, <1>12,
       <1>13, <1>14, <1>15, <1>16, <1>17, <1>18, <1>19, <1>20, <1>21, <1>22, <1>23,
       <1>24, <1>25, <1>26, <1>27, <1>28, <1>29, <1>30, <1>31, <1>32, <1>33,
       <1>34 DEF RunStep, Proceed, RecalStep, AttestStep, OracleStep

\* The heads and generations that an ABA reads are not the head it bound.
LEMMA AbaReadKeepsHead ==
    ASSUME Rows, NEW q \in Run, AbaRead(q)
    PROVE  \A p \in Run : fault'[p].head_bound = fault[p].head_bound
  <1>1. \/ \E h : fault' = [fault EXCEPT ![q].head_moved = h]
        \/ \E g : fault' = [fault EXCEPT ![q].policy_head_pre = g]
        \/ \E g : fault' = [fault EXCEPT ![q].policy_head_post = g]
    BY Zenon DEF AbaRead
  <1>2. fault = [r \in Run |-> fault[r]]
    BY DEF Rows
  <1>3. ASSUME NEW p \in Run
        PROVE  fault[p] = [head_bound |-> fault[p].head_bound,
                           head_moved |-> fault[p].head_moved,
                           head_returned |-> fault[p].head_returned,
                           policy_head_pre |-> fault[p].policy_head_pre,
                           policy_head_post |-> fault[p].policy_head_post]
    BY DEF Rows
  <1> QED
    BY <1>1, <1>2, <1>3

\* A run adds to the sets, and reads out of them, no other run's fixture.
LEMMA RunMovesFixtures ==
    ASSUME Shape, NEW q \in Run, FreshInv(q), RunStep(q), NEW r \in Run \ {q}
    PROVE  FixturesStay(r)
  <1> USE RunAssumption
  <1> USE DEF Shape, Rows, FixturesStay, Fresh, TypeOK, stores, local, record, Put,
              SetId
  <1> USE DEF transition, append, deprecate, set_head, TargetSet
  <1>1. CASE Enter(q)
    BY <1>1 DEF Enter
  <1>2. CASE PersistPrereg(q)
    BY <1>2 DEF PersistPrereg
  <1>3. CASE ResolveDecision(q)
    BY <1>3 DEF ResolveDecision
  <1>4. CASE CapturingSource(q)
    BY <1>4 DEF CapturingSource
  <1>5. CASE RecalFire(q)
    BY <1>5 DEF RecalFire
  <1>6. CASE RecalTransition(q)
    BY <1>6 DEF RecalTransition
  <1>7. CASE RecalPin(q)
    BY <1>7 DEF RecalPin
  <1>8. CASE RecalRatify(q)
    BY <1>8 DEF RecalRatify
  <1>9. CASE RecalReadback(q)
    BY <1>9 DEF RecalReadback
  <1>10. CASE Engine(q)
    BY <1>10 DEF Engine
  <1>11. CASE Attest(q)
    BY <1>11 DEF Attest
  <1>12. CASE AttnFire(q)
    BY <1>12 DEF AttnFire
  <1>13. CASE AttnDegrade(q)
    BY <1>13 DEF AttnDegrade
  <1>14. CASE AttnPost(q)
    BY <1>14 DEF AttnPost
  <1>15. CASE AttnSnapshot(q)
    BY <1>15 DEF AttnSnapshot
  <1>16. CASE OracleRead(q)
    BY <1>16 DEF OracleRead
  <1>17. CASE OracleFire(q)
    BY <1>17 DEF OracleFire
  <1>18. CASE StaleFire(q)
    BY <1>18 DEF StaleFire, FreshInv, Go
  <1>19. CASE StaleAdd(q)
    BY <1>19 DEF StaleAdd
  <1>20. CASE StaleMoved(q)
    BY <1>20 DEF StaleMoved
  <1>21. CASE AbaFire(q)
    BY <1>21 DEF AbaFire, FreshInv, Go
  <1>22. CASE AbaChange(q)
    <2>1. CASE append(plan[q].set, q) /\ UNCHANGED policy
      BY <1>22, <2>1 DEF AbaChange
    <2>3. CASE deprecate(plan[q].set, q) /\ UNCHANGED policy
      BY <1>22, <2>3 DEF AbaChange
    <2>2. CASE transition("DEGRADED") /\ UNCHANGED members
      BY <1>22, <2>2, TransitionMoves DEF AbaChange
    <2> QED
      BY <1>22, <2>1, <2>2, <2>3 DEF AbaChange
  <1>23. CASE AbaRead(q)
    BY <1>23, AbaReadKeepsHead DEF AbaRead
  <1>24. CASE AbaReturned(q)
    BY <1>24 DEF AbaReturned
  <1>25. CASE Check(q)
    BY <1>25 DEF Check
  <1>26. CASE Bracket(q)
    BY <1>26 DEF Bracket
  <1>27. CASE RequireDisclosure(q)
    BY <1>27 DEF RequireDisclosure
  <1>28. CASE Assemble(q)
    BY <1>28 DEF Assemble
  <1>29. CASE Release(q)
    BY <1>29 DEF Release
  <1>30. CASE Fail(q)
    BY <1>30 DEF Fail
  <1>31. CASE SchedulerRaise(q)
    BY <1>31 DEF SchedulerRaise
  <1>32. CASE Raise(q)
    BY <1>32 DEF Raise
  <1>33. CASE Kill(q)
    BY <1>33 DEF Kill
  <1>34. CASE Return(q)
    BY <1>34 DEF Return
  <1> QED
    BY <1>1, <1>2, <1>3, <1>4, <1>5, <1>6, <1>7, <1>8, <1>9, <1>10, <1>11, <1>12,
       <1>13, <1>14, <1>15, <1>16, <1>17, <1>18, <1>19, <1>20, <1>21, <1>22, <1>23,
       <1>24, <1>25, <1>26, <1>27, <1>28, <1>29, <1>30, <1>31, <1>32, <1>33,
       <1>34 DEF RunStep, Proceed, RecalStep, AttestStep, OracleStep

\* A step to a known place leaves every run in one.
LEMMA GoTyped ==
    ASSUME pc \in [Run -> Step \cup Ended], NEW q \in Run, NEW a, NEW b \in Step
        \cup Ended,
           Go(q, a, b)
    PROVE  pc' \in [Run -> Step \cup Ended]
  <1> HIDE DEF Step, Ended
  <1> QED
    BY DEF Go

\* A fixture may leave a set.
LEMMA DeprecateTyped ==
    ASSUME Shape, NEW s, NEW f, deprecate(s, f)
    PROVE  members' \in [SetId -> SUBSET ({"base", "extra", "second"} \cup Run)]
  <1> DEFINE M == {"base", "extra", "second"} \cup Run
  <1>1. members \in [SetId -> SUBSET M]
    BY DEF Shape, TypeOK
  <1> HIDE DEF M
  <1>2. members' = [members EXCEPT ![s] = members[s] \ {f}]
    BY DEF deprecate
  <1>3. members' \in [SetId -> SUBSET M]
    BY <1>1, <1>2
  <1> QED
    BY <1>3 DEF M

\* A fixture of the universe may join a set.
LEMMA AppendTyped ==
    ASSUME Shape, NEW s, NEW f, append(s, f), f \in {"base", "extra", "second"} \cup Run
    PROVE  members' \in [SetId -> SUBSET ({"base", "extra", "second"} \cup Run)]
  <1> DEFINE M == {"base", "extra", "second"} \cup Run
  <1>1. members \in [SetId -> SUBSET M] /\ f \in M
    BY DEF Shape, TypeOK
  <1> HIDE DEF M
  <1>2. members' = [members EXCEPT ![s] = members[s] \cup {f}]
    BY DEF append
  <1>3. members' \in [SetId -> SUBSET M]
    BY <1>1, <1>2
  <1> QED
    BY <1>3 DEF M

\* Every step of a run keeps every variable's shape.
LEMMA RunKeepsShape ==
    ASSUME Shape, NEW q \in Run, RunStep(q)
    PROVE  Shape'
  <1> USE DEF Shape, Rows, TypeOK, Go, Put, stores, local, record, env
  <1> USE DEF Registry!Allocate, Registry!Release, Registry!RunState,
              Registry!TerminalStates
  <1> USE DEF OracleReturns, append, deprecate, LegalEdge, SetId, Image
  <1> USE DEF TargetSet, RecalImage
  <1>1. CASE Enter(q)
    <2>1. pc' \in [Run -> Step \cup Ended]
      <3>1. Go(q, "entry", "prereg") \/ Go(q, "entry", "raised")
        BY <1>1 DEF Enter
      <3> HIDE DEF Go
      <3> QED
        BY <3>1, GoTyped
    <2>2. row' \in [Run -> {"absent"} \cup Registry!RunState]
      BY <1>1 DEF Enter
    <2>3. members' \in [SetId -> SUBSET ({"base", "extra", "second"} \cup Run)]
      BY <1>1 DEF Enter
    <2>4. sched' \in [Run -> {"disarmed", "armed", "firing", "completed", "failed"}]
          /\ tree_hash' \in [Run -> BOOLEAN]
          /\ scenario' = scenario /\ ops' = ops /\ quiet' \in BOOLEAN
      BY <1>1 DEF Enter
    <2>5. /\ policy'.state \in {"ENABLED", "DEGRADED", "ADVISORY", "PENDING",
                                 "CALIBRATING"}
          /\ policy'.set \in SetId /\ policy'.subject \in Image
          /\ policy'.generation \in Nat
      BY <1>1 DEF Enter
    <2>6. TypeOK'
      BY <2>1, <2>2, <2>3, <2>4, <2>5
    <2>7. Rows'
      BY <1>1 DEF Enter
    <2> QED
      BY <2>6, <2>7
  <1>2. CASE PersistPrereg(q)
    BY <1>2 DEF PersistPrereg
  <1>3. CASE ResolveDecision(q)
    <2>1. pc' \in [Run -> Step \cup Ended]
      <3>1. Go(q, "decide", "source") \/ Go(q, "decide", "map")
        BY <1>3 DEF ResolveDecision
      <3> HIDE DEF Go
      <3> QED
        BY <3>1, GoTyped
    <2>2. row' \in [Run -> {"absent"} \cup Registry!RunState]
      BY <1>3 DEF ResolveDecision
    <2>3. members' \in [SetId -> SUBSET ({"base", "extra", "second"} \cup Run)]
      BY <1>3 DEF ResolveDecision
    <2>4. sched' \in [Run -> {"disarmed", "armed", "firing", "completed", "failed"}]
          /\ tree_hash' \in [Run -> BOOLEAN]
          /\ scenario' = scenario /\ ops' = ops /\ quiet' \in BOOLEAN
      BY <1>3 DEF ResolveDecision
    <2>5. /\ policy'.state \in {"ENABLED", "DEGRADED", "ADVISORY", "PENDING",
                                 "CALIBRATING"}
          /\ policy'.set \in SetId /\ policy'.subject \in Image
          /\ policy'.generation \in Nat
      BY <1>3 DEF ResolveDecision
    <2>6. TypeOK'
      BY <2>1, <2>2, <2>3, <2>4, <2>5
    <2>7. Rows'
      BY <1>3 DEF ResolveDecision
    <2> QED
      BY <2>6, <2>7
  <1>4. CASE CapturingSource(q)
    BY <1>4 DEF CapturingSource
  <1>5. CASE RecalFire(q)
    BY <1>5 DEF RecalFire
  <1>6. CASE RecalTransition(q)
    <2>1. pc' \in [Run -> Step \cup Ended]
      <3>1. Go(q, "recal_demote", "recal_pending") \/ Go(q,
            "recal_pending", "recal_calibrate") \/ Go(q,
            "recal_calibrate", "recal_pin")
        BY <1>6 DEF RecalTransition
      <3> HIDE DEF Go
      <3> QED
        BY <3>1, GoTyped
    <2>2. row' \in [Run -> {"absent"} \cup Registry!RunState]
      BY <1>6, TransitionMoves DEF RecalTransition
    <2>3. members' \in [SetId -> SUBSET ({"base", "extra", "second"} \cup Run)]
      BY <1>6, TransitionMoves DEF RecalTransition
    <2>4. sched' \in [Run -> {"disarmed", "armed", "firing", "completed", "failed"}]
          /\ tree_hash' \in [Run -> BOOLEAN]
          /\ scenario' = scenario /\ ops' = ops /\ quiet' \in BOOLEAN
      BY <1>6, TransitionMoves DEF RecalTransition
    <2>5. /\ policy'.state \in {"ENABLED", "DEGRADED", "ADVISORY", "PENDING",
                                 "CALIBRATING"}
          /\ policy'.set \in SetId /\ policy'.subject \in Image
          /\ policy'.generation \in Nat
      BY <1>6, TransitionMoves DEF RecalTransition
    <2>6. TypeOK'
      BY <2>1, <2>2, <2>3, <2>4, <2>5
    <2>7. Rows'
      BY <1>6, TransitionMoves DEF RecalTransition
    <2> QED
      BY <2>6, <2>7
  <1>7. CASE RecalPin(q)
    BY <1>7 DEF RecalPin
  <1>8. CASE RecalRatify(q)
    BY <1>8 DEF RecalRatify
  <1>9. CASE RecalReadback(q)
    BY <1>9 DEF RecalReadback
  <1>10. CASE Engine(q)
    <2>1. pc' \in [Run -> Step \cup Ended]
      <3>1. Go(q, "engine", "map") \/ Go(q, "engine", "attest")
        BY <1>10 DEF Engine
      <3> HIDE DEF Go
      <3> QED
        BY <3>1, GoTyped
    <2>2. row' \in [Run -> {"absent"} \cup Registry!RunState]
      BY <1>10 DEF Engine
    <2>3. members' \in [SetId -> SUBSET ({"base", "extra", "second"} \cup Run)]
      BY <1>10 DEF Engine
    <2>4. sched' \in [Run -> {"disarmed", "armed", "firing", "completed", "failed"}]
          /\ tree_hash' \in [Run -> BOOLEAN]
          /\ scenario' = scenario /\ ops' = ops /\ quiet' \in BOOLEAN
      BY <1>10 DEF Engine
    <2>5. /\ policy'.state \in {"ENABLED", "DEGRADED", "ADVISORY", "PENDING",
                                 "CALIBRATING"}
          /\ policy'.set \in SetId /\ policy'.subject \in Image
          /\ policy'.generation \in Nat
      BY <1>10 DEF Engine
    <2>6. TypeOK'
      BY <2>1, <2>2, <2>3, <2>4, <2>5
    <2>7. Rows'
      BY <1>10, ZenonT(60) DEF Engine
    <2> QED
      BY <2>6, <2>7
  <1>11. CASE Attest(q)
    <2>1. pc' \in [Run -> Step \cup Ended]
      <3>1. Go(q, "attest", "oracle") \/ Go(q, "attest", "map")
        BY <1>11 DEF Attest
      <3> HIDE DEF Go
      <3> QED
        BY <3>1, GoTyped
    <2>2. row' \in [Run -> {"absent"} \cup Registry!RunState]
      BY <1>11 DEF Attest
    <2>3. members' \in [SetId -> SUBSET ({"base", "extra", "second"} \cup Run)]
      BY <1>11 DEF Attest
    <2>4. sched' \in [Run -> {"disarmed", "armed", "firing", "completed", "failed"}]
          /\ tree_hash' \in [Run -> BOOLEAN]
          /\ scenario' = scenario /\ ops' = ops /\ quiet' \in BOOLEAN
      BY <1>11 DEF Attest
    <2>5. /\ policy'.state \in {"ENABLED", "DEGRADED", "ADVISORY", "PENDING",
                                 "CALIBRATING"}
          /\ policy'.set \in SetId /\ policy'.subject \in Image
          /\ policy'.generation \in Nat
      BY <1>11 DEF Attest
    <2>6. TypeOK'
      BY <2>1, <2>2, <2>3, <2>4, <2>5
    <2>7. Rows'
      BY <1>11, ZenonT(60) DEF Attest
    <2> QED
      BY <2>6, <2>7
  <1>12. CASE AttnFire(q)
    BY <1>12 DEF AttnFire
  <1>13. CASE AttnDegrade(q)
    <2>1. pc' \in [Run -> Step \cup Ended]
      BY <1>13, TransitionMoves DEF AttnDegrade
    <2>2. row' \in [Run -> {"absent"} \cup Registry!RunState]
      BY <1>13, TransitionMoves DEF AttnDegrade
    <2>3. members' \in [SetId -> SUBSET ({"base", "extra", "second"} \cup Run)]
      BY <1>13, TransitionMoves DEF AttnDegrade
    <2>4. sched' \in [Run -> {"disarmed", "armed", "firing", "completed", "failed"}]
          /\ tree_hash' \in [Run -> BOOLEAN]
          /\ scenario' = scenario /\ ops' = ops /\ quiet' \in BOOLEAN
      BY <1>13, TransitionMoves DEF AttnDegrade
    <2>5. /\ policy'.state \in {"ENABLED", "DEGRADED", "ADVISORY", "PENDING",
                                 "CALIBRATING"}
          /\ policy'.set \in SetId /\ policy'.subject \in Image
          /\ policy'.generation \in Nat
      BY <1>13, TransitionMoves DEF AttnDegrade
    <2>6. TypeOK'
      BY <2>1, <2>2, <2>3, <2>4, <2>5
    <2>7. Rows'
      BY <1>13, TransitionMoves DEF AttnDegrade
    <2> QED
      BY <2>6, <2>7
  <1>14. CASE AttnPost(q)
    BY <1>14 DEF AttnPost
  <1>15. CASE AttnSnapshot(q)
    BY <1>15 DEF AttnSnapshot
  <1>16. CASE OracleRead(q)
    BY <1>16 DEF OracleRead
  <1>17. CASE OracleFire(q)
    BY <1>17 DEF OracleFire
  <1>18. CASE StaleFire(q)
    BY <1>18 DEF StaleFire
  <1>19. CASE StaleAdd(q)
    <2>1. pc' \in [Run -> Step \cup Ended]
      BY <1>19 DEF StaleAdd
    <2>2. row' \in [Run -> {"absent"} \cup Registry!RunState]
      BY <1>19 DEF StaleAdd
    <2>3. members' \in [SetId -> SUBSET ({"base", "extra", "second"} \cup Run)]
      BY <1>19, AppendTyped DEF StaleAdd
    <2>4. sched' \in [Run -> {"disarmed", "armed", "firing", "completed", "failed"}]
          /\ tree_hash' \in [Run -> BOOLEAN]
          /\ scenario' = scenario /\ ops' = ops /\ quiet' \in BOOLEAN
      BY <1>19 DEF StaleAdd
    <2>5. /\ policy'.state \in {"ENABLED", "DEGRADED", "ADVISORY", "PENDING",
                                 "CALIBRATING"}
          /\ policy'.set \in SetId /\ policy'.subject \in Image
          /\ policy'.generation \in Nat
      BY <1>19 DEF StaleAdd
    <2>6. TypeOK'
      BY <2>1, <2>2, <2>3, <2>4, <2>5
    <2>7. Rows'
      BY <1>19 DEF StaleAdd
    <2> QED
      BY <2>6, <2>7
  <1>20. CASE StaleMoved(q)
    BY <1>20 DEF StaleMoved
  <1>21. CASE AbaFire(q)
    BY <1>21 DEF AbaFire
  <1>22. CASE AbaChange(q)
    <2>1. pc' \in [Run -> Step \cup Ended]
      <3>1. \/ Go(q, "aba_add", "aba_moved") \/ Go(q, "aba_degrade", "aba_post")
            \/ Go(q, "aba_deprecate", "aba_returned")
        BY <1>22 DEF AbaChange
      <3> HIDE DEF Go
      <3> QED
        BY <3>1, GoTyped
    <2>2. row' \in [Run -> {"absent"} \cup Registry!RunState]
      BY <1>22, TransitionMoves, AppendTyped DEF AbaChange
    <2>3. members' \in [SetId -> SUBSET ({"base", "extra", "second"} \cup Run)]
      <3>1. CASE append(plan[q].set, q)
        BY <3>1, AppendTyped
      <3>2. CASE deprecate(plan[q].set, q)
        BY <3>2, DeprecateTyped
      <3>3. CASE UNCHANGED members
        BY <3>3
      <3> QED
        BY <1>22, <3>1, <3>2, <3>3, Zenon DEF AbaChange
    <2>4. sched' \in [Run -> {"disarmed", "armed", "firing", "completed", "failed"}]
          /\ tree_hash' \in [Run -> BOOLEAN]
          /\ scenario' = scenario /\ ops' = ops /\ quiet' \in BOOLEAN
      BY <1>22, TransitionMoves, AppendTyped DEF AbaChange
    <2>5. /\ policy'.state \in {"ENABLED", "DEGRADED", "ADVISORY", "PENDING",
                                 "CALIBRATING"}
          /\ policy'.set \in SetId /\ policy'.subject \in Image
          /\ policy'.generation \in Nat
      BY <1>22, TransitionMoves, AppendTyped DEF AbaChange
    <2>6. TypeOK'
      BY <2>1, <2>2, <2>3, <2>4, <2>5
    <2>7. Rows'
      BY <1>22, TransitionMoves, AppendTyped DEF AbaChange
    <2> QED
      BY <2>6, <2>7
  <1>23. CASE AbaRead(q)
    <2>1. pc' \in [Run -> Step \cup Ended]
      BY <1>23, ZenonT(60) DEF AbaRead
    <2>2. row' \in [Run -> {"absent"} \cup Registry!RunState]
      BY <1>23 DEF AbaRead
    <2>3. members' \in [SetId -> SUBSET ({"base", "extra", "second"} \cup Run)]
      BY <1>23 DEF AbaRead
    <2>4. sched' \in [Run -> {"disarmed", "armed", "firing", "completed", "failed"}]
          /\ tree_hash' \in [Run -> BOOLEAN]
          /\ scenario' = scenario /\ ops' = ops /\ quiet' \in BOOLEAN
      BY <1>23 DEF AbaRead
    <2>5. /\ policy'.state \in {"ENABLED", "DEGRADED", "ADVISORY", "PENDING",
                                 "CALIBRATING"}
          /\ policy'.set \in SetId /\ policy'.subject \in Image
          /\ policy'.generation \in Nat
      BY <1>23 DEF AbaRead
    <2>6. TypeOK'
      BY <2>1, <2>2, <2>3, <2>4, <2>5
    <2>7. Rows'
      <3>1. \A p \in Run \ {q} : fault'[p] = fault[p]
        BY <1>23 DEF AbaRead
      <3>2. fault'[q] = [head_bound |-> fault'[q].head_bound,
                         head_moved |-> fault'[q].head_moved,
                         head_returned |-> fault'[q].head_returned,
                         policy_head_pre |-> fault'[q].policy_head_pre,
                         policy_head_post |-> fault'[q].policy_head_post]
        <4>1. CASE fault'[q] = [fault[q] EXCEPT !.head_moved = set_head(plan[q].set)]
          BY <4>1
        <4>2. CASE fault'[q] = [fault[q] EXCEPT !.policy_head_pre = policy.generation]
          BY <4>2
        <4>3. CASE fault'[q] = [fault[q] EXCEPT !.policy_head_post = policy.generation]
          BY <4>3
        <4> QED
          BY <1>23, <4>1, <4>2, <4>3 DEF AbaRead
      <3>3. fault' = [p \in Run |-> fault'[p]]
        BY <1>23 DEF AbaRead
      <3> QED
        BY <1>23, <3>1, <3>2, <3>3, ZenonT(60) DEF AbaRead
    <2> QED
      BY <2>6, <2>7
  <1>24. CASE AbaReturned(q)
    BY <1>24 DEF AbaReturned
  <1>25. CASE Check(q)
    <2>1. pc' \in [Run -> Step \cup Ended]
      <3>1. Go(q, "checks", "map") \/ Go(q, "checks", "bracket") \/ Go(q,
            "oracle", "map")
        BY <1>25 DEF Check
      <3> HIDE DEF Go
      <3> QED
        BY <3>1, GoTyped
    <2>2. row' \in [Run -> {"absent"} \cup Registry!RunState]
      BY <1>25 DEF Check
    <2>3. members' \in [SetId -> SUBSET ({"base", "extra", "second"} \cup Run)]
      BY <1>25 DEF Check
    <2>4. sched' \in [Run -> {"disarmed", "armed", "firing", "completed", "failed"}]
          /\ tree_hash' \in [Run -> BOOLEAN]
          /\ scenario' = scenario /\ ops' = ops /\ quiet' \in BOOLEAN
      BY <1>25 DEF Check
    <2>5. /\ policy'.state \in {"ENABLED", "DEGRADED", "ADVISORY", "PENDING",
                                 "CALIBRATING"}
          /\ policy'.set \in SetId /\ policy'.subject \in Image
          /\ policy'.generation \in Nat
      BY <1>25 DEF Check
    <2>6. TypeOK'
      BY <2>1, <2>2, <2>3, <2>4, <2>5
    <2>7. Rows'
      BY <1>25, ZenonT(60) DEF Check
    <2> QED
      BY <2>6, <2>7
  <1>26. CASE Bracket(q)
    BY <1>26, ZenonT(60) DEF Bracket
  <1>27. CASE RequireDisclosure(q)
    <2>1. Go(q, "map", "assemble") \/ Go(q, "map", "failing")
      BY <1>27, Zenon DEF RequireDisclosure
    <2>2. pc' \in [Run -> Step \cup Ended]
      <3> HIDE DEF Go
      <3> QED
        BY <2>1, GoTyped
    <2> QED
      BY <1>27, <2>2 DEF RequireDisclosure
  <1>28. CASE Assemble(q)
    <2>1. Go(q, "assemble", "release") \/ Go(q, "assemble", "failing")
      BY <1>28, Zenon DEF Assemble
    <2>2. pc' \in [Run -> Step \cup Ended]
      <3> HIDE DEF Go
      <3> QED
        BY <2>1, GoTyped
    <2>3. UNCHANGED <<stores, env, scenario, row, local, result>>
      BY <1>28, Zenon DEF Assemble
    <2>4. execution' = [r \in Run |-> execution'[r]]
      <3>1. execution' = execution \/ \E v : execution' = [execution EXCEPT ![q] = v]
        BY <1>28, Zenon DEF Assemble
      <3> QED
        BY <3>1
    <2> QED
      BY <2>2, <2>3, <2>4
  <1>29. CASE Release(q)
    BY <1>29 DEF Release
  <1>30. CASE Fail(q)
    <2>1. pc' \in [Run -> Step \cup Ended]
      <3>1. Go(q, "failing", "raised") \/ Go(q, "failing", "stranded")
        BY <1>30 DEF Fail
      <3> HIDE DEF Go
      <3> QED
        BY <3>1, GoTyped
    <2>2. row' \in [Run -> {"absent"} \cup Registry!RunState]
      BY <1>30 DEF Fail
    <2>3. members' \in [SetId -> SUBSET ({"base", "extra", "second"} \cup Run)]
      BY <1>30 DEF Fail
    <2>4. sched' \in [Run -> {"disarmed", "armed", "firing", "completed", "failed"}]
          /\ tree_hash' \in [Run -> BOOLEAN]
          /\ scenario' = scenario /\ ops' = ops /\ quiet' \in BOOLEAN
      BY <1>30 DEF Fail
    <2>5. /\ policy'.state \in {"ENABLED", "DEGRADED", "ADVISORY", "PENDING",
                                 "CALIBRATING"}
          /\ policy'.set \in SetId /\ policy'.subject \in Image
          /\ policy'.generation \in Nat
      BY <1>30 DEF Fail
    <2>6. TypeOK'
      BY <2>1, <2>2, <2>3, <2>4, <2>5
    <2>7. Rows'
      BY <1>30 DEF Fail
    <2> QED
      BY <2>6, <2>7
  <1>31. CASE SchedulerRaise(q)
    BY <1>31 DEF SchedulerRaise
  <1>32. CASE Raise(q)
    BY <1>32, ZenonT(60) DEF Raise
  <1>33. CASE Kill(q)
    BY <1>33 DEF Kill
  <1>34. CASE Return(q)
    BY <1>34 DEF Return
  <1> QED
    BY <1>1, <1>2, <1>3, <1>4, <1>5, <1>6, <1>7, <1>8, <1>9, <1>10, <1>11, <1>12,
       <1>13, <1>14, <1>15, <1>16, <1>17, <1>18, <1>19, <1>20, <1>21, <1>22, <1>23,
       <1>24, <1>25, <1>26, <1>27, <1>28, <1>29, <1>30, <1>31, <1>32, <1>33,
       <1>34 DEF RunStep, Proceed, RecalStep, AttestStep, OracleStep

-----------------------------------------------------------------------------
(* What survives the steps of the others                                   *)

\* What holds of a run survives a step that leaves its state alone, moves the
\* policy only to new generations and its fixture nowhere.
LEMMA OtherKeeps ==
    ASSUME Shape, NEW r \in Run, RunInv(r), SameRun(r), PolicyMoves, FixturesStay(r)
    PROVE  RunInv(r)'
  <1>1. RowInv(r)'
    BY OwnReceipts DEF SameRun, RowInv, RunInv
  <1>2. SnapInv(r)'
    BY DEF SameRun, SnapInv, RunInv, PolicyMoves, Shape, TypeOK
  <1>3. OracleInv(r)'
    BY DEF SameRun, OracleInv, SnapInv, RunInv, PolicyMoves, Shape, TypeOK
  <1>4. CurrentInv(r)'
    BY DEF SameRun, CurrentInv, RunInv, Judged
  <1>5. FaultInv(r)'
    BY DEF SameRun, FaultInv, RunInv
  <1>6. InjectedInv(r)'
    BY DEF SameRun, InjectedInv, FreshInv, SnapInv, RunInv, PolicyMoves, FixturesStay,
       set_head, Shape, TypeOK
  <1>7. FreshInv(r)'
    BY DEF SameRun, FreshInv, RunInv, FixturesStay
  <1>8. RefusedInv(r)'
    BY DEF SameRun, RefusedInv, RunInv, Judged
  <1>9. ResultInv(r)'
    BY DEF SameRun, ResultInv, RunInv, ValidResult
  <1>10. DoneInv(r)'
    BY DEF SameRun, DoneInv, TookPlace, ValidAbaInjection, RunInv, PolicyMoves,
       FixturesStay, Shape, TypeOK, SetId
  <1>11. SignedInv(r)'
    BY OwnReceipts DEF SameRun, SignedInv, Signed, RunInv
  <1>12. GenuineInv(r)'
    BY DEF SameRun, GenuineInv, Genuine, RunInv
  <1> QED
    BY <1>1, <1>2, <1>3, <1>4, <1>5, <1>6, <1>7, <1>8, <1>9, <1>10, <1>11, <1>12 DEF
       RunInv

-----------------------------------------------------------------------------
(* What a run's own step does to its parts                                 *)

\* A run that has no plan is not admitted.
LEMMA ResolveDoes ==
    ASSUME Shape, NEW q \in Run, ResolveDecision(q)
    PROVE  /\ pc[q] = "decide"
           /\ \/ pc'[q] = "source" /\ UNCHANGED result
              \/ /\ pc'[q] = "map" /\ result'[q].kind = "non_run"
                 /\ ValidResult(result'[q])
                 /\ result'[q].reason # "policy_generation_moved"
           /\ UNCHANGED <<policy, members, scenario, sched, fault, tree_hash, snap,
                          oracle, execution>>
           /\ pc'[q] = "source" => plan'[q].set = policy.set
  <1> USE DEF Shape, Rows, TypeOK, Go, Put, stores
  <1>1. CASE Go(q, "decide", "source") /\ UNCHANGED result
    BY <1>1 DEF ResolveDecision
  <1>2. CASE \E d \in {"block_action_required", "skip_neutral"} :
               Go(q, "decide", "map") /\ Put(result, q, NonRun(d))
    <2>1. PICK d : Go(q, "decide", "map") /\ Put(result, q, NonRun(d))
      BY <1>2
    <2>2. result'[q] = NonRun(d)
      BY <2>1
    <2> QED
      BY <2>1, <2>2 DEF ResolveDecision, NonRun, ValidResult
  <1> QED
    BY <1>1, <1>2 DEF ResolveDecision

\* A verdict goes to admission; every other end of the engine is not admitted.
LEMMA EngineDoes ==
    ASSUME Shape, NEW q \in Run, Engine(q)
    PROVE  /\ pc[q] = "engine"
           /\ \/ pc'[q] = "attest" /\ scenario[q] # "sha_tamper"
              \/ pc'[q] = "map" /\ result'[q].kind # "admitted_run"
           /\ ValidResult(result'[q]) /\ result'[q].reason # "policy_generation_moved"
           /\ UNCHANGED <<policy, members, scenario, row, sched, fault, plan,
                          tree_hash, snap, oracle, execution>>
  <1> USE DEF Shape, Rows, TypeOK, Go, Put, stores, local
  <1>1. CASE \E reason \in {"artifact_integrity_mismatch", "sandbox_failure"} :
               Go(q, "engine", "map") /\ Put(result, q, Infra(reason))
    <2>1. PICK reason \in {"artifact_integrity_mismatch", "sandbox_failure"} :
            Go(q, "engine", "map") /\ Put(result, q, Infra(reason))
      BY <1>1
    <2>2. result'[q] = Infra(reason)
      BY <2>1
    <2> QED
      BY <2>1, <2>2 DEF Engine, Infra, ValidResult
  <1>2. CASE Go(q, "engine", "map") /\ Put(result, q, Refusal("subject_drift", NoSub))
    BY <1>2 DEF Engine, Refusal, ValidResult
  <1>3. CASE \E verdict \in {"pass", "fail", "error"} :
               /\ Go(q, "engine", "attest") /\ scenario[q] # "sha_tamper"
               /\ Put(result, q, AdmittedRun(verdict))
    <2>1. PICK verdict \in {"pass", "fail", "error"} :
            /\ Go(q, "engine", "attest") /\ scenario[q] # "sha_tamper"
            /\ Put(result, q, AdmittedRun(verdict))
      BY <1>3
    <2>2. result'[q] = AdmittedRun(verdict)
      BY <2>1
    <2> QED
      BY <2>1, <2>2 DEF Engine, AdmittedRun, ValidResult
  <1> QED
    BY <1>1, <1>2, <1>3 DEF Engine

\* What goes on to the bracket passed the comparisons.
LEMMA CheckDoes ==
    ASSUME Shape, NEW q \in Run, Check(q)
    PROVE  /\ \/ /\ pc[q] = "checks" /\ pc'[q] = "bracket"
                 /\ Refusals(q) = {} /\ UNCHANGED result
              \/ /\ pc[q] \in {"checks", "oracle"} /\ pc'[q] = "map"
                 /\ result'[q].kind = "blocking_refusal" /\ ValidResult(result'[q])
                 /\ result'[q].reason # "policy_generation_moved"
           /\ UNCHANGED <<policy, members, scenario, sched, fault, plan, tree_hash,
                          snap, oracle, execution>>
  <1> USE DEF Shape, Rows, TypeOK, Go, Put, stores, local
  <1>1. CASE \E reason \in Refusals(q) :
               Go(q, "checks", "map") /\ Put(result, q, Refusal(reason, NoSub))
    <2>1. PICK reason : Go(q, "checks", "map") /\ Put(result, q, Refusal(reason, NoSub))
      BY <1>1
    <2>2. result'[q] = Refusal(reason, NoSub)
      BY <2>1
    <2> QED
      BY <2>1, <2>2 DEF Check, Refusal, Refusals, ValidResult
  <1>2. CASE Refusals(q) = {} /\ Go(q, "checks", "bracket") /\ UNCHANGED result
    BY <1>2 DEF Check
  <1>3. CASE Go(q, "oracle", "map")
               /\ Put(result, q, Refusal("authorized_set_moved", NoSub))
    BY <1>3 DEF Check, Refusal, Refusals, ValidResult
  <1> QED
    BY <1>1, <1>2, <1>3 DEF Check

\* Only what no transition overtook leaves the bracket admitted.
LEMMA BracketDoes ==
    ASSUME Shape, NEW q \in Run, Bracket(q)
    PROVE  /\ pc[q] = "bracket" /\ pc'[q] = "map"
           /\ \/ policy.generation = snap[q].generation /\ UNCHANGED result
              \/ result'[q].kind = "blocking_refusal" /\ ValidResult(result'[q])
           /\ UNCHANGED <<policy, members, scenario, sched, fault, plan, tree_hash,
                          snap, oracle, execution>>
  <1>0. \A x, y : Refusal(x, y).kind = "blocking_refusal" /\ ValidResult(Refusal(x, y))
    BY DEF Refusal, ValidResult
  <1> USE DEF Shape, Rows, TypeOK, Go, Put, stores, local
  <1>1. CASE policy.generation = snap[q].generation
    BY <1>1 DEF Bracket
  <1>2. CASE policy.generation # snap[q].generation
    <2>1. result'[q] = Refusal("policy_generation_moved", NoSub)
      BY <1>2 DEF Bracket
    <2>2. result'[q].kind = "blocking_refusal" /\ ValidResult(result'[q])
      <3> HIDE DEF Shape, Rows, TypeOK, Go, Put, stores, local
      <3> QED
        BY <2>1, <1>0
    <2> QED
      BY <2>2 DEF Bracket
  <1> QED
    BY <1>1, <1>2

\* The row follows the call, and is COMPLETED after the chain verified.
LEMMA OwnRowInv ==
    ASSUME Shape, NEW q \in Run, RowInv(q), RunStep(q)
    PROVE  RowInv(q)'
  <1> USE DEF Shape, Rows, TypeOK, Go, Put, stores, local, record, env, RowInv,
              Registry!Allocate, Registry!Release, Registry!TerminalStates
  <1>1. CASE Enter(q)
    BY <1>1 DEF Enter
  <1>2. CASE PersistPrereg(q)
    BY <1>2 DEF PersistPrereg
  <1>3. CASE ResolveDecision(q)
    BY <1>3 DEF ResolveDecision
  <1>4. CASE CapturingSource(q)
    BY <1>4 DEF CapturingSource
  <1>5. CASE RecalFire(q)
    BY <1>5 DEF RecalFire
  <1>6. CASE RecalTransition(q)
    BY <1>6 DEF RecalTransition
  <1>7. CASE RecalPin(q)
    BY <1>7 DEF RecalPin
  <1>8. CASE RecalRatify(q)
    BY <1>8 DEF RecalRatify
  <1>9. CASE RecalReadback(q)
    BY <1>9 DEF RecalReadback
  <1>10. CASE Engine(q)
    BY <1>10 DEF Engine
  <1>11. CASE Attest(q)
    BY <1>11 DEF Attest
  <1>12. CASE AttnFire(q)
    BY <1>12 DEF AttnFire
  <1>13. CASE AttnDegrade(q)
    BY <1>13 DEF AttnDegrade
  <1>14. CASE AttnPost(q)
    BY <1>14 DEF AttnPost
  <1>15. CASE AttnSnapshot(q)
    BY <1>15 DEF AttnSnapshot
  <1>16. CASE OracleRead(q)
    BY <1>16 DEF OracleRead
  <1>17. CASE OracleFire(q)
    BY <1>17 DEF OracleFire
  <1>18. CASE StaleFire(q)
    BY <1>18 DEF StaleFire
  <1>19. CASE StaleAdd(q)
    BY <1>19 DEF StaleAdd
  <1>20. CASE StaleMoved(q)
    BY <1>20 DEF StaleMoved
  <1>21. CASE AbaFire(q)
    BY <1>21 DEF AbaFire
  <1>22. CASE AbaChange(q)
    BY <1>22 DEF AbaChange
  <1>23. CASE AbaRead(q)
    BY <1>23 DEF AbaRead
  <1>24. CASE AbaReturned(q)
    BY <1>24 DEF AbaReturned
  <1>25. CASE Check(q)
    BY <1>25, ZenonT(60) DEF Check
  <1>26. CASE Bracket(q)
    BY <1>26 DEF Bracket
  <1>27. CASE RequireDisclosure(q)
    BY <1>27 DEF RequireDisclosure
  <1>28. CASE Assemble(q)
    <2>1. CASE CanAssemble(q)
      <3>1. Execution(q)' = Execution(q) /\ (CanAssemble(q)' <=> CanAssemble(q))
        BY <1>28, OwnReceipts DEF Assemble
      <3>2. row'[q] = row[q] /\ pc'[q] = "release" /\ execution'[q] = Execution(q)
            /\ pc[q] = "assemble"
        BY <1>28, <2>1 DEF Assemble
      <3> QED
        BY <2>1, <3>1, <3>2
    <2>2. CASE ~CanAssemble(q)
      BY <1>28, <2>2 DEF Assemble
    <2> QED
      BY <2>1, <2>2
  <1>29. CASE Release(q)
    <2>1. Execution(q)' = Execution(q) /\ (CanAssemble(q)' <=> CanAssemble(q))
      BY <1>29, OwnReceipts DEF Release
    <2>2. /\ row'[q] = "completed" /\ pc'[q] = "return" /\ pc[q] = "release"
          /\ execution' = execution
      BY <1>29 DEF Release
    <2> QED
      BY <2>1, <2>2
  <1>30. CASE Fail(q)
    <2>1. Execution(q)' = Execution(q) /\ (CanAssemble(q)' <=> CanAssemble(q))
      BY <1>30, OwnReceipts DEF Fail
    <2>2. /\ pc[q] = "failing" /\ execution' = execution
          /\ \/ pc'[q] = "raised" /\ row'[q] = "failed"
             \/ pc'[q] = "stranded" /\ row' = row
      BY <1>30 DEF Fail
    <2> QED
      BY <2>1, <2>2
  <1>31. CASE SchedulerRaise(q)
    BY <1>31 DEF SchedulerRaise
  <1>32. CASE Raise(q)
    <2>1. Execution(q)' = Execution(q) /\ (CanAssemble(q)' <=> CanAssemble(q))
      BY <1>32, OwnReceipts DEF Raise
    <2>2. /\ pc[q] \in Step \ {"entry", "failing"} /\ pc'[q] = "failing"
          /\ row' = row /\ execution' = execution
      BY <1>32 DEF Raise
    <2> QED
      BY <2>1, <2>2
  <1>33. CASE Kill(q)
    <2>1. Execution(q)' = Execution(q) /\ (CanAssemble(q)' <=> CanAssemble(q))
      BY <1>33, OwnReceipts DEF Kill
    <2>2. /\ pc[q] \in Step \ {"entry"} /\ pc'[q] = "killed"
          /\ row' = row /\ execution' = execution
      BY <1>33 DEF Kill
    <2> QED
      BY <2>1, <2>2
  <1>34. CASE Return(q)
    <2>1. Execution(q)' = Execution(q) /\ (CanAssemble(q)' <=> CanAssemble(q))
      BY <1>34, OwnReceipts DEF Return
    <2>2. /\ pc[q] = "return" /\ pc'[q] = "returned"
          /\ row' = row /\ execution' = execution
      BY <1>34 DEF Return
    <2> QED
      BY <2>1, <2>2
  <1> QED
    BY <1>1, <1>2, <1>3, <1>4, <1>5, <1>6, <1>7, <1>8, <1>9, <1>10, <1>11, <1>12,
       <1>13, <1>14, <1>15, <1>16, <1>17, <1>18, <1>19, <1>20, <1>21, <1>22, <1>23,
       <1>24, <1>25, <1>26, <1>27, <1>28, <1>29, <1>30, <1>31, <1>32, <1>33,
       <1>34 DEF RunStep, Proceed, RecalStep, AttestStep, OracleStep

\* The snapshot is taken of an ENABLED policy; its own transitions overtake it.
LEMMA OwnSnapInv ==
    ASSUME Shape, NEW q \in Run, SnapInv(q), RunStep(q)
    PROVE  SnapInv(q)'
  <1> USE DEF Shape, Rows, TypeOK, Go, Put, stores, local, record, env, SnapInv,
              PolicyMoves, OracleReturns, current_attestation_snapshot
  <1>1. CASE Enter(q)
    BY <1>1 DEF Enter
  <1>2. CASE PersistPrereg(q)
    BY <1>2 DEF PersistPrereg
  <1>3. CASE ResolveDecision(q)
    BY <1>3, ResolveDoes
  <1>4. CASE CapturingSource(q)
    BY <1>4 DEF CapturingSource
  <1>5. CASE RecalFire(q)
    BY <1>5 DEF RecalFire
  <1>6. CASE RecalTransition(q)
    BY <1>6 DEF RecalTransition
  <1>7. CASE RecalPin(q)
    BY <1>7 DEF RecalPin
  <1>8. CASE RecalRatify(q)
    BY <1>8 DEF RecalRatify
  <1>9. CASE RecalReadback(q)
    BY <1>9 DEF RecalReadback
  <1>10. CASE Engine(q)
    BY <1>10, EngineDoes
  <1>11. CASE Attest(q)
    BY <1>11 DEF Attest
  <1>12. CASE AttnFire(q)
    BY <1>12 DEF AttnFire
  <1>13. CASE AttnDegrade(q)
    BY <1>13 DEF AttnDegrade
  <1>14. CASE AttnPost(q)
    BY <1>14 DEF AttnPost
  <1>15. CASE AttnSnapshot(q)
    BY <1>15 DEF AttnSnapshot
  <1>16. CASE OracleRead(q)
    BY <1>16 DEF OracleRead
  <1>17. CASE OracleFire(q)
    BY <1>17 DEF OracleFire
  <1>18. CASE StaleFire(q)
    BY <1>18 DEF StaleFire
  <1>19. CASE StaleAdd(q)
    BY <1>19 DEF StaleAdd
  <1>20. CASE StaleMoved(q)
    BY <1>20 DEF StaleMoved
  <1>21. CASE AbaFire(q)
    BY <1>21 DEF AbaFire
  <1>22. CASE AbaChange(q)
    <2>1. CASE Go(q, "aba_add", "aba_moved") /\ UNCHANGED policy
      BY <1>22, <2>1 DEF AbaChange
    <2>2. CASE Go(q, "aba_degrade", "aba_post") /\ transition("DEGRADED")
      BY <1>22, <2>2, TransitionMoves DEF AbaChange
    <2>3. CASE Go(q, "aba_deprecate", "aba_returned") /\ UNCHANGED policy
      BY <1>22, <2>3 DEF AbaChange
    <2> QED
      BY <1>22, <2>1, <2>2, <2>3 DEF AbaChange
  <1>23. CASE AbaRead(q)
    BY <1>23 DEF AbaRead
  <1>24. CASE AbaReturned(q)
    BY <1>24 DEF AbaReturned
  <1>25. CASE Check(q)
    BY <1>25, CheckDoes
  <1>26. CASE Bracket(q)
    BY <1>26, BracketDoes
  <1>27. CASE RequireDisclosure(q)
    BY <1>27 DEF RequireDisclosure
  <1>28. CASE Assemble(q)
    BY <1>28 DEF Assemble
  <1>29. CASE Release(q)
    BY <1>29 DEF Release
  <1>30. CASE Fail(q)
    BY <1>30 DEF Fail
  <1>31. CASE SchedulerRaise(q)
    BY <1>31 DEF SchedulerRaise
  <1>32. CASE Raise(q)
    BY <1>32 DEF Raise
  <1>33. CASE Kill(q)
    BY <1>33 DEF Kill
  <1>34. CASE Return(q)
    BY <1>34 DEF Return
  <1> QED
    BY <1>1, <1>2, <1>3, <1>4, <1>5, <1>6, <1>7, <1>8, <1>9, <1>10, <1>11, <1>12,
       <1>13, <1>14, <1>15, <1>16, <1>17, <1>18, <1>19, <1>20, <1>21, <1>22, <1>23,
       <1>24, <1>25, <1>26, <1>27, <1>28, <1>29, <1>30, <1>31, <1>32, <1>33,
       <1>34 DEF RunStep, Proceed, RecalStep, AttestStep, OracleStep

\* The oracle read sees the set as it is, and the binding if not overtaken.
LEMMA OwnOracleInv ==
    ASSUME Shape, NEW q \in Run, OracleInv(q), SnapInv(q), RunStep(q)
    PROVE  OracleInv(q)'
  <1> USE DEF Shape, Rows, TypeOK, Go, Put, stores, local, record, env, OracleInv,
              SnapInv, OracleReturns, Refusals, current_attestation_snapshot, set_head
  <1>1. CASE Enter(q)
    BY <1>1 DEF Enter
  <1>2. CASE PersistPrereg(q)
    BY <1>2 DEF PersistPrereg
  <1>3. CASE ResolveDecision(q)
    BY <1>3, ResolveDoes
  <1>4. CASE CapturingSource(q)
    BY <1>4 DEF CapturingSource
  <1>5. CASE RecalFire(q)
    BY <1>5 DEF RecalFire
  <1>6. CASE RecalTransition(q)
    BY <1>6 DEF RecalTransition
  <1>7. CASE RecalPin(q)
    BY <1>7 DEF RecalPin
  <1>8. CASE RecalRatify(q)
    BY <1>8 DEF RecalRatify
  <1>9. CASE RecalReadback(q)
    BY <1>9 DEF RecalReadback
  <1>10. CASE Engine(q)
    BY <1>10, EngineDoes
  <1>11. CASE Attest(q)
    BY <1>11 DEF Attest
  <1>12. CASE AttnFire(q)
    BY <1>12 DEF AttnFire
  <1>13. CASE AttnDegrade(q)
    BY <1>13 DEF AttnDegrade
  <1>14. CASE AttnPost(q)
    BY <1>14 DEF AttnPost
  <1>15. CASE AttnSnapshot(q)
    BY <1>15 DEF AttnSnapshot
  <1>16. CASE OracleRead(q)
    BY <1>16 DEF OracleRead
  <1>17. CASE OracleFire(q)
    BY <1>17 DEF OracleFire
  <1>18. CASE StaleFire(q)
    BY <1>18 DEF StaleFire
  <1>19. CASE StaleAdd(q)
    BY <1>19 DEF StaleAdd
  <1>20. CASE StaleMoved(q)
    BY <1>20 DEF StaleMoved
  <1>21. CASE AbaFire(q)
    BY <1>21 DEF AbaFire
  <1>22. CASE AbaChange(q)
    BY <1>22 DEF AbaChange
  <1>23. CASE AbaRead(q)
    BY <1>23 DEF AbaRead
  <1>24. CASE AbaReturned(q)
    BY <1>24 DEF AbaReturned
  <1>25. CASE Check(q)
    BY <1>25 DEF Check
  <1>26. CASE Bracket(q)
    BY <1>26 DEF Bracket
  <1>27. CASE RequireDisclosure(q)
    BY <1>27 DEF RequireDisclosure
  <1>28. CASE Assemble(q)
    BY <1>28 DEF Assemble
  <1>29. CASE Release(q)
    BY <1>29 DEF Release
  <1>30. CASE Fail(q)
    BY <1>30 DEF Fail
  <1>31. CASE SchedulerRaise(q)
    BY <1>31 DEF SchedulerRaise
  <1>32. CASE Raise(q)
    BY <1>32 DEF Raise
  <1>33. CASE Kill(q)
    BY <1>33 DEF Kill
  <1>34. CASE Return(q)
    BY <1>34 DEF Return
  <1> QED
    BY <1>1, <1>2, <1>3, <1>4, <1>5, <1>6, <1>7, <1>8, <1>9, <1>10, <1>11, <1>12,
       <1>13, <1>14, <1>15, <1>16, <1>17, <1>18, <1>19, <1>20, <1>21, <1>22, <1>23,
       <1>24, <1>25, <1>26, <1>27, <1>28, <1>29, <1>30, <1>31, <1>32, <1>33,
       <1>34 DEF RunStep, Proceed, RecalStep, AttestStep, OracleStep

\* Only the bracket lets a verdict out, and only of a current plan.
LEMMA OwnCurrentInv ==
    ASSUME Shape, NEW q \in Run, CurrentInv(q), OracleInv(q), SnapInv(q), RunStep(q)
    PROVE  CurrentInv(q)'
  <1> USE DEF Shape, Rows, TypeOK, Go, Put, stores, local, record, env, CurrentInv,
              OracleInv, SnapInv, Judged, Refusal, Infra, NonRun, AttestationAbsent
  <1>1. CASE Enter(q)
    BY <1>1 DEF Enter
  <1>2. CASE PersistPrereg(q)
    BY <1>2 DEF PersistPrereg
  <1>3. CASE ResolveDecision(q)
    BY <1>3, ResolveDoes
  <1>4. CASE CapturingSource(q)
    BY <1>4 DEF CapturingSource
  <1>5. CASE RecalFire(q)
    BY <1>5 DEF RecalFire
  <1>6. CASE RecalTransition(q)
    BY <1>6 DEF RecalTransition
  <1>7. CASE RecalPin(q)
    BY <1>7 DEF RecalPin
  <1>8. CASE RecalRatify(q)
    BY <1>8 DEF RecalRatify
  <1>9. CASE RecalReadback(q)
    BY <1>9 DEF RecalReadback
  <1>10. CASE Engine(q)
    BY <1>10, EngineDoes
  <1>11. CASE Attest(q)
    BY <1>11 DEF Attest
  <1>12. CASE AttnFire(q)
    BY <1>12 DEF AttnFire
  <1>13. CASE AttnDegrade(q)
    BY <1>13 DEF AttnDegrade
  <1>14. CASE AttnPost(q)
    BY <1>14 DEF AttnPost
  <1>15. CASE AttnSnapshot(q)
    BY <1>15 DEF AttnSnapshot
  <1>16. CASE OracleRead(q)
    BY <1>16 DEF OracleRead
  <1>17. CASE OracleFire(q)
    BY <1>17 DEF OracleFire
  <1>18. CASE StaleFire(q)
    BY <1>18 DEF StaleFire
  <1>19. CASE StaleAdd(q)
    BY <1>19 DEF StaleAdd
  <1>20. CASE StaleMoved(q)
    BY <1>20 DEF StaleMoved
  <1>21. CASE AbaFire(q)
    BY <1>21 DEF AbaFire
  <1>22. CASE AbaChange(q)
    BY <1>22 DEF AbaChange
  <1>23. CASE AbaRead(q)
    BY <1>23 DEF AbaRead
  <1>24. CASE AbaReturned(q)
    BY <1>24 DEF AbaReturned
  <1>25. CASE Check(q)
    BY <1>25, CheckDoes
  <1>26. CASE Bracket(q)
    BY <1>26, BracketDoes
  <1>27. CASE RequireDisclosure(q)
    BY <1>27 DEF RequireDisclosure
  <1>28. CASE Assemble(q)
    BY <1>28 DEF Assemble
  <1>29. CASE Release(q)
    BY <1>29 DEF Release
  <1>30. CASE Fail(q)
    BY <1>30 DEF Fail
  <1>31. CASE SchedulerRaise(q)
    BY <1>31 DEF SchedulerRaise
  <1>32. CASE Raise(q)
    BY <1>32 DEF Raise
  <1>33. CASE Kill(q)
    BY <1>33 DEF Kill
  <1>34. CASE Return(q)
    BY <1>34 DEF Return
  <1> QED
    BY <1>1, <1>2, <1>3, <1>4, <1>5, <1>6, <1>7, <1>8, <1>9, <1>10, <1>11, <1>12,
       <1>13, <1>14, <1>15, <1>16, <1>17, <1>18, <1>19, <1>20, <1>21, <1>22, <1>23,
       <1>24, <1>25, <1>26, <1>27, <1>28, <1>29, <1>30, <1>31, <1>32, <1>33,
       <1>34 DEF RunStep, Proceed, RecalStep, AttestStep, OracleStep

\* A scheduler stays armed up to the read it waits for.
LEMMA OwnFaultInv ==
    ASSUME Shape, NEW q \in Run, FaultInv(q), RunStep(q)
    PROVE  FaultInv(q)'
  <1> USE DEF Shape, Rows, TypeOK, Go, Put, stores, local, record, env, FaultInv,
              AtOracle, ArmedScenarios, RecalScenarios, AbaScenario
  <1>1. CASE Enter(q)
    BY <1>1 DEF Enter
  <1>2. CASE PersistPrereg(q)
    BY <1>2 DEF PersistPrereg
  <1>3. CASE ResolveDecision(q)
    BY <1>3, ResolveDoes
  <1>4. CASE CapturingSource(q)
    BY <1>4 DEF CapturingSource
  <1>5. CASE RecalFire(q)
    BY <1>5 DEF RecalFire
  <1>6. CASE RecalTransition(q)
    BY <1>6 DEF RecalTransition
  <1>7. CASE RecalPin(q)
    BY <1>7 DEF RecalPin
  <1>8. CASE RecalRatify(q)
    BY <1>8 DEF RecalRatify
  <1>9. CASE RecalReadback(q)
    BY <1>9 DEF RecalReadback
  <1>10. CASE Engine(q)
    BY <1>10, EngineDoes
  <1>11. CASE Attest(q)
    BY <1>11 DEF Attest
  <1>12. CASE AttnFire(q)
    BY <1>12 DEF AttnFire
  <1>13. CASE AttnDegrade(q)
    BY <1>13 DEF AttnDegrade
  <1>14. CASE AttnPost(q)
    BY <1>14 DEF AttnPost
  <1>15. CASE AttnSnapshot(q)
    BY <1>15 DEF AttnSnapshot
  <1>16. CASE OracleRead(q)
    BY <1>16 DEF OracleRead
  <1>17. CASE OracleFire(q)
    BY <1>17 DEF OracleFire
  <1>18. CASE StaleFire(q)
    BY <1>18 DEF StaleFire
  <1>19. CASE StaleAdd(q)
    BY <1>19 DEF StaleAdd
  <1>20. CASE StaleMoved(q)
    BY <1>20 DEF StaleMoved
  <1>21. CASE AbaFire(q)
    BY <1>21 DEF AbaFire
  <1>22. CASE AbaChange(q)
    BY <1>22 DEF AbaChange
  <1>23. CASE AbaRead(q)
    BY <1>23 DEF AbaRead
  <1>24. CASE AbaReturned(q)
    BY <1>24 DEF AbaReturned
  <1>25. CASE Check(q)
    BY <1>25, CheckDoes
  <1>26. CASE Bracket(q)
    BY <1>26, BracketDoes
  <1>27. CASE RequireDisclosure(q)
    BY <1>27 DEF RequireDisclosure
  <1>28. CASE Assemble(q)
    BY <1>28 DEF Assemble
  <1>29. CASE Release(q)
    BY <1>29 DEF Release
  <1>30. CASE Fail(q)
    BY <1>30 DEF Fail
  <1>31. CASE SchedulerRaise(q)
    BY <1>31 DEF SchedulerRaise
  <1>32. CASE Raise(q)
    BY <1>32 DEF Raise
  <1>33. CASE Kill(q)
    BY <1>33 DEF Kill
  <1>34. CASE Return(q)
    BY <1>34 DEF Return
  <1> QED
    BY <1>1, <1>2, <1>3, <1>4, <1>5, <1>6, <1>7, <1>8, <1>9, <1>10, <1>11, <1>12,
       <1>13, <1>14, <1>15, <1>16, <1>17, <1>18, <1>19, <1>20, <1>21, <1>22, <1>23,
       <1>24, <1>25, <1>26, <1>27, <1>28, <1>29, <1>30, <1>31, <1>32, <1>33,
       <1>34 DEF RunStep, Proceed, RecalStep, AttestStep, OracleStep

\* An injected fault shows in the generation or in the head that was read.
LEMMA OwnInjectedInv ==
    ASSUME Shape, NEW q \in Run, InjectedInv(q), SnapInv(q), FaultInv(q), FreshInv(q),
           RunStep(q)
    PROVE  InjectedInv(q)'
  <1> USE DEF Shape, Rows, TypeOK, Go, Put, stores, local, record, env, InjectedInv,
              SnapInv, FaultInv, FreshInv, SetId, AtOracle, ArmedScenarios,
              AbaScenario, OracleReturns, set_head, append
  <1>1. CASE Enter(q)
    BY <1>1 DEF Enter
  <1>2. CASE PersistPrereg(q)
    BY <1>2 DEF PersistPrereg
  <1>3. CASE ResolveDecision(q)
    BY <1>3, ResolveDoes
  <1>4. CASE CapturingSource(q)
    BY <1>4 DEF CapturingSource
  <1>5. CASE RecalFire(q)
    BY <1>5 DEF RecalFire
  <1>6. CASE RecalTransition(q)
    BY <1>6 DEF RecalTransition
  <1>7. CASE RecalPin(q)
    BY <1>7 DEF RecalPin
  <1>8. CASE RecalRatify(q)
    BY <1>8 DEF RecalRatify
  <1>9. CASE RecalReadback(q)
    BY <1>9 DEF RecalReadback
  <1>10. CASE Engine(q)
    BY <1>10, EngineDoes
  <1>11. CASE Attest(q)
    BY <1>11 DEF Attest
  <1>12. CASE AttnFire(q)
    BY <1>12 DEF AttnFire
  <1>13. CASE AttnDegrade(q)
    BY <1>13 DEF AttnDegrade
  <1>14. CASE AttnPost(q)
    BY <1>14 DEF AttnPost
  <1>15. CASE AttnSnapshot(q)
    BY <1>15 DEF AttnSnapshot
  <1>16. CASE OracleRead(q)
    BY <1>16 DEF OracleRead
  <1>17. CASE OracleFire(q)
    BY <1>17 DEF OracleFire
  <1>18. CASE StaleFire(q)
    BY <1>18 DEF StaleFire
  <1>19. CASE StaleAdd(q)
    BY <1>19 DEF StaleAdd
  <1>20. CASE StaleMoved(q)
    BY <1>20 DEF StaleMoved
  <1>21. CASE AbaFire(q)
    BY <1>21 DEF AbaFire
  <1>22. CASE AbaChange(q)
    <2>1. CASE Go(q, "aba_add", "aba_moved") /\ UNCHANGED policy
      BY <1>22, <2>1 DEF AbaChange
    <2>2. CASE Go(q, "aba_degrade", "aba_post") /\ transition("DEGRADED")
      BY <1>22, <2>2, TransitionMoves DEF AbaChange
    <2>3. CASE Go(q, "aba_deprecate", "aba_returned") /\ UNCHANGED policy
      BY <1>22, <2>3 DEF AbaChange
    <2> QED
      BY <1>22, <2>1, <2>2, <2>3 DEF AbaChange
  <1>23. CASE AbaRead(q)
    BY <1>23 DEF AbaRead
  <1>24. CASE AbaReturned(q)
    BY <1>24 DEF AbaReturned
  <1>25. CASE Check(q)
    BY <1>25, CheckDoes
  <1>26. CASE Bracket(q)
    BY <1>26, BracketDoes
  <1>27. CASE RequireDisclosure(q)
    BY <1>27 DEF RequireDisclosure
  <1>28. CASE Assemble(q)
    BY <1>28 DEF Assemble
  <1>29. CASE Release(q)
    BY <1>29 DEF Release
  <1>30. CASE Fail(q)
    BY <1>30 DEF Fail
  <1>31. CASE SchedulerRaise(q)
    BY <1>31 DEF SchedulerRaise
  <1>32. CASE Raise(q)
    BY <1>32 DEF Raise
  <1>33. CASE Kill(q)
    BY <1>33 DEF Kill
  <1>34. CASE Return(q)
    BY <1>34 DEF Return
  <1> QED
    BY <1>1, <1>2, <1>3, <1>4, <1>5, <1>6, <1>7, <1>8, <1>9, <1>10, <1>11, <1>12,
       <1>13, <1>14, <1>15, <1>16, <1>17, <1>18, <1>19, <1>20, <1>21, <1>22, <1>23,
       <1>24, <1>25, <1>26, <1>27, <1>28, <1>29, <1>30, <1>31, <1>32, <1>33,
       <1>34 DEF RunStep, Proceed, RecalStep, AttestStep, OracleStep

\* No plan holds the fixture that its run adds later.
LEMMA OwnFreshInv ==
    ASSUME Shape, NEW q \in Run, FreshInv(q), RunStep(q)
    PROVE  FreshInv(q)'
  <1> USE DEF Shape, Rows, TypeOK, Go, Put, stores, local, record, env, FreshInv,
              Fresh, SetId
  <1>1. CASE Enter(q)
    BY <1>1 DEF Enter
  <1>2. CASE PersistPrereg(q)
    BY <1>2 DEF PersistPrereg
  <1>3. CASE ResolveDecision(q)
    BY <1>3 DEF ResolveDecision
  <1>4. CASE CapturingSource(q)
    BY <1>4 DEF CapturingSource
  <1>5. CASE RecalFire(q)
    BY <1>5 DEF RecalFire
  <1>6. CASE RecalTransition(q)
    BY <1>6 DEF RecalTransition
  <1>7. CASE RecalPin(q)
    BY <1>7 DEF RecalPin
  <1>8. CASE RecalRatify(q)
    BY <1>8 DEF RecalRatify
  <1>9. CASE RecalReadback(q)
    BY <1>9 DEF RecalReadback
  <1>10. CASE Engine(q)
    BY <1>10, EngineDoes
  <1>11. CASE Attest(q)
    BY <1>11 DEF Attest
  <1>12. CASE AttnFire(q)
    BY <1>12 DEF AttnFire
  <1>13. CASE AttnDegrade(q)
    BY <1>13 DEF AttnDegrade
  <1>14. CASE AttnPost(q)
    BY <1>14 DEF AttnPost
  <1>15. CASE AttnSnapshot(q)
    BY <1>15 DEF AttnSnapshot
  <1>16. CASE OracleRead(q)
    BY <1>16 DEF OracleRead
  <1>17. CASE OracleFire(q)
    BY <1>17 DEF OracleFire
  <1>18. CASE StaleFire(q)
    BY <1>18 DEF StaleFire
  <1>19. CASE StaleAdd(q)
    BY <1>19 DEF StaleAdd
  <1>20. CASE StaleMoved(q)
    BY <1>20 DEF StaleMoved
  <1>21. CASE AbaFire(q)
    BY <1>21 DEF AbaFire
  <1>22. CASE AbaChange(q)
    BY <1>22 DEF AbaChange
  <1>23. CASE AbaRead(q)
    BY <1>23 DEF AbaRead
  <1>24. CASE AbaReturned(q)
    BY <1>24 DEF AbaReturned
  <1>25. CASE Check(q)
    BY <1>25, CheckDoes
  <1>26. CASE Bracket(q)
    BY <1>26 DEF Bracket
  <1>27. CASE RequireDisclosure(q)
    BY <1>27 DEF RequireDisclosure
  <1>28. CASE Assemble(q)
    BY <1>28 DEF Assemble
  <1>29. CASE Release(q)
    BY <1>29 DEF Release
  <1>30. CASE Fail(q)
    BY <1>30 DEF Fail
  <1>31. CASE SchedulerRaise(q)
    BY <1>31 DEF SchedulerRaise
  <1>32. CASE Raise(q)
    BY <1>32 DEF Raise
  <1>33. CASE Kill(q)
    BY <1>33 DEF Kill
  <1>34. CASE Return(q)
    BY <1>34 DEF Return
  <1> QED
    BY <1>1, <1>2, <1>3, <1>4, <1>5, <1>6, <1>7, <1>8, <1>9, <1>10, <1>11, <1>12,
       <1>13, <1>14, <1>15, <1>16, <1>17, <1>18, <1>19, <1>20, <1>21, <1>22, <1>23,
       <1>24, <1>25, <1>26, <1>27, <1>28, <1>29, <1>30, <1>31, <1>32, <1>33,
       <1>34 DEF RunStep, Proceed, RecalStep, AttestStep, OracleStep

\* A fault that shows is refused by the comparison or by the bracket.
LEMMA OwnRefusedInv ==
    ASSUME Shape, NEW q \in Run, RefusedInv(q), InjectedInv(q), FaultInv(q),
           OracleInv(q), FreshInv(q), SnapInv(q), RunStep(q)
    PROVE  RefusedInv(q)'
  <1> USE DEF Shape, Rows, TypeOK, Go, Put, stores, local, record, env, RefusedInv,
              InjectedInv, FaultInv, OracleInv, FreshInv, SnapInv, Judged,
              ArmedScenarios, AtOracle, Refusal, Infra, NonRun, AttestationAbsent
  <1>1. CASE Enter(q)
    BY <1>1 DEF Enter
  <1>2. CASE PersistPrereg(q)
    BY <1>2 DEF PersistPrereg
  <1>3. CASE ResolveDecision(q)
    BY <1>3, ResolveDoes
  <1>4. CASE CapturingSource(q)
    BY <1>4 DEF CapturingSource
  <1>5. CASE RecalFire(q)
    BY <1>5 DEF RecalFire
  <1>6. CASE RecalTransition(q)
    BY <1>6 DEF RecalTransition
  <1>7. CASE RecalPin(q)
    BY <1>7 DEF RecalPin
  <1>8. CASE RecalRatify(q)
    BY <1>8 DEF RecalRatify
  <1>9. CASE RecalReadback(q)
    BY <1>9 DEF RecalReadback
  <1>10. CASE Engine(q)
    BY <1>10, EngineDoes
  <1>11. CASE Attest(q)
    BY <1>11 DEF Attest
  <1>12. CASE AttnFire(q)
    BY <1>12 DEF AttnFire
  <1>13. CASE AttnDegrade(q)
    BY <1>13 DEF AttnDegrade
  <1>14. CASE AttnPost(q)
    BY <1>14 DEF AttnPost
  <1>15. CASE AttnSnapshot(q)
    BY <1>15 DEF AttnSnapshot
  <1>16. CASE OracleRead(q)
    BY <1>16 DEF OracleRead
  <1>17. CASE OracleFire(q)
    BY <1>17 DEF OracleFire
  <1>18. CASE StaleFire(q)
    BY <1>18 DEF StaleFire
  <1>19. CASE StaleAdd(q)
    BY <1>19 DEF StaleAdd
  <1>20. CASE StaleMoved(q)
    BY <1>20 DEF StaleMoved
  <1>21. CASE AbaFire(q)
    BY <1>21 DEF AbaFire
  <1>22. CASE AbaChange(q)
    BY <1>22 DEF AbaChange
  <1>23. CASE AbaRead(q)
    BY <1>23 DEF AbaRead
  <1>24. CASE AbaReturned(q)
    BY <1>24 DEF AbaReturned
  <1>25. CASE Check(q)
    BY <1>25, CheckDoes
  <1>26. CASE Bracket(q)
    BY <1>26, BracketDoes
  <1>27. CASE RequireDisclosure(q)
    BY <1>27 DEF RequireDisclosure
  <1>28. CASE Assemble(q)
    BY <1>28 DEF Assemble
  <1>29. CASE Release(q)
    BY <1>29 DEF Release
  <1>30. CASE Fail(q)
    BY <1>30 DEF Fail
  <1>31. CASE SchedulerRaise(q)
    BY <1>31 DEF SchedulerRaise
  <1>32. CASE Raise(q)
    BY <1>32 DEF Raise
  <1>33. CASE Kill(q)
    BY <1>33 DEF Kill
  <1>34. CASE Return(q)
    BY <1>34 DEF Return
  <1> QED
    BY <1>1, <1>2, <1>3, <1>4, <1>5, <1>6, <1>7, <1>8, <1>9, <1>10, <1>11, <1>12,
       <1>13, <1>14, <1>15, <1>16, <1>17, <1>18, <1>19, <1>20, <1>21, <1>22, <1>23,
       <1>24, <1>25, <1>26, <1>27, <1>28, <1>29, <1>30, <1>31, <1>32, <1>33,
       <1>34 DEF RunStep, Proceed, RecalStep, AttestStep, OracleStep

\* Every way to a result makes one the schema knows, the source captured first.
LEMMA OwnResultInv ==
    ASSUME Shape, NEW q \in Run, ResultInv(q), RunStep(q)
    PROVE  ResultInv(q)'
  <1> USE DEF Shape, Rows, TypeOK, Go, Put, stores, local, record, env, ResultInv,
              ValidResult, AtOracle, Refusal, Infra, AttestationAbsent
  <1>1. CASE Enter(q)
    BY <1>1 DEF Enter
  <1>2. CASE PersistPrereg(q)
    BY <1>2 DEF PersistPrereg
  <1>3. CASE ResolveDecision(q)
    BY <1>3, ResolveDoes
  <1>4. CASE CapturingSource(q)
    BY <1>4 DEF CapturingSource
  <1>5. CASE RecalFire(q)
    BY <1>5 DEF RecalFire
  <1>6. CASE RecalTransition(q)
    BY <1>6 DEF RecalTransition
  <1>7. CASE RecalPin(q)
    BY <1>7 DEF RecalPin
  <1>8. CASE RecalRatify(q)
    BY <1>8 DEF RecalRatify
  <1>9. CASE RecalReadback(q)
    BY <1>9 DEF RecalReadback
  <1>10. CASE Engine(q)
    BY <1>10, EngineDoes
  <1>11. CASE Attest(q)
    BY <1>11 DEF Attest
  <1>12. CASE AttnFire(q)
    BY <1>12 DEF AttnFire
  <1>13. CASE AttnDegrade(q)
    BY <1>13 DEF AttnDegrade
  <1>14. CASE AttnPost(q)
    BY <1>14 DEF AttnPost
  <1>15. CASE AttnSnapshot(q)
    BY <1>15 DEF AttnSnapshot
  <1>16. CASE OracleRead(q)
    BY <1>16 DEF OracleRead
  <1>17. CASE OracleFire(q)
    BY <1>17 DEF OracleFire
  <1>18. CASE StaleFire(q)
    BY <1>18 DEF StaleFire
  <1>19. CASE StaleAdd(q)
    BY <1>19 DEF StaleAdd
  <1>20. CASE StaleMoved(q)
    BY <1>20 DEF StaleMoved
  <1>21. CASE AbaFire(q)
    BY <1>21 DEF AbaFire
  <1>22. CASE AbaChange(q)
    BY <1>22 DEF AbaChange
  <1>23. CASE AbaRead(q)
    BY <1>23 DEF AbaRead
  <1>24. CASE AbaReturned(q)
    BY <1>24 DEF AbaReturned
  <1>25. CASE Check(q)
    BY <1>25, CheckDoes
  <1>26. CASE Bracket(q)
    BY <1>26, BracketDoes
  <1>27. CASE RequireDisclosure(q)
    BY <1>27 DEF RequireDisclosure
  <1>28. CASE Assemble(q)
    BY <1>28 DEF Assemble
  <1>29. CASE Release(q)
    BY <1>29 DEF Release
  <1>30. CASE Fail(q)
    BY <1>30 DEF Fail
  <1>31. CASE SchedulerRaise(q)
    BY <1>31 DEF SchedulerRaise
  <1>32. CASE Raise(q)
    BY <1>32 DEF Raise
  <1>33. CASE Kill(q)
    BY <1>33 DEF Kill
  <1>34. CASE Return(q)
    BY <1>34 DEF Return
  <1> QED
    BY <1>1, <1>2, <1>3, <1>4, <1>5, <1>6, <1>7, <1>8, <1>9, <1>10, <1>11, <1>12,
       <1>13, <1>14, <1>15, <1>16, <1>17, <1>18, <1>19, <1>20, <1>21, <1>22, <1>23,
       <1>24, <1>25, <1>26, <1>27, <1>28, <1>29, <1>30, <1>31, <1>32, <1>33,
       <1>34 DEF RunStep, Proceed, RecalStep, AttestStep, OracleStep

\* Injecting, a run's calls are in order, and completing ends a whole injection.
LEMMA OwnDoneInv ==
    ASSUME Shape, NEW q \in Run, DoneInv(q), FaultInv(q), InjectedInv(q), FreshInv(q),
           RunStep(q)
    PROVE  DoneInv(q)'
  <1> USE DEF Shape, Rows, TypeOK, Go, Put, stores, local, record, env, DoneInv,
              TookPlace, FaultInv, InjectedInv, FreshInv, Fresh, SetId, AtOracle,
              ArmedScenarios, RecalScenarios, AbaScenario, set_head, append, deprecate
  <1>1. CASE Enter(q)
    BY <1>1 DEF Enter
  <1>2. CASE PersistPrereg(q)
    BY <1>2 DEF PersistPrereg
  <1>3. CASE ResolveDecision(q)
    BY <1>3, ResolveDoes
  <1>4. CASE CapturingSource(q)
    BY <1>4 DEF CapturingSource
  <1>5. CASE RecalFire(q)
    <2>1. \A s \in SetId : q \in members'[s] <=> q \in members[s]
      BY <1>5, RunAssumption DEF RecalFire
    <2> QED
      BY <1>5, <2>1 DEF RecalFire
  <1>6. CASE RecalTransition(q)
    <2>1. policy'.generation = policy.generation + 1
      BY <1>6, TransitionMoves DEF RecalTransition
    <2> QED
      BY <1>6, <2>1 DEF RecalTransition
  <1>7. CASE RecalPin(q)
    BY <1>7 DEF RecalPin
  <1>8. CASE RecalRatify(q)
    BY <1>8 DEF RecalRatify
  <1>9. CASE RecalReadback(q)
    BY <1>9 DEF RecalReadback
  <1>10. CASE Engine(q)
    BY <1>10, EngineDoes
  <1>11. CASE Attest(q)
    BY <1>11 DEF Attest
  <1>12. CASE AttnFire(q)
    BY <1>12 DEF AttnFire
  <1>13. CASE AttnDegrade(q)
    <2>1. policy'.generation = policy.generation + 1
      BY <1>13, TransitionMoves DEF AttnDegrade
    <2> QED
      BY <1>13, <2>1 DEF AttnDegrade
  <1>14. CASE AttnPost(q)
    BY <1>14 DEF AttnPost
  <1>15. CASE AttnSnapshot(q)
    BY <1>15 DEF AttnSnapshot
  <1>16. CASE OracleRead(q)
    BY <1>16 DEF OracleRead
  <1>17. CASE OracleFire(q)
    BY <1>17 DEF OracleFire
  <1>18. CASE StaleFire(q)
    BY <1>18 DEF StaleFire
  <1>19. CASE StaleAdd(q)
    BY <1>19 DEF StaleAdd
  <1>20. CASE StaleMoved(q)
    BY <1>20 DEF StaleMoved
  <1>21. CASE AbaFire(q)
    BY <1>21 DEF AbaFire
  <1>22. CASE AbaChange(q)
    <2>1. CASE Go(q, "aba_add", "aba_moved") /\ UNCHANGED policy
      BY <1>22, <2>1 DEF AbaChange
    <2>2. CASE Go(q, "aba_degrade", "aba_post") /\ UNCHANGED members
      BY <1>22, <2>2 DEF AbaChange
    <2>3. CASE Go(q, "aba_deprecate", "aba_returned") /\ UNCHANGED policy
               /\ deprecate(plan[q].set, q)
      BY <1>22, <2>3 DEF AbaChange
    <2> QED
      BY <1>22, <2>1, <2>2, <2>3, Zenon DEF AbaChange
  <1>23. CASE AbaRead(q)
    BY <1>23 DEF AbaRead
  <1>24. CASE AbaReturned(q)
    BY <1>24 DEF AbaReturned
  <1>25. CASE Check(q)
    BY <1>25, CheckDoes
  <1>26. CASE Bracket(q)
    BY <1>26, BracketDoes
  <1>27. CASE RequireDisclosure(q)
    BY <1>27 DEF RequireDisclosure
  <1>28. CASE Assemble(q)
    BY <1>28 DEF Assemble
  <1>29. CASE Release(q)
    BY <1>29 DEF Release
  <1>30. CASE Fail(q)
    BY <1>30 DEF Fail
  <1>31. CASE SchedulerRaise(q)
    BY <1>31 DEF SchedulerRaise
  <1>32. CASE Raise(q)
    BY <1>32 DEF Raise
  <1>33. CASE Kill(q)
    BY <1>33 DEF Kill
  <1>34. CASE Return(q)
    BY <1>34 DEF Return
  <1> QED
    BY <1>1, <1>2, <1>3, <1>4, <1>5, <1>6, <1>7, <1>8, <1>9, <1>10, <1>11, <1>12,
       <1>13, <1>14, <1>15, <1>16, <1>17, <1>18, <1>19, <1>20, <1>21, <1>22, <1>23,
       <1>24, <1>25, <1>26, <1>27, <1>28, <1>29, <1>30, <1>31, <1>32, <1>33,
       <1>34 DEF RunStep, Proceed, RecalStep, AttestStep, OracleStep

\* Nothing that was signed changes after, and only a completed fault is signed.
LEMMA OwnSignedInv ==
    ASSUME Shape, NEW q \in Run, SignedInv(q), RunStep(q)
    PROVE  SignedInv(q)'
  <1> USE DEF Shape, Rows, TypeOK, Go, Put, stores, local, record, env, SignedInv,
              Signed
  <1>1. CASE Enter(q)
    BY <1>1 DEF Enter
  <1>2. CASE PersistPrereg(q)
    BY <1>2 DEF PersistPrereg
  <1>3. CASE ResolveDecision(q)
    BY <1>3, ResolveDoes
  <1>4. CASE CapturingSource(q)
    BY <1>4 DEF CapturingSource
  <1>5. CASE RecalFire(q)
    BY <1>5 DEF RecalFire
  <1>6. CASE RecalTransition(q)
    BY <1>6 DEF RecalTransition
  <1>7. CASE RecalPin(q)
    BY <1>7 DEF RecalPin
  <1>8. CASE RecalRatify(q)
    BY <1>8 DEF RecalRatify
  <1>9. CASE RecalReadback(q)
    BY <1>9 DEF RecalReadback
  <1>10. CASE Engine(q)
    BY <1>10, EngineDoes
  <1>11. CASE Attest(q)
    BY <1>11 DEF Attest
  <1>12. CASE AttnFire(q)
    BY <1>12 DEF AttnFire
  <1>13. CASE AttnDegrade(q)
    BY <1>13 DEF AttnDegrade
  <1>14. CASE AttnPost(q)
    BY <1>14 DEF AttnPost
  <1>15. CASE AttnSnapshot(q)
    BY <1>15 DEF AttnSnapshot
  <1>16. CASE OracleRead(q)
    BY <1>16 DEF OracleRead
  <1>17. CASE OracleFire(q)
    BY <1>17 DEF OracleFire
  <1>18. CASE StaleFire(q)
    BY <1>18 DEF StaleFire
  <1>19. CASE StaleAdd(q)
    BY <1>19 DEF StaleAdd
  <1>20. CASE StaleMoved(q)
    BY <1>20 DEF StaleMoved
  <1>21. CASE AbaFire(q)
    BY <1>21 DEF AbaFire
  <1>22. CASE AbaChange(q)
    BY <1>22 DEF AbaChange
  <1>23. CASE AbaRead(q)
    BY <1>23 DEF AbaRead
  <1>24. CASE AbaReturned(q)
    BY <1>24 DEF AbaReturned
  <1>25. CASE Check(q)
    BY <1>25, CheckDoes
  <1>26. CASE Bracket(q)
    BY <1>26, BracketDoes
  <1>27. CASE RequireDisclosure(q)
    BY <1>27 DEF RequireDisclosure
  <1>28. CASE Assemble(q)
    <2>1. Execution(q)' = Execution(q)
      BY <1>28, OwnReceipts DEF Assemble
    <2>2. pc[q] = "assemble" /\ sched' = sched /\ scenario' = scenario
          /\ \/ pc'[q] = "release" /\ execution'[q] = Execution(q)
             \/ pc'[q] = "failing" /\ execution' = execution
      <3>1. CASE CanAssemble(q)
        BY <1>28, <3>1 DEF Assemble
      <3>2. CASE ~CanAssemble(q)
        BY <1>28, <3>2 DEF Assemble
      <3> QED
        BY <3>1, <3>2
    <2> QED
      BY <2>1, <2>2
  <1>29. CASE Release(q)
    <2>1. Execution(q)' = Execution(q)
      BY <1>29, OwnReceipts DEF Release
    <2> QED
      BY <1>29, <2>1 DEF Release
  <1>30. CASE Fail(q)
    <2>1. Execution(q)' = Execution(q)
      BY <1>30, OwnReceipts DEF Fail
    <2> QED
      BY <1>30, <2>1 DEF Fail
  <1>31. CASE SchedulerRaise(q)
    BY <1>31 DEF SchedulerRaise
  <1>32. CASE Raise(q)
    <2>1. Execution(q)' = Execution(q)
      BY <1>32, OwnReceipts DEF Raise
    <2> QED
      BY <1>32, <2>1 DEF Raise
  <1>33. CASE Kill(q)
    <2>1. Execution(q)' = Execution(q)
      BY <1>33, OwnReceipts DEF Kill
    <2> QED
      BY <1>33, <2>1 DEF Kill
  <1>34. CASE Return(q)
    <2>1. Execution(q)' = Execution(q)
      BY <1>34, OwnReceipts DEF Return
    <2> QED
      BY <1>34, <2>1 DEF Return
  <1> QED
    BY <1>1, <1>2, <1>3, <1>4, <1>5, <1>6, <1>7, <1>8, <1>9, <1>10, <1>11, <1>12,
       <1>13, <1>14, <1>15, <1>16, <1>17, <1>18, <1>19, <1>20, <1>21, <1>22, <1>23,
       <1>24, <1>25, <1>26, <1>27, <1>28, <1>29, <1>30, <1>31, <1>32, <1>33,
       <1>34 DEF RunStep, Proceed, RecalStep, AttestStep, OracleStep

\* The reads of an ABA bind its heads to the oracle read and its generations.
LEMMA OwnGenuineInv ==
    ASSUME Shape, NEW q \in Run, GenuineInv(q), InjectedInv(q), OracleInv(q),
           FaultInv(q), SnapInv(q), RunStep(q)
    PROVE  GenuineInv(q)'
  <1> USE DEF Shape, Rows, TypeOK, Go, Put, stores, local, record, env, GenuineInv,
              Genuine, InjectedInv, OracleInv, FaultInv, SnapInv, AbaScenario,
              OracleReturns, ValidAbaInjection, Refusal, Infra, AttestationAbsent
  <1>1. CASE Enter(q)
    BY <1>1 DEF Enter
  <1>2. CASE PersistPrereg(q)
    BY <1>2 DEF PersistPrereg
  <1>3. CASE ResolveDecision(q)
    BY <1>3, ResolveDoes
  <1>4. CASE CapturingSource(q)
    BY <1>4 DEF CapturingSource
  <1>5. CASE RecalFire(q)
    BY <1>5 DEF RecalFire
  <1>6. CASE RecalTransition(q)
    BY <1>6 DEF RecalTransition
  <1>7. CASE RecalPin(q)
    BY <1>7 DEF RecalPin
  <1>8. CASE RecalRatify(q)
    BY <1>8 DEF RecalRatify
  <1>9. CASE RecalReadback(q)
    BY <1>9 DEF RecalReadback
  <1>10. CASE Engine(q)
    BY <1>10, EngineDoes
  <1>11. CASE Attest(q)
    BY <1>11 DEF Attest
  <1>12. CASE AttnFire(q)
    BY <1>12 DEF AttnFire
  <1>13. CASE AttnDegrade(q)
    BY <1>13 DEF AttnDegrade
  <1>14. CASE AttnPost(q)
    BY <1>14 DEF AttnPost
  <1>15. CASE AttnSnapshot(q)
    BY <1>15 DEF AttnSnapshot
  <1>16. CASE OracleRead(q)
    BY <1>16 DEF OracleRead, AtOracle, ArmedScenarios
  <1>17. CASE OracleFire(q)
    BY <1>17 DEF OracleFire
  <1>18. CASE StaleFire(q)
    BY <1>18 DEF StaleFire
  <1>19. CASE StaleAdd(q)
    BY <1>19 DEF StaleAdd
  <1>20. CASE StaleMoved(q)
    BY <1>20 DEF StaleMoved
  <1>21. CASE AbaFire(q)
    BY <1>21 DEF AbaFire
  <1>22. CASE AbaChange(q)
    BY <1>22 DEF AbaChange
  <1>23. CASE AbaRead(q)
    BY <1>23 DEF AbaRead
  <1>24. CASE AbaReturned(q)
    <2>1. fault'[q] = [fault[q] EXCEPT !.head_returned = set_head(plan[q].set)]
          /\ oracle'[q].head = fault'[q].head_returned
          /\ fault'[q].head_bound = fault'[q].head_returned
      <3> DEFINE f == [fault[q] EXCEPT !.head_returned = set_head(plan[q].set)]
      <3>1. Put(fault, q, f) /\ OracleReturns(q, f.head_returned)
            /\ f.head_bound = f.head_returned
        BY <1>24 DEF AbaReturned
      <3> HIDE DEF f
      <3>2. fault'[q] = f /\ oracle'[q].head = f.head_returned
        BY <3>1
      <3> QED
        BY <3>1, <3>2 DEF f
    <2>2. fault'[q].policy_head_post = fault[q].policy_head_post
          /\ fault'[q].head_bound = oracle'[q].head
      BY <2>1
    <2> QED
      BY <1>24, <2>2 DEF AbaReturned
  <1>25. CASE Check(q)
    BY <1>25, CheckDoes
  <1>26. CASE Bracket(q)
    BY <1>26, BracketDoes
  <1>27. CASE RequireDisclosure(q)
    BY <1>27 DEF RequireDisclosure
  <1>28. CASE Assemble(q)
    BY <1>28 DEF Assemble
  <1>29. CASE Release(q)
    BY <1>29 DEF Release
  <1>30. CASE Fail(q)
    BY <1>30 DEF Fail
  <1>31. CASE SchedulerRaise(q)
    BY <1>31 DEF SchedulerRaise
  <1>32. CASE Raise(q)
    BY <1>32 DEF Raise
  <1>33. CASE Kill(q)
    BY <1>33 DEF Kill
  <1>34. CASE Return(q)
    BY <1>34 DEF Return
  <1> QED
    BY <1>1, <1>2, <1>3, <1>4, <1>5, <1>6, <1>7, <1>8, <1>9, <1>10, <1>11, <1>12,
       <1>13, <1>14, <1>15, <1>16, <1>17, <1>18, <1>19, <1>20, <1>21, <1>22, <1>23,
       <1>24, <1>25, <1>26, <1>27, <1>28, <1>29, <1>30, <1>31, <1>32, <1>33,
       <1>34 DEF RunStep, Proceed, RecalStep, AttestStep, OracleStep

-----------------------------------------------------------------------------
(* The invariant                                                           *)

\* A run's step keeps the parts of the run.
LEMMA OwnKeeps ==
    ASSUME Shape, NEW q \in Run, RunInv(q), RunStep(q)
    PROVE  RunInv(q)'
  <1> USE DEF RunInv
  <1> QED
    BY OwnRowInv, OwnSnapInv, OwnOracleInv, OwnCurrentInv, OwnFaultInv, OwnInjectedInv,
       OwnFreshInv, OwnRefusedInv, OwnResultInv, OwnDoneInv, OwnSignedInv, OwnGenuineInv

\* Operators change the stores, the policy by new generations, and the sets by
\* fixtures of their own.
LEMMA OperateKeeps ==
    ASSUME IInv, Operate
    PROVE  IInv'
  <1> USE RunAssumption
  <1>0. UNCHANGED <<scenario, pc, row, sched, fault, plan, tree_hash, snap, oracle,
                    result, execution>>
    BY DEF Operate, local, record
  <1>1. (\A r \in Run : SameRun(r)) /\ ops' \in Nat /\ quiet' \in BOOLEAN
    <2>1. \A r \in Run : SameRun(r)
      BY <1>0 DEF SameRun
    <2>2. ops \in Nat /\ ops > 0 /\ ops' = ops - 1 /\ quiet' = FALSE
      BY DEF IInv, Shape, TypeOK, Operate
    <2>3. ops' \in Nat
      BY <2>2
    <2>4. quiet' \in BOOLEAN
      BY <2>2
    <2> QED
      BY <2>1, <2>3, <2>4
  <1> USE DEF IInv, Shape, Rows, TypeOK, PolicyMoves, FixturesStay, Fresh
  <1>2. PolicyMoves /\ Shape' /\ \A r \in Run : FixturesStay(r)
    <2>1. CASE \E s \in {"DEGRADED", "ADVISORY"} : transition(s) /\ UNCHANGED members
      <3>1. PICK s : transition(s) /\ UNCHANGED members
        BY <2>1
      <3> QED
        BY <1>0, <1>1, <3>1, TransitionMoves
    <2>2. CASE \E s \in SetId, image \in Image :
                 /\ policy' = [state |-> "ENABLED", set |-> s, head |-> set_head(s),
                               subject |-> image,
                               generation |-> policy.generation + 4]
                 /\ UNCHANGED members
      <3>1. PICK s \in SetId, image \in Image :
              /\ policy' = [state |-> "ENABLED", set |-> s, head |-> set_head(s),
                            subject |-> image, generation |-> policy.generation + 4]
              /\ UNCHANGED members
        BY <2>2
      <3>2. PolicyMoves /\ Shape'
        BY <1>0, <1>1, <3>1
      <3> QED
        BY <1>0, <3>1, <3>2 DEF set_head
    <2>3. CASE /\ UNCHANGED policy
               /\ \E f \in {"base", "extra"} :
                    append("set1", f) \/ deprecate("set1", f)
      <3>1. PICK f \in {"base", "extra"} : append("set1", f) \/ deprecate("set1", f)
        BY <2>3
      <3>2. members' \in [SetId -> SUBSET ({"base", "extra", "second"} \cup Run)]
        BY <3>1, AppendTyped, SMTT(60) DEF deprecate
      <3>3. Shape'
        BY <1>0, <1>1, <2>3, <3>2
      <3>4. \A r \in Run : \A s \in SetId : r \in members'[s] <=> r \in members[s]
        BY <3>1 DEF append, deprecate
      <3> QED
        BY <1>0, <2>3, <3>3, <3>4
    <2> QED
      BY <2>1, <2>2, <2>3 DEF Operate
  <1>3. ASSUME NEW r \in Run PROVE RunInv(r)'
    <2> HIDE DEF Shape, Rows, TypeOK, PolicyMoves, FixturesStay, Fresh
    <2> QED
      BY <1>1, <1>2, OtherKeeps DEF IInv
  <1> QED
    BY <1>2, <1>3

\* A stutter keeps the invariant.
LEMMA StutterKeeps ==
    ASSUME IInv, UNCHANGED vars
    PROVE  IInv'
  <1>1. Shape'
    BY DEF IInv, Shape, Rows, TypeOK, vars, stores, env, local, record
  <1>2. PolicyMoves /\ \A r \in Run : SameRun(r) /\ FixturesStay(r)
    BY DEF PolicyMoves, SameRun, FixturesStay, Fresh, vars, stores, env, local, record
  <1>3. \A r \in Run : RunInv(r)'
    BY <1>2, OtherKeeps DEF IInv
  <1> QED
    BY <1>1, <1>3 DEF IInv

\* The seeded policy and runs that have not entered satisfy the invariant.
LEMMA InitIInv == Init => IInv
  <1> SUFFICES ASSUME Init PROVE IInv
    OBVIOUS
  <1> USE RunAssumption, CastsAssumption DEF Init
  <1>1. PICK c \in Casts : scenario = c.scenario /\ ops = c.ops
    OBVIOUS
  <1>2. PICK s \in {"ENABLED", "DEGRADED"} :
          policy = [state |-> s, set |-> "set1", head |-> {"base"}, subject |-> "img1",
                    generation |-> IF s = "ENABLED" THEN 0 ELSE 1]
    OBVIOUS
  <1>3. TypeOK
    BY <1>1, <1>2 DEF TypeOK, SetId, Image
  <1>4. Rows
    BY <1>2 DEF Rows, NoFault
  <1>5. ASSUME NEW r \in Run PROVE RunInv(r)
    <2>1. pc[r] = "entry" /\ row[r] = "absent" /\ sched[r] = "disarmed"
      OBVIOUS
    <2>2. FreshInv(r)
      BY <1>2 DEF FreshInv, Fresh, NoFault, NoPlan, SetId
    <2> QED
      BY <2>1, <2>2 DEF RunInv, RowInv, SnapInv, OracleInv, CurrentInv, FaultInv,
                        InjectedInv, RefusedInv, Judged, ResultInv, DoneInv, SignedInv,
                        Signed, GenuineInv, NoResult, None
  <1> QED
    BY <1>3, <1>4, <1>5 DEF IInv, Shape

\* Every step keeps it: of operators, of the run that steps, of the others.
LEMMA NextIInv == IInv /\ [Next]_vars => IInv'
  <1> SUFFICES ASSUME IInv, [Next]_vars PROVE IInv'
    OBVIOUS
  <1>1. CASE Operate
    BY <1>1, OperateKeeps
  <1>2. ASSUME NEW q \in Run, RunStep(q) PROVE IInv'
    <2>1. Shape /\ \A r \in Run : RunInv(r)
      BY DEF IInv
    <2>2. Shape'
      BY <1>2, <2>1, RunKeepsShape
    <2>3. RunInv(q)'
      BY <1>2, <2>1, OwnKeeps
    <2>4. ASSUME NEW r \in Run \ {q} PROVE RunInv(r)'
      <3>1. FreshInv(q)
        BY <2>1 DEF RunInv
      <3> QED
        BY <1>2, <2>1, <3>1, OthersSame, RunMovesPolicy, RunMovesFixtures, OtherKeeps
    <2> QED
      BY <2>2, <2>3, <2>4 DEF IInv
  <1>3. CASE UNCHANGED vars
    BY <1>3, StutterKeeps
  <1> QED
    BY <1>1, <1>2, <1>3 DEF Next, RunStep

\* So it always holds.
LEMMA Invariance == Spec => []IInv
  BY InitIInv, NextIInv, PTL DEF Spec

-----------------------------------------------------------------------------
(* What a reader should know                                               *)

\* Every store and every run of enforce() keeps its type.
THEOREM TypeCorrect == Spec => []TypeOK
  <1>1. IInv => TypeOK
    BY DEF IInv, Shape
  <1> QED
    BY <1>1, Invariance, PTL

\* A run that the gate admits was authorized at the instant of its oracle read,
\* for any number of runs and operator changes: the generation bracket closes the
\* window between the snapshot, the head comparison and the verdict.
THEOREM AdmittedCurrent == Spec => []AdmittedWasCurrent
  <1>1. IInv => AdmittedWasCurrent
    BY DEF IInv, RunInv, CurrentInv, AdmittedWasCurrent
  <1> QED
    BY <1>1, Invariance, PTL

\* A fault that a scheduler injected at an admission read is never admitted,
\* whatever other runs and operators do around it.
THEOREM FaultRefused == Spec => []FaultNeverAdmitted
  <1>1. IInv => FaultNeverAdmitted
    BY DEF IInv, RunInv, RefusedInv, FaultNeverAdmitted
  <1> QED
    BY <1>1, Invariance, PTL

\* A COMPLETED row is that of a run whose signed chain verifies, across failures,
\* kills (one between COMMIT and return among them) and a registry that refuses;
\* and a chain that enforce() returned has its row COMPLETED.
THEOREM CompletedVerified == Spec => []CompletedMeansVerified
  <1>1. ASSUME IInv, NEW r \in Run, row[r] = "completed"
        PROVE  /\ Signed(r)
               /\ verify_integrity(Prereg(r), execution[r], Teardown(r), Index(r),
                                   "key")
    <2>1. execution[r] = Execution(r) /\ CanAssemble(r)
      BY <1>1 DEF IInv, RunInv, RowInv
    <2>2. Execution(r).kind = "execution"
      BY DEF Execution
    <2>3. Signed(r)
      BY <2>1, <2>2 DEF Signed, NoReceipt, None
    <2> QED
      BY <2>1, <2>3 DEF CanAssemble
  <1>2. ASSUME IInv, NEW r \in Run, pc[r] = "returned" PROVE row[r] = "completed"
    BY <1>2 DEF IInv, RunInv, RowInv
  <1>3. IInv => CompletedMeansVerified
    BY <1>1, <1>2 DEF CompletedMeansVerified
  <1> QED
    BY <1>3, Invariance, PTL

\* The heads of an admissible ABA say what happened: the oracle saw the plan's head
\* come back, and the policy had moved past the snapshot.
THEOREM AbaGenuine == Spec => []AbaIsGenuine
  <1>1. ASSUME IInv, NEW r \in Run, Signed(r), scenario[r] = AbaScenario,
               evaluate_admission(Prereg(r), Execution(r), Teardown(r))
        PROVE  /\ execution[r].fault.head_bound = plan[r].head
               /\ oracle[r].live = plan[r].head
               /\ execution[r].fault.policy_head_post > snap[r].generation
    <2>1. SignedInv(r) /\ GenuineInv(r)
      BY <1>1 DEF IInv, RunInv
    <2>2. execution[r] = Execution(r)
      BY <1>1, <2>1 DEF SignedInv
    <2>3. /\ Execution(r).version = 3 /\ Execution(r).fault = fault[r]
          /\ Execution(r).result_kind = result[r].kind
          /\ Execution(r).result_reason = result[r].reason
      BY DEF Execution
    <2>4. Prereg(r).expected = <<"blocking_refusal", "policy_generation_moved", NoSub>>
      BY <1>1 DEF Prereg, expected_for, AbaScenario
    <2>5. enforcement_observed_triple(Execution(r))
            = <<"blocking_refusal", "policy_generation_moved", NoSub>>
      BY <1>1, <2>3, <2>4 DEF evaluate_admission, enforcement_expected_triple
    <2>6. result[r].reason = "policy_generation_moved"
      BY <2>3, <2>5 DEF enforcement_observed_triple
    <2> QED
      BY <1>1, <2>1, <2>2, <2>3, <2>6 DEF GenuineInv, Genuine
  <1>2. IInv => AbaIsGenuine
    BY <1>1 DEF AbaIsGenuine
  <1> QED
    BY <1>2, Invariance, PTL

\* A fault that a receipt discloses took place in the stores to its last step,
\* however the runs' injections interleave with operators and each other's.
THEOREM FaultTookPlace == Spec => []SignedFaultTookPlace
  <1>1. ASSUME IInv, NEW r \in Run, Signed(r), scenario[r] \in FaultScenarios
        PROVE  TookPlace(r)
    BY <1>1 DEF IInv, RunInv, SignedInv, DoneInv
  <1>2. IInv => SignedFaultTookPlace
    BY <1>1 DEF SignedFaultTookPlace, TookPlace, FaultScenarios, ScenarioId,
       AbaScenario,
                RecalScenarios
  <1> QED
    BY <1>2, Invariance, PTL

\* Whatever the gate made of a run that discloses can be signed and verifies.
LEMMA InvSerialises == IInv => RefutationSerialises
  <1>1. ASSUME IInv, NEW r \in Run, pc[r] = "assemble"
        PROVE  CanAssemble(r)
    <2>1. ResultInv(r) /\ SignedInv(r) /\ DoneInv(r)
      BY <1>1 DEF IInv, RunInv
    <2>2. scenario[r] \in ScenarioId
      BY <1>1, <2>1 DEF IInv, Shape, TypeOK, ResultInv
    <2>3. ValidResult(result[r]) /\ (result[r].kind = "admitted_run" => tree_hash[r])
      BY <1>1, <2>1 DEF ResultInv
    <2>4. scenario[r] = AbaScenario => ValidAbaInjection(fault[r])
      BY <1>1, <2>1 DEF SignedInv, DoneInv, TookPlace, AbaScenario, FaultScenarios,
         ScenarioId
    <2>5. VerifyOne(Prereg(r), "key")
      <3>1. /\ Prereg(r).key = "key" /\ Prereg(r).kind = "prereg"
            /\ Prereg(r).version = 3 /\ Prereg(r).scenario = scenario[r]
            /\ Prereg(r).expected = expected_for(scenario[r])
        BY DEF Prereg
      <3> QED
        BY <2>2, <3>1 DEF VerifyOne, validate_prereg_payload
    <2>6. VerifyOne(Execution(r), "key")
      <3>1. /\ Execution(r).key = "key" /\ Execution(r).kind = "execution"
            /\ Execution(r).version = 3 /\ Execution(r).outcome = result[r].outcome
            /\ Execution(r).scenario = scenario[r]
            /\ Execution(r).result_kind = result[r].kind
            /\ Execution(r).result_reason = result[r].reason
            /\ Execution(r).gate_outcome = GateOutcome(result[r].kind, result[r].reason)
            /\ Execution(r).disclosed <=> scenario[r] \in FaultScenarios
            /\ Execution(r).fault = fault[r]
        BY DEF Execution
      <3>2. /\ Execution(r).plan_policy = None <=> result[r].kind = "non_run"
            /\ Execution(r).image # None <=> result[r].kind = "admitted_run"
            /\ Execution(r).drift_image # None
                 <=> scenario[r] = "subject_drift_second_image"
        BY DEF Execution, Seed, RunImage, None
      <3>3. ValidDiscriminator(Execution(r))
        BY <2>3, <3>1, <3>2 DEF ValidDiscriminator, ValidResult
      <3>4. ValidExecutionV3(Execution(r))
        BY <2>2, <2>3, <2>4, <3>1, <3>2, <3>3
           DEF ValidExecutionV3, ValidResult, AbaScenario
      <3> QED
        BY <2>3, <3>1, <3>4 DEF VerifyOne, validate_execution_payload, ValidResult
    <2>7. VerifyOne(Teardown(r), "key") /\ VerifyOne(Index(r), "key")
      BY DEF VerifyOne, validate_teardown_payload, Teardown, Index
    <2>8. SemanticContinuity(Prereg(r), Execution(r), Teardown(r))
      BY DEF SemanticContinuity, PlanContinuity, ImageContinuity, Prereg, Execution,
         Teardown,
             Seed, RunImage, None
    <2>9. /\ Linked(Prereg(r), Execution(r), Teardown(r), Index(r))
          /\ SameVersion(Prereg(r), Execution(r), Teardown(r), Index(r))
          /\ Prereg(r).kind = "prereg" /\ Execution(r).kind = "execution"
          /\ Teardown(r).kind = "teardown" /\ Index(r).kind = "index"
          /\ Prereg(r).run = Execution(r).run /\ Prereg(r).run = Teardown(r).run
          /\ Prereg(r).run = Index(r).run /\ Index(r).verify_key = "key"
      <3>1. Linked(Prereg(r), Execution(r), Teardown(r), Index(r))
        <4>1. Execution(r).prereg_digest = Prereg(r)
          BY DEF Execution
        <4>2. Teardown(r).execution_digest = Execution(r)
          BY DEF Teardown
        <4>3. Index(r).prereg = Prereg(r) /\ Index(r).execution = Execution(r)
              /\ Index(r).teardown = Teardown(r)
          BY DEF Index
        <4> QED
          BY <4>1, <4>2, <4>3 DEF Linked
      <3> QED
        BY <3>1 DEF SameVersion, Prereg, Execution, Teardown, Index
    <2> QED
      BY <2>3, <2>5, <2>6, <2>7, <2>8, <2>9 DEF CanAssemble, verify_integrity
  <1> QED
    BY <1>1 DEF RefutationSerialises

\* A refutation always serialises: once the injection is disclosed, whatever the
\* gate made of the run can be signed and verifies.
THEOREM RefutationsSerialise == Spec => []RefutationSerialises
  BY InvSerialises, Invariance, PTL

-----------------------------------------------------------------------------
(* A run by itself: the stores are those that its own injection left, and  *)
(* the gate does with it what the author of its scenario predicted.        *)

\* No operator and no other run is at the stores, nothing has failed, and the policy
\* of the test of a degraded policy is one.
Undisturbed(r) ==
    /\ quiet /\ \A q \in Run \ {r} : scenario[q] = None
    /\ scenario[r] = "non_enabled_degraded" => policy.state = "DEGRADED"

\* A run by itself finds the stores as they were seeded, or as its own injection
\* left them.
StoresCourse(r) ==
    /\ pc[r] \notin {"failing", "raised", "stranded", "killed"}
    /\ pc[r] \in {"entry", "prereg", "decide", "source"} =>
         /\ policy.set = Seed.set /\ policy.head = Seed.head
         /\ policy.subject = Seed.image
         /\ scenario[r] # "non_enabled_degraded" => policy.state = "ENABLED"
    /\ pc[r] \in {"entry", "prereg", "decide", "source", "engine", "attest", "oracle"}
        \cup RecalSteps
         => members[Seed.set] = Seed.head
    /\ pc[r] \in {"recal_readback", "engine", "attest"} =>
         /\ policy.state = "ENABLED"
         /\ policy.set = TargetSet(r) /\ policy.subject = RecalImage(r)

\* What it has read of them: the plan is the seed's, the snapshot is the binding
\* that its source left, the oracle read is what its injection made of it.
ReadsCourse(r) ==
    /\ pc[r] \in {"source", "engine", "attest"} \cup RecalSteps \cup AttnSteps
        \cup Snapped
         => /\ scenario[r] # "non_enabled_degraded"
            /\ plan[r].set = Seed.set /\ plan[r].head = Seed.head
            /\ plan[r].subject = Seed.image
    /\ pc[r] \in Snapped =>
         /\ snap[r].set = TargetSet(r) /\ snap[r].subject = RecalImage(r)
         /\ scenario[r] = "compliant_admit" => policy.generation = snap[r].generation
    /\ pc[r] \in AbaSteps => fault[r].head_bound = Seed.head
    /\ pc[r] \in Compared /\ scenario[r] # "set_head_stale" => oracle[r].head = Seed.head

\* <<result kind, reason, sub reason>> of a result.
Triple(res) ==
    << res.kind, IF res.kind = "admitted_run" THEN res.outcome ELSE res.reason,
       res.sub >>

\* How far its scenario comes, and what the gate makes of it.
ResultCourse(r) ==
    /\ pc[r] \in {"attest"} \cup Snapped =>
         /\ result[r] = AdmittedRun("pass")
         /\ scenario[r] # "subject_drift_second_image"
    /\ pc[r] = "bracket" => scenario[r] \in {"compliant_admit", AbaScenario}
    /\ scenario[r] \in RecalScenarios /\ pc[r] \in {"engine", "attest"} \cup Snapped =>
         sched[r] = "completed"
    /\ scenario[r] = "sha_tamper" /\ pc[r] = "engine" => sched[r] = "completed"
    /\ scenario[r] \in FaultScenarios /\ pc[r] \in Compared => sched[r] = "completed"
    /\ pc[r] \in {"map", "assemble", "release", "return", "returned"} =>
         /\ Triple(result[r]) = expected_for(scenario[r])
         /\ scenario[r] \in FaultScenarios => sched[r] = "completed"

Course(r) == StoresCourse(r) /\ ReadsCourse(r) /\ ResultCourse(r)

QuietInv == \A r \in Run : Undisturbed(r) => Course(r)

\* Only a run that there is takes a step.
LEMMA OnlyRunsStep ==
    ASSUME Shape, NEW q \in Run, ResultInv(q), RunStep(q)
    PROVE  scenario[q] # None /\ scenario' = scenario
  <1> USE DEF Shape, TypeOK, Go, ResultInv, local, record
  <1>1. CASE Enter(q)
    BY <1>1 DEF Enter
  <1>2. CASE PersistPrereg(q)
    BY <1>2 DEF PersistPrereg
  <1>3. CASE ResolveDecision(q)
    BY <1>3 DEF ResolveDecision
  <1>4. CASE CapturingSource(q)
    BY <1>4 DEF CapturingSource
  <1>5. CASE RecalFire(q)
    BY <1>5 DEF RecalFire
  <1>6. CASE RecalTransition(q)
    BY <1>6 DEF RecalTransition
  <1>7. CASE RecalPin(q)
    BY <1>7 DEF RecalPin
  <1>8. CASE RecalRatify(q)
    BY <1>8 DEF RecalRatify
  <1>9. CASE RecalReadback(q)
    BY <1>9 DEF RecalReadback
  <1>10. CASE Engine(q)
    BY <1>10 DEF Engine
  <1>11. CASE Attest(q)
    BY <1>11 DEF Attest
  <1>12. CASE AttnFire(q)
    BY <1>12 DEF AttnFire
  <1>13. CASE AttnDegrade(q)
    BY <1>13 DEF AttnDegrade
  <1>14. CASE AttnPost(q)
    BY <1>14 DEF AttnPost
  <1>15. CASE AttnSnapshot(q)
    BY <1>15 DEF AttnSnapshot
  <1>16. CASE OracleRead(q)
    BY <1>16 DEF OracleRead
  <1>17. CASE OracleFire(q)
    BY <1>17 DEF OracleFire
  <1>18. CASE StaleFire(q)
    BY <1>18 DEF StaleFire
  <1>19. CASE StaleAdd(q)
    BY <1>19 DEF StaleAdd
  <1>20. CASE StaleMoved(q)
    BY <1>20 DEF StaleMoved
  <1>21. CASE AbaFire(q)
    BY <1>21 DEF AbaFire
  <1>22. CASE AbaChange(q)
    BY <1>22 DEF AbaChange
  <1>23. CASE AbaRead(q)
    BY <1>23 DEF AbaRead
  <1>24. CASE AbaReturned(q)
    BY <1>24 DEF AbaReturned
  <1>25. CASE Check(q)
    BY <1>25 DEF Check
  <1>26. CASE Bracket(q)
    BY <1>26 DEF Bracket
  <1>27. CASE RequireDisclosure(q)
    BY <1>27 DEF RequireDisclosure
  <1>28. CASE Assemble(q)
    BY <1>28 DEF Assemble
  <1>29. CASE Release(q)
    BY <1>29 DEF Release
  <1>30. CASE Fail(q)
    BY <1>30 DEF Fail
  <1>31. CASE SchedulerRaise(q)
    BY <1>31 DEF SchedulerRaise
  <1>32. CASE Raise(q)
    BY <1>32 DEF Raise
  <1>33. CASE Kill(q)
    BY <1>33 DEF Kill
  <1>34. CASE Return(q)
    BY <1>34 DEF Return
  <1> QED
    BY <1>1, <1>2, <1>3, <1>4, <1>5, <1>6, <1>7, <1>8, <1>9, <1>10, <1>11, <1>12,
       <1>13, <1>14, <1>15, <1>16, <1>17, <1>18, <1>19, <1>20, <1>21, <1>22, <1>23,
       <1>24, <1>25, <1>26, <1>27, <1>28, <1>29, <1>30, <1>31, <1>32, <1>33,
       <1>34 DEF RunStep, Proceed, RecalStep, AttestStep, OracleStep

\* What a run's step finds undisturbed at its end was undisturbed before it: a
\* failure is never forgotten, and no injection revokes the policy of a degraded run.
LEMMA WasUndisturbed ==
    ASSUME Shape, NEW q \in Run, FaultInv(q), DoneInv(q), RunStep(q), Undisturbed(q)'
    PROVE  Undisturbed(q) /\ scenario' = scenario
  <1> USE DEF Shape, TypeOK, Go, FaultInv, DoneInv, Undisturbed, stores, env, local,
              record, RecalScenarios, AbaScenario
  <1>1. CASE Enter(q)
    BY <1>1 DEF Enter
  <1>2. CASE PersistPrereg(q)
    BY <1>2 DEF PersistPrereg
  <1>3. CASE ResolveDecision(q)
    BY <1>3 DEF ResolveDecision
  <1>4. CASE CapturingSource(q)
    BY <1>4 DEF CapturingSource
  <1>5. CASE RecalFire(q)
    BY <1>5 DEF RecalFire
  <1>6. CASE RecalTransition(q)
    BY <1>6 DEF RecalTransition
  <1>7. CASE RecalPin(q)
    BY <1>7 DEF RecalPin
  <1>8. CASE RecalRatify(q)
    BY <1>8 DEF RecalRatify
  <1>9. CASE RecalReadback(q)
    BY <1>9 DEF RecalReadback
  <1>10. CASE Engine(q)
    BY <1>10 DEF Engine
  <1>11. CASE Attest(q)
    BY <1>11 DEF Attest
  <1>12. CASE AttnFire(q)
    BY <1>12 DEF AttnFire
  <1>13. CASE AttnDegrade(q)
    BY <1>13 DEF AttnDegrade
  <1>14. CASE AttnPost(q)
    BY <1>14 DEF AttnPost
  <1>15. CASE AttnSnapshot(q)
    BY <1>15 DEF AttnSnapshot
  <1>16. CASE OracleRead(q)
    BY <1>16 DEF OracleRead
  <1>17. CASE OracleFire(q)
    BY <1>17 DEF OracleFire
  <1>18. CASE StaleFire(q)
    BY <1>18 DEF StaleFire
  <1>19. CASE StaleAdd(q)
    BY <1>19 DEF StaleAdd
  <1>20. CASE StaleMoved(q)
    BY <1>20 DEF StaleMoved
  <1>21. CASE AbaFire(q)
    BY <1>21 DEF AbaFire
  <1>22. CASE AbaChange(q)
    BY <1>22 DEF AbaChange
  <1>23. CASE AbaRead(q)
    BY <1>23 DEF AbaRead
  <1>24. CASE AbaReturned(q)
    BY <1>24 DEF AbaReturned
  <1>25. CASE Check(q)
    BY <1>25 DEF Check
  <1>26. CASE Bracket(q)
    BY <1>26 DEF Bracket
  <1>27. CASE RequireDisclosure(q)
    BY <1>27 DEF RequireDisclosure
  <1>28. CASE Assemble(q)
    BY <1>28 DEF Assemble
  <1>29. CASE Release(q)
    BY <1>29 DEF Release
  <1>30. CASE Fail(q)
    BY <1>30 DEF Fail
  <1>31. CASE SchedulerRaise(q)
    BY <1>31 DEF SchedulerRaise
  <1>32. CASE Raise(q)
    BY <1>32 DEF Raise
  <1>33. CASE Kill(q)
    BY <1>33 DEF Kill
  <1>34. CASE Return(q)
    BY <1>34 DEF Return
  <1> QED
    BY <1>1, <1>2, <1>3, <1>4, <1>5, <1>6, <1>7, <1>8, <1>9, <1>10, <1>11, <1>12,
       <1>13, <1>14, <1>15, <1>16, <1>17, <1>18, <1>19, <1>20, <1>21, <1>22, <1>23,
       <1>24, <1>25, <1>26, <1>27, <1>28, <1>29, <1>30, <1>31, <1>32, <1>33,
       <1>34 DEF RunStep, Proceed, RecalStep, AttestStep, OracleStep

\* Its steps keep to the stores' course.
LEMMA OwnStoresCourse ==
    ASSUME Shape, NEW q \in Run, RunInv(q), RunStep(q), Course(q), Undisturbed(q),
           Undisturbed(q)', scenario' = scenario,
           pc[q] = "assemble" => CanAssemble(q)
    PROVE  StoresCourse(q)'
  <1> USE RunAssumption
  <1> USE DEF Shape, Rows, TypeOK, Go, Put, stores, local, record, env, RunInv, Course,
              Undisturbed, Seed, SetId, TargetSet, RecalImage, RecalScenarios, AbaScenario,
              StoresCourse, ReadsCourse, FaultInv, append, set_head
  <1>1. CASE Enter(q)
    BY <1>1 DEF Enter
  <1>2. CASE PersistPrereg(q)
    BY <1>2 DEF PersistPrereg
  <1>3. CASE ResolveDecision(q)
    BY <1>3 DEF ResolveDecision
  <1>4. CASE CapturingSource(q)
    BY <1>4 DEF CapturingSource
  <1>5. CASE RecalFire(q)
    BY <1>5 DEF RecalFire
  <1>6. CASE RecalTransition(q)
    BY <1>6 DEF RecalTransition
  <1>7. CASE RecalPin(q)
    BY <1>7 DEF RecalPin
  <1>8. CASE RecalRatify(q)
    BY <1>8 DEF RecalRatify
  <1>9. CASE RecalReadback(q)
    BY <1>9 DEF RecalReadback
  <1>10. CASE Engine(q)
    BY <1>10, EngineDoes
  <1>11. CASE Attest(q)
    BY <1>11 DEF Attest
  <1>12. CASE AttnFire(q)
    BY <1>12 DEF AttnFire
  <1>13. CASE AttnDegrade(q)
    BY <1>13 DEF AttnDegrade
  <1>14. CASE AttnPost(q)
    BY <1>14 DEF AttnPost
  <1>15. CASE AttnSnapshot(q)
    BY <1>15 DEF AttnSnapshot
  <1>16. CASE OracleRead(q)
    BY <1>16 DEF OracleRead
  <1>17. CASE OracleFire(q)
    BY <1>17 DEF OracleFire
  <1>18. CASE StaleFire(q)
    BY <1>18 DEF StaleFire
  <1>19. CASE StaleAdd(q)
    BY <1>19 DEF StaleAdd
  <1>20. CASE StaleMoved(q)
    BY <1>20 DEF StaleMoved
  <1>21. CASE AbaFire(q)
    BY <1>21 DEF AbaFire
  <1>22. CASE AbaChange(q)
    BY <1>22 DEF AbaChange
  <1>23. CASE AbaRead(q)
    BY <1>23 DEF AbaRead
  <1>24. CASE AbaReturned(q)
    BY <1>24 DEF AbaReturned
  <1>25. CASE Check(q)
    BY <1>25, CheckDoes
  <1>26. CASE Bracket(q)
    BY <1>26 DEF Bracket
  <1>27. CASE RequireDisclosure(q)
    BY <1>27 DEF RequireDisclosure, ResultCourse
  <1>28. CASE Assemble(q)
    BY <1>28 DEF Assemble
  <1>29. CASE Release(q)
    BY <1>29 DEF Release
  <1>30. CASE Fail(q)
    BY <1>30 DEF Fail
  <1>31. CASE SchedulerRaise(q)
    BY <1>31 DEF SchedulerRaise
  <1>32. CASE Raise(q)
    BY <1>32 DEF Raise
  <1>33. CASE Kill(q)
    BY <1>33 DEF Kill
  <1>34. CASE Return(q)
    BY <1>34 DEF Return
  <1> QED
    BY <1>1, <1>2, <1>3, <1>4, <1>5, <1>6, <1>7, <1>8, <1>9, <1>10, <1>11, <1>12,
       <1>13, <1>14, <1>15, <1>16, <1>17, <1>18, <1>19, <1>20, <1>21, <1>22, <1>23,
       <1>24, <1>25, <1>26, <1>27, <1>28, <1>29, <1>30, <1>31, <1>32, <1>33,
       <1>34 DEF RunStep, Proceed, RecalStep, AttestStep, OracleStep

\* So do its reads.
LEMMA OwnReadsCourse ==
    ASSUME Shape, NEW q \in Run, RunInv(q), RunStep(q), Course(q), Undisturbed(q),
           Undisturbed(q)', scenario' = scenario,
           pc[q] = "assemble" => CanAssemble(q)
    PROVE  ReadsCourse(q)'
  <1> USE RunAssumption
  <1> USE DEF Shape, Rows, TypeOK, Go, Put, stores, local, record, env, RunInv, Course,
              Undisturbed, Seed, SetId, TargetSet, RecalImage, RecalScenarios, AbaScenario,
              StoresCourse, ReadsCourse, FaultInv, AtOracle, ArmedScenarios, OracleReturns,
              set_head
  <1>1. CASE Enter(q)
    BY <1>1 DEF Enter
  <1>2. CASE PersistPrereg(q)
    BY <1>2 DEF PersistPrereg
  <1>3. CASE ResolveDecision(q)
    BY <1>3 DEF ResolveDecision
  <1>4. CASE CapturingSource(q)
    BY <1>4 DEF CapturingSource
  <1>5. CASE RecalFire(q)
    BY <1>5 DEF RecalFire
  <1>6. CASE RecalTransition(q)
    BY <1>6 DEF RecalTransition
  <1>7. CASE RecalPin(q)
    BY <1>7 DEF RecalPin
  <1>8. CASE RecalRatify(q)
    BY <1>8 DEF RecalRatify
  <1>9. CASE RecalReadback(q)
    BY <1>9 DEF RecalReadback
  <1>10. CASE Engine(q)
    BY <1>10, EngineDoes
  <1>11. CASE Attest(q)
    BY <1>11 DEF Attest, current_attestation_snapshot
  <1>12. CASE AttnFire(q)
    BY <1>12 DEF AttnFire
  <1>13. CASE AttnDegrade(q)
    BY <1>13 DEF AttnDegrade
  <1>14. CASE AttnPost(q)
    BY <1>14 DEF AttnPost
  <1>15. CASE AttnSnapshot(q)
    BY <1>15 DEF AttnSnapshot
  <1>16. CASE OracleRead(q)
    BY <1>16 DEF OracleRead
  <1>17. CASE OracleFire(q)
    BY <1>17 DEF OracleFire
  <1>18. CASE StaleFire(q)
    BY <1>18 DEF StaleFire
  <1>19. CASE StaleAdd(q)
    BY <1>19 DEF StaleAdd
  <1>20. CASE StaleMoved(q)
    BY <1>20 DEF StaleMoved
  <1>21. CASE AbaFire(q)
    BY <1>21 DEF AbaFire
  <1>22. CASE AbaChange(q)
    BY <1>22 DEF AbaChange
  <1>23. CASE AbaRead(q)
    <2>1. /\ pc[q] \in {"aba_moved", "aba_pre", "aba_post"}
          /\ pc'[q] \in {"aba_pre", "aba_degrade", "aba_deprecate"}
          /\ UNCHANGED <<policy, plan, snap>>
          /\ fault'[q].head_bound = fault[q].head_bound
      BY <1>23 DEF AbaRead
    <2> QED
      BY <2>1
  <1>24. CASE AbaReturned(q)
    <2> DEFINE f == [fault[q] EXCEPT !.head_returned = set_head(plan[q].set)]
    <2>1. /\ f.head_bound = f.head_returned /\ f.head_bound = fault[q].head_bound
          /\ OracleReturns(q, f.head_returned)
          /\ pc[q] = "aba_returned" /\ pc'[q] = "checks"
          /\ UNCHANGED <<policy, plan, snap>>
      BY <1>24 DEF AbaReturned, ValidAbaInjection
    <2> HIDE DEF f
    <2>2. oracle'[q].head = f.head_returned
      BY <2>1
    <2> QED
      BY <2>1, <2>2
  <1>25. CASE Check(q)
    BY <1>25, CheckDoes
  <1>26. CASE Bracket(q)
    BY <1>26 DEF Bracket
  <1>27. CASE RequireDisclosure(q)
    BY <1>27 DEF RequireDisclosure
  <1>28. CASE Assemble(q)
    BY <1>28 DEF Assemble
  <1>29. CASE Release(q)
    BY <1>29 DEF Release
  <1>30. CASE Fail(q)
    BY <1>30 DEF Fail
  <1>31. CASE SchedulerRaise(q)
    BY <1>31 DEF SchedulerRaise
  <1>32. CASE Raise(q)
    BY <1>32 DEF Raise
  <1>33. CASE Kill(q)
    BY <1>33 DEF Kill
  <1>34. CASE Return(q)
    BY <1>34 DEF Return
  <1> QED
    BY <1>1, <1>2, <1>3, <1>4, <1>5, <1>6, <1>7, <1>8, <1>9, <1>10, <1>11, <1>12,
       <1>13, <1>14, <1>15, <1>16, <1>17, <1>18, <1>19, <1>20, <1>21, <1>22, <1>23,
       <1>24, <1>25, <1>26, <1>27, <1>28, <1>29, <1>30, <1>31, <1>32, <1>33,
       <1>34 DEF RunStep, Proceed, RecalStep, AttestStep, OracleStep

\* What the authors of the scenarios predict.
LEMMA Predictions ==
    /\ Triple(AdmittedRun("pass")) = expected_for("compliant_admit")
    /\ Triple(NonRun("block_action_required")) = expected_for("non_enabled_degraded")
    /\ Triple(Refusal("policy_generation_moved", NoSub)) = expected_for(AbaScenario)
    /\ Triple(Refusal("subject_drift", NoSub))
         = expected_for("subject_drift_second_image")
    /\ Triple(Infra("artifact_integrity_mismatch")) = expected_for("sha_tamper")
    /\ Triple(Refusal("oracle_unavailable", "store_unreachable"))
         = expected_for("oracle_unavailable")
    /\ Triple(AttestationAbsent) = expected_for("live_attestation_unavailable")
    /\ \A s \in {"set_head_stale", "authorized_set_moved", "authorized_subject_moved"} :
         Triple(Refusal(s, NoSub)) = expected_for(s)
    /\ \A s \in {"compliant_admit", "non_enabled_degraded", "subject_drift_second_image"} :
         s \notin FaultScenarios
  BY DEF Triple, AdmittedRun, NonRun, Refusal, Infra, AttestationAbsent, expected_for,
         AbaScenario, FaultScenarios

\* A run that ends as predicted, its injection completed, is on its course.
LEMMA ResultsIn ==
    ASSUME NEW q, pc'[q] = "map", scenario' = scenario,
           Triple(result'[q]) = expected_for(scenario[q]),
           scenario[q] \in FaultScenarios => sched'[q] = "completed"
    PROVE  ResultCourse(q)'
  BY DEF ResultCourse

\* And its result is the predicted one.
LEMMA OwnResultCourse ==
    ASSUME Shape, NEW q \in Run, RunInv(q), RunStep(q), Course(q), Undisturbed(q),
           Undisturbed(q)', scenario' = scenario,
           pc[q] = "assemble" => CanAssemble(q)
    PROVE  ResultCourse(q)'
  <1> USE RunAssumption
  <1> USE DEF Shape, Rows, TypeOK, Go, Put, stores, local, record, env, RunInv, Course,
              Undisturbed, Seed, SetId, TargetSet, RecalImage, RecalScenarios, AbaScenario,
              StoresCourse, ReadsCourse, ResultCourse, FaultInv, AtOracle, ArmedScenarios
  <1>1. CASE Enter(q)
    BY <1>1 DEF Enter
  <1>2. CASE PersistPrereg(q)
    BY <1>2 DEF PersistPrereg
  <1>3. CASE ResolveDecision(q)
    <2>1. CASE pc'[q] = "source"
      BY <1>3, <2>1 DEF ResolveDecision
    <2>2. CASE pc'[q] = "map"
      <3>1. policy.state = "DEGRADED" /\ scenario[q] = "non_enabled_degraded"
        BY <1>3, <2>2 DEF ResolveDecision, set_head
      <3>2. PICK d : /\ policy.state = "DEGRADED" => d = "block_action_required"
                     /\ Put(result, q, NonRun(d))
        BY <1>3, <2>2 DEF ResolveDecision
      <3>3. result'[q] = NonRun("block_action_required")
        BY <3>1, <3>2
      <3>4. Triple(result'[q]) = expected_for(scenario[q])
        BY <3>1, <3>3, Predictions
      <3> HIDE DEF ResultCourse
      <3> QED
        BY <2>2, <3>1, <3>4, Predictions, ResultsIn
    <2> QED
      BY <1>3, <2>1, <2>2, ResolveDoes
  <1>4. CASE CapturingSource(q)
    BY <1>4 DEF CapturingSource
  <1>5. CASE RecalFire(q)
    BY <1>5 DEF RecalFire
  <1>6. CASE RecalTransition(q)
    BY <1>6 DEF RecalTransition
  <1>7. CASE RecalPin(q)
    BY <1>7 DEF RecalPin
  <1>8. CASE RecalRatify(q)
    BY <1>8 DEF RecalRatify
  <1>9. CASE RecalReadback(q)
    BY <1>9 DEF RecalReadback
  <1>10. CASE Engine(q)
    <2> USE DEF Engine
    <2>1. CASE pc'[q] = "attest"
      <3>1. PICK verdict : /\ quiet' = (quiet /\ verdict = "pass")
                           /\ RunImage(q) = plan[q].subject
                           /\ Put(result, q, AdmittedRun(verdict))
        BY <1>10, <2>1
      <3>2. result'[q] = AdmittedRun("pass")
        BY <3>1
      <3>3. scenario[q] # "subject_drift_second_image"
        BY <1>10, <3>1 DEF RunImage
      <3> QED
        BY <1>10, <2>1, <3>2, <3>3
    <2>2. CASE pc'[q] = "map" /\ scenario[q] = "sha_tamper"
      <3>1. result'[q] = Infra("artifact_integrity_mismatch") /\ sched'[q] = "completed"
        BY <1>10, <2>2
      <3>2. Triple(result'[q]) = expected_for(scenario[q])
        BY <2>2, <3>1, Predictions
      <3> HIDE DEF ResultCourse
      <3> QED
        BY <2>2, <3>1, <3>2, Predictions, ResultsIn
    <2>3. CASE pc'[q] = "map" /\ scenario[q] # "sha_tamper"
      <3>1. result'[q] = Refusal("subject_drift", NoSub)
            /\ scenario[q] = "subject_drift_second_image"
        BY <1>10, <2>3 DEF RunImage
      <3>2. Triple(result'[q]) = expected_for(scenario[q])
        BY <2>3, <3>1, Predictions
      <3> HIDE DEF ResultCourse
      <3> QED
        BY <2>3, <3>1, <3>2, Predictions, ResultsIn
    <2> QED
      BY <1>10, <2>1, <2>2, <2>3, EngineDoes
  <1>11. CASE Attest(q)
    BY <1>11 DEF Attest
  <1>12. CASE AttnFire(q)
    BY <1>12 DEF AttnFire
  <1>13. CASE AttnDegrade(q)
    BY <1>13 DEF AttnDegrade
  <1>14. CASE AttnPost(q)
    BY <1>14 DEF AttnPost
  <1>15. CASE AttnSnapshot(q)
    <2>1. /\ pc'[q] = "map" /\ sched'[q] = "completed"
          /\ result'[q] = AttestationAbsent
          /\ scenario[q] = "live_attestation_unavailable"
      BY <1>15 DEF AttnSnapshot, DoneInv
    <2>2. Triple(result'[q]) = expected_for(scenario[q])
      BY <2>1, Predictions
    <2> HIDE DEF ResultCourse
    <2> QED
      BY <2>1, <2>2, Predictions, ResultsIn
  <1>16. CASE OracleRead(q)
    BY <1>16 DEF OracleRead, ResultInv, FaultScenarios, ScenarioId, OracleReturns
  <1>17. CASE OracleFire(q)
    <2>1. /\ pc'[q] = "map" /\ sched'[q] = "completed"
          /\ result'[q] = Refusal("oracle_unavailable", "store_unreachable")
          /\ scenario[q] = "oracle_unavailable"
      BY <1>17 DEF OracleFire
    <2>2. Triple(result'[q]) = expected_for(scenario[q])
      BY <2>1, Predictions
    <2> HIDE DEF ResultCourse
    <2> QED
      BY <2>1, <2>2, Predictions, ResultsIn
  <1>18. CASE StaleFire(q)
    BY <1>18 DEF StaleFire
  <1>19. CASE StaleAdd(q)
    BY <1>19 DEF StaleAdd
  <1>20. CASE StaleMoved(q)
    BY <1>20 DEF StaleMoved
  <1>21. CASE AbaFire(q)
    BY <1>21 DEF AbaFire
  <1>22. CASE AbaChange(q)
    BY <1>22 DEF AbaChange
  <1>23. CASE AbaRead(q)
    BY <1>23 DEF AbaRead
  <1>24. CASE AbaReturned(q)
    BY <1>24 DEF AbaReturned
  <1>25. CASE Check(q)
    <2> USE DEF ResultInv, FaultScenarios, ScenarioId
    <2>1. CASE pc'[q] = "bracket"
      <3>1. /\ pc[q] = "checks" /\ snap[q].set = plan[q].set
            /\ oracle[q].head = plan[q].head /\ snap[q].subject = plan[q].subject
            /\ UNCHANGED <<result, sched>>
        BY <1>25, <2>1, CheckDoes DEF Refusals
      <3>2. scenario[q] \in {"compliant_admit", AbaScenario}
        BY <3>1 DEF InjectedInv
      <3> QED
        BY <2>1, <3>1, <3>2
    <2>2. CASE pc'[q] = "map"
      <3>1. PICK reason : /\ result'[q] = Refusal(reason, NoSub)
                          /\ \/ pc[q] = "checks" /\ reason \in Refusals(q)
                             \/ /\ pc[q] = "oracle" /\ reason = "authorized_set_moved"
                                /\ snap[q].set # plan[q].set
        BY <1>25, <2>2 DEF Check
      <3>2. reason = scenario[q] /\ scenario[q] \in {"authorized_set_moved",
              "set_head_stale", "authorized_subject_moved"}
        BY <3>1 DEF Refusals
      <3>3. sched'[q] = "completed"
        BY <1>25, <3>1, <3>2 DEF Check
      <3>4. Triple(result'[q]) = expected_for(scenario[q])
        BY <2>2, <3>1, <3>2, <3>3, Predictions
      <3> HIDE DEF ResultCourse
      <3> QED
        BY <2>2, <3>1, <3>2, <3>3, <3>4, Predictions, ResultsIn
    <2> QED
      BY <1>25, <2>1, <2>2, CheckDoes
  <1>26. CASE Bracket(q)
    <2>1. pc[q] = "bracket" /\ pc'[q] = "map" /\ UNCHANGED sched
      BY <1>26 DEF Bracket
    <2>2. CASE scenario[q] = "compliant_admit"
      <3>1. result'[q] = AdmittedRun("pass")
        BY <1>26, <2>1, <2>2 DEF Bracket
      <3>2. Triple(result'[q]) = expected_for(scenario[q])
        BY <2>1, <2>2, <3>1, Predictions
      <3> HIDE DEF ResultCourse
      <3> QED
        BY <2>1, <2>2, <3>1, <3>2, Predictions, ResultsIn
    <2>3. CASE scenario[q] = AbaScenario
      <3>1. policy.generation # snap[q].generation
        BY <2>1, <2>3 DEF InjectedInv, SnapInv
      <3>2. result'[q] = Refusal("policy_generation_moved", NoSub)
        BY <1>26, <3>1 DEF Bracket
      <3>3. Triple(result'[q]) = expected_for(scenario[q])
        BY <2>1, <2>3, <3>2, Predictions
      <3>4. sched'[q] = "completed"
        BY <2>1, <2>3 DEF FaultScenarios, ScenarioId
      <3> HIDE DEF ResultCourse
      <3> QED
        BY <2>1, <2>3, <3>3, <3>4, ResultsIn
    <2> QED
      BY <2>1, <2>2, <2>3
  <1>27. CASE RequireDisclosure(q)
    BY <1>27 DEF RequireDisclosure
  <1>28. CASE Assemble(q)
    BY <1>28 DEF Assemble
  <1>29. CASE Release(q)
    BY <1>29 DEF Release
  <1>30. CASE Fail(q)
    BY <1>30 DEF Fail
  <1>31. CASE SchedulerRaise(q)
    BY <1>31 DEF SchedulerRaise
  <1>32. CASE Raise(q)
    BY <1>32 DEF Raise
  <1>33. CASE Kill(q)
    BY <1>33 DEF Kill
  <1>34. CASE Return(q)
    BY <1>34 DEF Return
  <1> QED
    BY <1>1, <1>2, <1>3, <1>4, <1>5, <1>6, <1>7, <1>8, <1>9, <1>10, <1>11, <1>12,
       <1>13, <1>14, <1>15, <1>16, <1>17, <1>18, <1>19, <1>20, <1>21, <1>22, <1>23,
       <1>24, <1>25, <1>26, <1>27, <1>28, <1>29, <1>30, <1>31, <1>32, <1>33,
       <1>34 DEF RunStep, Proceed, RecalStep, AttestStep, OracleStep

\* Alone and undisturbed a run keeps its course: operators and failures disturb it,
\* and no other run can step.
LEMMA QuietStep ==
    ASSUME IInv, QuietInv, [Next]_vars
    PROVE  QuietInv'
  <1> SUFFICES ASSUME NEW r \in Run, Undisturbed(r)' PROVE Course(r)'
    BY DEF QuietInv
  <1>1. Shape /\ \A q \in Run : RunInv(q)
    BY DEF IInv
  <1>2. CASE Operate
    BY <1>2 DEF Operate, Undisturbed
  <1>3. CASE RunStep(r)
    <2>1. Undisturbed(r) /\ scenario' = scenario
      BY <1>1, <1>3, WasUndisturbed DEF RunInv
    <2>2. Course(r)
      BY <2>1 DEF QuietInv
    <2>3. pc[r] = "assemble" => CanAssemble(r)
      BY InvSerialises DEF RefutationSerialises
    <2> QED
      BY <1>1, <1>3, <2>1, <2>2, <2>3, OwnStoresCourse, OwnReadsCourse,
         OwnResultCourse DEF Course
  <1>4. CASE \E q \in Run \ {r} : RunStep(q)
    <2>1. PICK q \in Run \ {r} : RunStep(q)
      BY <1>4
    <2>2. scenario[q] # None /\ scenario' = scenario
      BY <1>1, <2>1, OnlyRunsStep DEF RunInv
    <2> QED
      BY <2>1, <2>2 DEF Undisturbed
  <1>5. CASE UNCHANGED vars
    <2>1. Undisturbed(r) /\ Course(r)
      BY <1>5 DEF Undisturbed, vars, stores, env, QuietInv
    <2> QED
      BY <1>5, <2>1 DEF Course, StoresCourse, ReadsCourse, ResultCourse, TargetSet,
         RecalImage, vars, stores, env, local, record
  <1> QED
    BY <1>2, <1>3, <1>4, <1>5 DEF Next, RunStep

\* A run of any scenario that no operator, other run or failure disturbs ends with
\* the result its author predicted, signed and, but for the tamper, admitted.
THEOREM QuietIsPredicted == Spec => []QuietPrediction
  <1>1. Init => QuietInv
    <2> SUFFICES ASSUME Init, NEW r \in Run, Undisturbed(r) PROVE Course(r)
      BY DEF QuietInv
    <2>1. PICK s \in {"ENABLED", "DEGRADED"} :
            /\ s = "DEGRADED" => \E q \in Run : scenario[q] = "non_enabled_degraded"
            /\ policy = [state |-> s, set |-> "set1", head |-> {"base"},
                         subject |-> "img1",
                         generation |-> IF s = "ENABLED" THEN 0 ELSE 1]
      BY DEF Init
    <2>2. s = "DEGRADED" => scenario[r] = "non_enabled_degraded"
      BY <2>1 DEF Undisturbed, None
    <2>3. pc[r] = "entry" /\ members["set1"] = {"base"}
      BY DEF Init, SetId
    <2> QED
      BY <2>1, <2>2, <2>3 DEF Course, StoresCourse, ReadsCourse, ResultCourse, Seed
  <1>2. IInv /\ QuietInv => QuietPrediction
    <2> SUFFICES ASSUME IInv, QuietInv, NEW r \in Run, quiet, pc[r] \in Ended,
                        \A q \in Run \ {r} : scenario[q] = None,
                        scenario[r] = "non_enabled_degraded" => policy.state = "DEGRADED"
                 PROVE  /\ Signed(r)
                        /\ enforcement_observed_triple(execution[r])
                             = expected_for(scenario[r])
                        /\ evaluate_admission(Prereg(r), execution[r], Teardown(r))
                             <=> scenario[r] # "sha_tamper"
      BY DEF QuietPrediction
    <2>1. /\ pc[r] = "returned"
          /\ Triple(result[r]) = expected_for(scenario[r])
      BY DEF QuietInv, Undisturbed, Course, StoresCourse, ResultCourse
    <2>2. execution[r] = Execution(r) /\ scenario[r] \in ScenarioId
      BY <2>1 DEF IInv, RunInv, RowInv, ResultInv, Shape, TypeOK
    <2>3. /\ Execution(r).kind = "execution" /\ Execution(r).version = 3
          /\ Execution(r).result_kind = result[r].kind
          /\ enforcement_observed_triple(Execution(r)) = Triple(result[r])
      BY DEF Execution, enforcement_observed_triple, Triple
    <2>4. Signed(r)
      BY <2>2, <2>3 DEF Signed, NoReceipt, None
    <2>5. /\ Prereg(r).expected = expected_for(scenario[r])
          /\ Teardown(r).failure = FALSE
      BY DEF Prereg, Teardown
    <2>6. result[r].kind = "infrastructure_failure" <=> scenario[r] = "sha_tamper"
      BY <2>1, <2>2 DEF Triple, expected_for, ScenarioId
    <2> QED
      BY <2>1, <2>2, <2>3, <2>4, <2>5, <2>6
         DEF evaluate_admission, enforcement_expected_triple
  <1>3. QuietInv /\ IInv /\ [Next]_vars => QuietInv'
    BY QuietStep
  <1> QED
    BY <1>1, <1>2, <1>3, Invariance, PTL DEF Spec
-----------------------------------------------------------------------------
\* A run that is over - returned, raised or refused, its process alive - has left
\* its row in a terminal state, or has none: only a kill, or a registry that refuses
\* the release, leaves it active (enforce's try and except).
THEOREM OverMeansSettled == Spec => [](\A r \in Run : pc[r] \notin Step => ~Unsettled(r))
  <1>1. IInv => \A r \in Run : pc[r] \notin Step => ~Unsettled(r)
    BY DEF IInv, Shape, TypeOK, RunInv, RowInv, Unsettled
  <1> QED
    BY <1>1, Invariance, PTL
=============================================================================
