-------------------------- MODULE EvidenceArchive --------------------------
(***************************************************************************)
(* Receipts as they come to an auditor.  Every caller of the builders of   *)
(* evidence.py (a driver at work on a run, an operator) signs what the     *)
(* payload schemas let pass: a preregistration, an execution of any        *)
(* preregistration, a teardown of any execution, an index over any three,  *)
(* each with any key and from any payload.  What is signed stays; the      *)
(* auditor is handed any four receipts.                                    *)
(***************************************************************************)
EXTENDS EvidenceChain, FiniteSets

CONSTANTS
    RunName,        \* run ids
    Key,            \* signing keys
    TrustedKey,     \* the verify key the auditor pins
    Context,        \* what a payload may say of a run's configuration
    Observation,    \* what a payload may say of a run's result
    MaxOfKind,      \* bound: receipts of one kind
    MaxReceipts     \* bound: receipts of all kinds

ASSUME TrustedKeyAssumption == TrustedKey \in Key

VARIABLES
    preregs, executions, teardowns, indexes,    \* the receipts signed so far
    torn        \* history: <<execution, failure>> of every teardown reported

vars == <<preregs, executions, teardowns, indexes, torn>>

Init ==
    /\ preregs = {} /\ executions = {} /\ teardowns = {} /\ indexes = {}
    /\ torn = {}

-----------------------------------------------------------------------------
(* The builders                                                            *)

\* The payload of context c under schema version v.
PreregReceipt(run, key, v, c) ==
    [kind |-> "prereg", run |-> run, key |-> key, version |-> v,
     profile |-> c.profile, gated_commit |-> c.gated_commit,
     scenario |-> IF v = 3 THEN c.scenario ELSE None,
     expected |-> IF v = 3 THEN expected_for(c.scenario) ELSE NoPrediction,
     policy   |-> IF v = 3 THEN c.policy ELSE None,
     event    |-> IF v = 3 THEN c.event ELSE None,
     detector |-> IF v = 3 THEN c.detector ELSE None,
     image    |-> IF v = 3 THEN c.image ELSE None]

\* run_id and digest are those of the preregistration it is built on.
ExecutionReceipt(p, key, v, c, o) ==
    [kind |-> "execution", run |-> p.run, key |-> key, version |-> v,
     profile |-> c.profile, gated_commit |-> c.gated_commit,
     prereg_digest |-> p, outcome |-> o.outcome,
     scenario    |-> IF v = 3 THEN c.scenario ELSE None,
     policy      |-> IF v = 3 THEN c.policy ELSE None,
     event       |-> IF v = 3 THEN c.event ELSE None,
     plan_policy |-> IF v = 3 /\ o.kind # "non_run" THEN c.policy ELSE None,
     seed        |-> [policy |-> c.policy, detector |-> c.detector,
                      image |-> c.seed_image],
     result_kind       |-> IF v = 3 THEN o.kind ELSE None,
     result_reason     |-> IF v = 3 THEN o.reason ELSE None,
     result_sub_reason |-> IF v = 3 THEN NoSub ELSE None,
     gate_outcome |-> IF v = 3 THEN GateOutcome(o.kind, o.reason) ELSE None,
     disclosed    |-> v = 3 /\ c.scenario \in FaultScenarios,
     fault        |-> None,
     image        |-> IF v = 3 /\ o.kind = "admitted_run" THEN c.image ELSE None,
     drift_image  |-> IF v = 3 /\ c.scenario = "subject_drift_second_image"
                      THEN c.image ELSE None]

TeardownReceipt(x, key, v, c, failure) ==
    [kind |-> "teardown", run |-> x.run, key |-> key, version |-> v,
     profile |-> c.profile, execution_digest |-> x, failure |-> failure]

IndexReceipt(run, p, x, t, key, verify_key) ==
    [kind |-> "index", run |-> run, key |-> key, version |-> p.version,
     prereg |-> p, execution |-> x, teardown |-> t, verify_key |-> verify_key]

\* There is room for one more of these receipts.
Room(receipts) ==
    /\ Cardinality(receipts) < MaxOfKind
    /\ Cardinality(preregs) + Cardinality(executions) + Cardinality(teardowns)
         + Cardinality(indexes) < MaxReceipts

BuildPrereg(run, key, v, c) ==
    /\ Room(preregs)
    /\ LET p == PreregReceipt(run, key, v, c)
       IN  /\ validate_prereg_payload(p)
           /\ preregs' = preregs \union {p}
    /\ UNCHANGED <<executions, teardowns, indexes, torn>>

BuildExecution(p, key, v, c, o) ==
    /\ Room(executions)
    /\ LET x == ExecutionReceipt(p, key, v, c, o)
       IN  /\ validate_execution_payload(x)
           /\ executions' = executions \union {x}
    /\ UNCHANGED <<preregs, teardowns, indexes, torn>>

BuildTeardown(x, key, v, c, failure) ==
    /\ Room(teardowns)
    /\ LET t == TeardownReceipt(x, key, v, c, failure)
       IN  /\ validate_teardown_payload(t)
           /\ teardowns' = teardowns \union {t}
    /\ torn' = torn \union {<<x, failure>>}
    /\ UNCHANGED <<preregs, executions, indexes>>

BuildIndex(run, p, x, t, key, verify_key) ==
    /\ Room(indexes)
    /\ indexes' = indexes \union {IndexReceipt(run, p, x, t, key, verify_key)}
    /\ UNCHANGED <<preregs, executions, teardowns, torn>>

Next == \E key \in Key :
    \/ \E run \in RunName, v \in 2 .. 3, c \in Context :
           BuildPrereg(run, key, v, c)
    \/ \E p \in preregs, v \in 2 .. 3, c \in Context, o \in Observation :
           BuildExecution(p, key, v, c, o)
    \/ \E x \in executions, v \in 2 .. 3, c \in Context, failure \in BOOLEAN :
           BuildTeardown(x, key, v, c, failure)
    \/ \E run \in RunName, p \in preregs, x \in executions, t \in teardowns,
          verify_key \in Key :
           BuildIndex(run, p, x, t, key, verify_key)

Spec == Init /\ [][Next]_vars

-----------------------------------------------------------------------------
(* Properties                                                              *)

Admitted(p, x, t, i) ==
    verify_integrity(p, x, t, i, TrustedKey) /\ evaluate_admission(p, x, t)

\* No mixture of receipts, versions and payloads gets a run admitted whose
\* preregistered prediction was not confirmed (evidence.py:518-549).
PredictionNotEvaded ==
    \A p \in preregs, x \in executions, t \in teardowns, i \in indexes :
        Admitted(p, x, t, i) /\ p.version = 3 =>
            << x.result_kind,
               IF x.result_kind = "admitted_run" THEN x.outcome ELSE x.result_reason,
               x.result_sub_reason >>
            = expected_for(p.scenario)

\* An execution is admitted only if a teardown of that very execution was
\* reported without failure: the clean teardown of another one, put beside it
\* by an index that names both, does not do (evidence.py:436-442).
OwnTeardown ==
    \A p \in preregs, x \in executions, t \in teardowns, i \in indexes :
        Admitted(p, x, t, i) => <<x, FALSE>> \in torn

\* An admitted subject drift ran on another image than the policy's seed
\* (evidence.py:347-360).
DriftHasTwoImages ==
    \A p \in preregs, x \in executions, t \in teardowns, i \in indexes :
        Admitted(p, x, t, i) /\ p.scenario = "subject_drift_second_image"
            => x.seed.image # p.image

\* The drift scenario configured on the seed image itself.
Misconfigured(x) == x.drift_image # None /\ x.seed.image = x.drift_image

\* The four were built one on the other, in one context, under the trusted
\* key, as a driver builds them.
Straight(p, x, t, i) ==
    \E run \in RunName, v \in 2 .. 3, c \in Context :
        /\ p = PreregReceipt(run, TrustedKey, v, c)
        /\ \E o \in Observation : x = ExecutionReceipt(p, TrustedKey, v, c, o)
        /\ \E failure \in BOOLEAN :
               t = TeardownReceipt(x, TrustedKey, v, c, failure)
        /\ i = IndexReceipt(run, p, x, t, TrustedKey, TrustedKey)

\* A chain built in one context verifies, whatever was observed and whatever
\* else was signed: a refuted prediction is a record, not an error.
HonestChainsVerify ==
    \A p \in preregs, x \in executions, t \in teardowns, i \in indexes :
        Straight(p, x, t, i) /\ ~Misconfigured(x)
            => verify_integrity(p, x, t, i, TrustedKey)
=============================================================================
