------------------------------- MODULE P1Run -------------------------------
(***************************************************************************)
(* One `gated-uat run p1` (cli.py): the checks of the command, the corpus, *)
(* the run of profiles/p1_regression.py around one calibration of gated's, *)
(* its receipts, its log on disk and its exit code, while a corpus author, *)
(* whoever builds images and whoever uses the pinned checkout go on with   *)
(* their work, and the process or the machine may stop between two calls.  *)
(*                                                                         *)
(* A digest is the value digested.  The runs directory is there, durably,  *)
(* before the command; each piece of what the run puts in it has a value   *)
(* that is seen and a set of values a power loss will leave one of.        *)
(***************************************************************************)
EXTENDS EvidenceChain

CONSTANTS
    Fixture,        \* directories under corpora/fixtures
    Payload,        \* what a main.py may hold
    Manifests,      \* what manifest.json may hold
    Image, Key,
    Command,        \* the commands an operator may give
    MaxChanges,     \* bound: what the others do during the command
    Absent          \* no such file; no such value

ASSUME P1Assumption ==
    /\ MaxChanges \in Nat
    /\ Absent # 0
    /\ \A p, i, h \in BOOLEAN :
           Absent # [passed |-> p, inadequate |-> i, harness_errors |-> h]

VARIABLES
    pc,
    args,                   \* the command given
    manifest, file,         \* manifest.json; file[f]: fixtures/<f>/main.py
    tag,                    \* the image that image_ref names
    checkout,               \* the pin worktree
    changes,
    corpus,                 \* manifest and payloads in memory
    outcome,                \* the CalibrationOutcome
    prereg,                 \* the preregistration receipt
    chain,                  \* prereg, execution, teardown and index
    row,                    \* the run's row in the registry
    dir, dirDisk,           \* the entry of <run_id> in the runs directory
    name, nameDisk,         \* what the log is called in it
    log, logDisk,           \* what the log holds
    exit,                   \* the exit code
    stopped,                \* killed, without power, or refused twice by the registry
    ran                     \* history: what the sandbox ran

others  == <<manifest, file, tag, checkout, changes>>
disk    == <<dir, dirDisk, name, nameDisk, log, logDisk>>
results == <<outcome, prereg, chain, ran>>
vars == <<pc, args, others, corpus, results, row, disk, exit, stopped>>

Checkout == {"pinned", "dirty", "other", "absent"}

DiskCalls == {"mkdir", "open", "write", "fsync_file", "replace", "fsync_dir"}

\* The calls inside the try of run: an exception at one of them is settled.
Tried == {"prereg", "calibrate", "identity", "sign", "release"} \cup DiskCalls

Early == {"args", "rev_parse", "status", "registry", "manifest", "fixture",
          "allocate"}

Running == Early \cup Tried \cup {"except", "report"}

Init ==
    /\ pc = "args" /\ args \in Command
    /\ manifest \in Manifests /\ file \in [Fixture -> Payload]
    /\ tag \in Image /\ checkout \in Checkout /\ changes = 0
    /\ corpus = Absent /\ outcome = Absent /\ ran = Absent
    /\ prereg = Absent /\ chain = Absent
    /\ row = "absent"
    /\ dir = FALSE /\ dirDisk = {FALSE}
    /\ name = "none" /\ nameDisk = {"none"}
    /\ log = Absent /\ logDisk = {Absent}
    /\ exit = Absent /\ stopped = {}

Goto(from, to) == pc = from /\ pc' = to

Exit(from, code) == Goto(from, "exited") /\ exit' = code

-----------------------------------------------------------------------------
(* The command before the run: nothing is allocated yet                    *)

Idle == UNCHANGED <<args, others, results, row, disk, stopped>>

\* The image digest is well formed, the key file exists, and the key is the
\* one the operator trusts.
ArgumentsOK ==
    /\ args.digest \in Image
    /\ args.key \in Key
    /\ args.key = args.trusted

CheckArguments ==
    /\ IF ArgumentsOK
       THEN Goto("args", "rev_parse") /\ UNCHANGED exit
       ELSE Exit("args", 2)
    /\ Idle /\ UNCHANGED corpus

\* verify_gated_dependency asks git twice.
RevParse ==
    /\ IF checkout \in {"pinned", "dirty"}
       THEN Goto("rev_parse", "status") /\ UNCHANGED exit
       ELSE Exit("rev_parse", 1)
    /\ Idle /\ UNCHANGED corpus

Status ==
    /\ IF checkout \in {"pinned", "other"}
       THEN Goto("status", "registry") /\ UNCHANGED exit
       ELSE Exit("status", 1)
    /\ Idle /\ UNCHANGED corpus

\* Registry(...) opens the file or, still contended after its retries, raises.
OpenRegistry ==
    /\ \/ Goto("registry", "manifest") /\ UNCHANGED exit
       \/ Exit("registry", 1)
    /\ Idle /\ UNCHANGED corpus

\* A missing, unreadable or empty manifest is refused.
LoadManifest ==
    /\ IF manifest = Absent \/ DOMAIN manifest = {}
       THEN Exit("manifest", 1) /\ UNCHANGED corpus
       ELSE /\ Goto("manifest", "fixture") /\ UNCHANGED exit
            /\ corpus' = [manifest |-> manifest, fixtures |-> {}]
    /\ Idle

Entries == DOMAIN corpus.manifest

Loaded == {x.id : x \in corpus.fixtures}

Known == {"KNOWN_GOOD", "KNOWN_BAD"}

FixtureRead(f) ==
    [id |-> f, label |-> corpus.manifest[f].label, payload |-> file[f]]

\* Mutant: the fixture is taken as it is.
FixtureMatches_Unchecked(f) ==
    corpus.manifest[f].label \in Known /\ file[f] # Absent

FixtureMatches(f) ==
    /\ corpus.manifest[f].label \in Known
    /\ file[f] # Absent
    /\ file[f] = corpus.manifest[f].payload_digest

\* One entry of the manifest: its file is read once, checked and kept.
LoadFixture(f) ==
    /\ f \in Entries \ Loaded
    /\ IF FixtureMatches(f)
       THEN /\ pc = "fixture" /\ UNCHANGED <<pc, exit>>
            /\ corpus' = [corpus EXCEPT !.fixtures = @ \cup {FixtureRead(f)}]
       ELSE Exit("fixture", 1) /\ UNCHANGED corpus
    /\ Idle

IsAdequate(fixtures) == \A l \in Known : \E x \in fixtures : x.label = l

\* The vacuity guard; then the runtime pack, which only records.
CheckAdequate ==
    /\ pc = "fixture" /\ Loaded = Entries
    /\ IF IsAdequate(corpus.fixtures)
       THEN pc' = "allocate" /\ UNCHANGED exit
       ELSE Exit("fixture", 1)
    /\ Idle /\ UNCHANGED corpus

runtime_pack == [toolchain_image |-> args.digest, corpus |-> corpus.manifest]

Allocate ==
    /\ \/ Goto("allocate", "prereg") /\ row' = "active" /\ UNCHANGED exit
       \/ Exit("allocate", 1) /\ UNCHANGED row
    /\ UNCHANGED <<args, others, corpus, results, disk, stopped>>

-----------------------------------------------------------------------------
(* The run: what raises from here on goes through the except clause        *)

Within == UNCHANGED <<args, others, corpus, exit, stopped>>

Prereg ==
    [kind |-> "prereg", run |-> "run", key |-> args.key, version |-> 2,
     profile |-> "p1", gated_commit |-> "pinned", corpus_version |-> corpus.manifest,
     scenario |-> None, expected |-> NoPrediction]

\* The preregistration is built and signed before anything runs.
Preregister ==
    /\ pc = "prereg"
    /\ IF validate_prereg_payload(Prereg)
       THEN pc' = "calibrate" /\ prereg' = Prereg
       ELSE pc' = "except" /\ UNCHANGED prereg
    /\ Within /\ UNCHANGED <<outcome, chain, ran, row, disk>>

\* What one guarded_backend() and one calibrate() of gated's may return on the
\* fixtures given, on the image the sandbox resolved: an inadequate set or an
\* inconclusive fixture never passes; the rest is gated's.  Its records, or its
\* summary with the names of the failures, may be larger than the log's cap.
CalibrationResults(fixtures, image) ==
    {o \in [fixture_outcomes : {fixtures},
            passed : BOOLEAN, inadequate : BOOLEAN, harness_errors : BOOLEAN,
            execution_identity : {image, Absent},
            provenance : BOOLEAN, policies_consistent : BOOLEAN,
            large_out : BOOLEAN, large_err : BOOLEAN] :
        o.passed => ~o.inadequate /\ ~o.harness_errors}

\* GatedCalibrationAdapter.run: one calibration, or an exception of gated's.
Calibrate ==
    /\ \/ /\ Goto("calibrate", "identity")
          /\ outcome' \in CalibrationResults(corpus.fixtures, tag)
          /\ ran' = [fixtures |-> corpus.fixtures, image |-> tag]
       \/ Goto("calibrate", "except") /\ UNCHANGED <<outcome, ran>>
    /\ Within /\ UNCHANGED <<prereg, chain, row, disk>>

MapOutcome(o) ==
    IF o.inadequate \/ o.harness_errors THEN "error"
    ELSE IF o.passed THEN "pass" ELSE "fail"

\* No verdict without a measured identity, no other identity than the pinned.
IdentityHolds(o) ==
    /\ o.execution_identity = Absent => MapOutcome(o) = "error"
    /\ o.execution_identity \in {Absent, args.digest}

CheckIdentity ==
    /\ Goto("identity", IF IdentityHolds(outcome) THEN "mkdir" ELSE "except")
    /\ Within /\ UNCHANGED <<results, row, disk>>

\* The framed artifact: the records and the summary.  One that is cut at the
\* cap is JSON no longer.
canonical_observer_bytes(o) ==
    [stdout |-> IF o.large_out THEN Absent ELSE o.fixture_outcomes,
     stderr |-> IF o.large_err THEN Absent
                ELSE [passed |-> o.passed, inadequate |-> o.inadequate,
                      harness_errors |-> o.harness_errors]]

observer_log_truncated(o) == o.large_out \/ o.large_err

-----------------------------------------------------------------------------
(* observer.log: mkdir and _write_atomic                                   *)

InMemory == UNCHANGED <<results, row>>

Mkdir ==
    /\ Goto("mkdir", "open")
    /\ dir' = TRUE /\ dirDisk' = dirDisk \cup {TRUE}
    /\ Within /\ InMemory /\ UNCHANGED <<name, nameDisk, log, logDisk>>

OpenTmp ==
    /\ Goto("open", "write")
    /\ name' = "observer.tmp" /\ nameDisk' = nameDisk \cup {"observer.tmp"}
    /\ log' = [whole |-> FALSE, bytes |-> Absent] /\ logDisk' = {log'}
    /\ Within /\ InMemory /\ UNCHANGED <<dir, dirDisk>>

WriteTmp ==
    /\ Goto("write", "fsync_file")
    /\ log' = [whole |-> TRUE, bytes |-> canonical_observer_bytes(outcome)]
    /\ logDisk' = logDisk \cup {log'}
    /\ Within /\ InMemory /\ UNCHANGED <<dir, dirDisk, name, nameDisk>>

\* Mutant: flush without fsync.
FsyncFile_Skipped ==
    /\ Goto("fsync_file", "replace")
    /\ Within /\ InMemory /\ UNCHANGED disk

FsyncFile ==
    /\ Goto("fsync_file", "replace")
    /\ logDisk' = {log}
    /\ Within /\ InMemory /\ UNCHANGED <<dir, dirDisk, name, nameDisk, log>>

Replace ==
    /\ Goto("replace", "fsync_dir")
    /\ name' = "observer.log" /\ nameDisk' = nameDisk \cup {"observer.log"}
    /\ Within /\ InMemory /\ UNCHANGED <<dir, dirDisk, log, logDisk>>

\* The run's directory is fsynced, the directory it is an entry of is not.
FsyncDir ==
    /\ Goto("fsync_dir", "sign")
    /\ nameDisk' = {name}
    /\ Within /\ InMemory /\ UNCHANGED <<dir, dirDisk, name, log, logDisk>>

OSError ==
    /\ pc \in DiskCalls
    /\ pc' = "except"
    /\ Within /\ InMemory /\ UNCHANGED disk

-----------------------------------------------------------------------------
(* Receipts, release, exit code                                            *)

Execution(p, o) ==
    [kind |-> "execution", run |-> "run", key |-> args.key, version |-> 2,
     profile |-> "p1", gated_commit |-> "pinned", prereg_digest |-> p,
     outcome |-> MapOutcome(o), runtime_pack_digest |-> runtime_pack,
     observer_log_digest |-> canonical_observer_bytes(o),
     observer_log_truncated |-> observer_log_truncated(o),
     provenance |-> o.provenance, policies_consistent |-> o.policies_consistent,
     execution_identity |-> o.execution_identity,
     scenario |-> None, result_kind |-> None]

Teardown(x) ==
    [kind |-> "teardown", run |-> "run", key |-> args.key, version |-> 2,
     profile |-> "p1", execution_digest |-> x, failure |-> FALSE,
     runtime_pack_digest |-> runtime_pack]

Index(p, x, t) ==
    [kind |-> "index", run |-> "run", key |-> args.key, version |-> 2,
     prereg |-> p, execution |-> x, teardown |-> t, verify_key |-> args.key]

\* A verdict carries its provenance, under one policy; an error may not.  The
\* adapter has all four digests of a verdict or lacks some.
validate_execution_payload_v2(x) ==
    /\ validate_execution_payload(x)
    /\ x.outcome \in {"pass", "fail"} =>
        /\ x.provenance /\ x.execution_identity # Absent
        /\ x.policies_consistent

\* Execution, teardown and index are built on it and on one another, and the
\* four are verified.
Sign ==
    /\ pc = "sign"
    /\ LET x == Execution(prereg, outcome)
           t == Teardown(x)
           i == Index(prereg, x, t)
       IN  IF validate_execution_payload_v2(x) /\ verify_integrity(prereg, x, t, i, args.key)
           THEN /\ pc' = "release"
                /\ chain' = [prereg |-> prereg, execution |-> x, teardown |-> t, index |-> i]
           ELSE pc' = "except" /\ UNCHANGED chain
    /\ Within /\ UNCHANGED <<outcome, prereg, ran, row, disk>>

\* release(COMPLETED) is inside the try: refused, it is followed by FAILED.
ReleaseCompleted ==
    /\ \/ Goto("release", "report") /\ row' = "completed"
       \/ Goto("release", "except") /\ UNCHANGED row
    /\ Within /\ UNCHANGED <<results, disk>>

\* Mutant: the failure is reported, the row forgotten.
ReleaseFailed_Forgotten ==
    /\ Exit("except", 1)
    /\ UNCHANGED <<args, others, corpus, results, row, disk, stopped>>

\* except Exception: release as FAILED, raise again; the command exits 1.
ReleaseFailed ==
    /\ Exit("except", 1)
    /\ \/ row' = "failed" /\ UNCHANGED stopped
       \/ UNCHANGED row /\ stopped' = stopped \cup {"refused"}
    /\ UNCHANGED <<args, others, corpus, results, disk>>

is_admitted == evaluate_admission(chain.prereg, chain.execution, chain.teardown)

\* Mutant: an admitted chain is a success.
ExitCode_Admitted == IF is_admitted THEN 0 ELSE 1

ExitCode == IF is_admitted /\ chain.execution.outcome = "pass" THEN 0 ELSE 1

Report ==
    /\ Exit("report", ExitCode)
    /\ Idle /\ UNCHANGED corpus

-----------------------------------------------------------------------------
(* The others, and the machine                                             *)

Change ==
    /\ pc \in Running /\ changes < MaxChanges
    /\ changes' = changes + 1
    /\ UNCHANGED <<pc, args, corpus, results, row, disk, exit, stopped>>

\* The author of the corpus saves a fixture, or the manifest.
EditFixture(f, c) ==
    /\ Change /\ file' = [file EXCEPT ![f] = c] /\ UNCHANGED <<manifest, tag, checkout>>

EditManifest(m) ==
    /\ Change /\ manifest' = m /\ UNCHANGED <<file, tag, checkout>>

\* The image is built again under its name.
MoveTag(i) ==
    /\ Change /\ tag' = i /\ UNCHANGED <<manifest, file, checkout>>

UseCheckout(c) ==
    /\ Change /\ checkout' = c /\ UNCHANGED <<manifest, file, tag>>

\* A signal that python does not turn into an Exception.
Kill ==
    /\ pc \in Running
    /\ pc' = "dead" /\ stopped' = stopped \cup {"kill"}
    /\ UNCHANGED <<args, others, corpus, results, row, disk, exit>>

\* One value of each piece is left; a committed row is (SQLite syncs it).
PowerLoss ==
    /\ pc' = IF pc = "exited" THEN pc ELSE "dead"
    /\ stopped' = stopped \cup {"power"}
    /\ dir' \in dirDisk
    /\ name' \in IF dir' THEN nameDisk ELSE {"none"}
    /\ log' \in IF name' # "none" THEN logDisk ELSE {Absent}
    /\ dirDisk' = {dir'} /\ nameDisk' = {name'} /\ logDisk' = {log'}
    /\ UNCHANGED <<args, others, corpus, results, row, exit>>

Step ==
    \/ CheckArguments \/ RevParse \/ Status \/ OpenRegistry \/ LoadManifest
    \/ (pc = "fixture" /\ \E f \in Fixture : LoadFixture(f))
    \/ CheckAdequate \/ Allocate \/ Preregister \/ Calibrate \/ CheckIdentity
    \/ Mkdir \/ OpenTmp \/ WriteTmp \/ FsyncFile \/ Replace \/ FsyncDir
    \/ Sign \/ ReleaseCompleted \/ ReleaseFailed \/ Report

Next ==
    \/ Step \/ OSError \/ Kill \/ PowerLoss
    \/ \E f \in Fixture, c \in Payload : EditFixture(f, c)
    \/ \E m \in Manifests : EditManifest(m)
    \/ \E i \in Image : MoveTag(i)
    \/ \E c \in Checkout : UseCheckout(c)

Spec == Init /\ [][Next]_vars

\* The process goes on until it exits or is stopped; nothing makes the others
\* change anything.
FairSpec == Spec /\ WF_vars(Step)

-----------------------------------------------------------------------------
(* Properties                                                              *)

\* A run exists only over a corpus of both labels, each fixture of its manifest
\* with the payload the manifest names; and what a verdict's receipts bind (the
\* manifest and the image of the runtime pack) is what the sandbox ran, whatever
\* became of corpus and tag meanwhile (p1_regression._load_corpus, run 5a).
VerdictBindsWhatRan ==
    /\ row # "absent" =>
        /\ \A l \in Known : \E f \in Entries : corpus.manifest[f].label = l
        /\ {[id |-> x.id, label |-> x.label, payload_digest |-> x.payload] :
               x \in corpus.fixtures}
           = {[id |-> f, label |-> corpus.manifest[f].label,
               payload_digest |-> corpus.manifest[f].payload_digest] : f \in Entries}
    /\ chain # Absent /\ chain.execution.outcome \in {"pass", "fail"} =>
        /\ ran.image = chain.execution.runtime_pack_digest.toolchain_image
        /\ chain.prereg.corpus_version = chain.execution.runtime_pack_digest.corpus
        /\ {[id |-> x.id, payload |-> x.payload] : x \in ran.fixtures}
           = {[id |-> f, payload |-> chain.prereg.corpus_version[f].payload_digest] :
                 f \in DOMAIN chain.prereg.corpus_version}

\* "exit 0 only when both conditions hold" (cli.py:128): the operator's key
\* verifies the chain, its row is COMPLETED, and the calibration passed on the
\* image the operator pinned.
ExitZeroIsEvidence ==
    exit = 0 =>
        /\ row = "completed" /\ outcome.passed
        /\ ran.image = args.digest
        /\ verify_integrity(chain.prereg, chain.execution, chain.teardown,
                            chain.index, args.trusted)

\* "never leaves a torn or partial observer.log" (p1_regression._write_atomic):
\* not even a power loss does; and as long as its directory is there, a
\* COMPLETED run's log is, is the one its execution receipt digests, and, unless
\* the receipt says that it was cut (observer_log_truncated, "True if either was
\* truncated"), tells what the sandbox ran and the verdict signed beside it.  A
\* power loss may take the directory: run makes it without syncing the one it is
\* an entry of.
LogIsTheSignedOne ==
    /\ name = "observer.log" => log.whole
    /\ row = "completed" => dir \/ "power" \in stopped
    /\ row = "completed" /\ dir =>
        /\ name = "observer.log"
        /\ log.bytes = chain.execution.observer_log_digest
        /\ ~chain.execution.observer_log_truncated =>
            /\ log.bytes.stdout = ran.fixtures
            /\ log.bytes.stderr # Absent
            /\ MapOutcome(log.bytes.stderr) = chain.execution.outcome

\* An allocated run comes to a terminal state, unless its process is stopped or
\* the registry refuses its release (run's except clause).
P1RowSettles ==
    row = "active" ~> (row \in {"completed", "failed"} \/ stopped # {})
=============================================================================
