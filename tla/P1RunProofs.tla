---------------------------- MODULE P1RunProofs ----------------------------
(***************************************************************************)
(* What one P1 command guarantees for every set of corpora, images, keys   *)
(* and commands, and for any number of changes by the others.  None of the *)
(* three invariants is inductive: each says what holds at the end of a     *)
(* sequence of calls, and IInv says what holds between two of them.        *)
(***************************************************************************)
EXTENDS P1Run, TLAPS

Signing == {"identity"} \cup DiskCalls \cup {"sign"}

Signed == {"release", "report"}

\* What an entry of the manifest says its fixture is.
Sealed(f) ==
    [id |-> f, label |-> corpus.manifest[f].label,
     payload |-> corpus.manifest[f].payload_digest]

CorpusIsSealed ==
    /\ corpus.fixtures = {Sealed(f) : f \in Entries}
    /\ \A l \in Known : \E f \in Entries : corpus.manifest[f].label = l

\* The fixtures in memory are what the manifest in memory says, from the first
\* that is read on; a run is allocated when all are, and both labels.
CorpusInv ==
    /\ pc = "fixture" =>
        /\ corpus = [manifest |-> corpus.manifest, fixtures |-> corpus.fixtures]
        /\ corpus.fixtures \subseteq {Sealed(f) : f \in Entries}
    /\ pc \in Early => row = "absent"
    /\ pc \in {"allocate"} \cup Tried \cup {"except", "report"} => CorpusIsSealed
    /\ row # "absent" => CorpusIsSealed

\* The outcome is one that gated returns for what the sandbox ran.
Measured ==
    /\ outcome \in CalibrationResults(ran.fixtures, ran.image)
    /\ ran.fixtures = corpus.fixtures

\* The receipts tell the outcome, the corpus and the image of the run, and the
\* operator's key verifies them.
ChainHolds ==
    /\ chain.execution.outcome = MapOutcome(outcome)
    /\ chain.execution.observer_log_digest = canonical_observer_bytes(outcome)
    /\ chain.execution.observer_log_truncated = observer_log_truncated(outcome)
    /\ outcome \in CalibrationResults(ran.fixtures, ran.image)
    /\ IdentityHolds(outcome)
    /\ args.key = args.trusted
    /\ chain.prereg.corpus_version = corpus.manifest
    /\ chain.execution.runtime_pack_digest = runtime_pack
    /\ ran.fixtures = {Sealed(f) : f \in Entries}
    /\ verify_integrity(chain.prereg, chain.execution, chain.teardown,
                        chain.index, args.key)

\* What the run knows at each call: checked arguments, a measured outcome, an
\* identity that holds, a chain.
RunInv ==
    /\ pc \in Running \cup {"exited", "dead"}
    /\ pc \in Running => exit = Absent
    /\ pc \in Running \ {"args"} => ArgumentsOK
    /\ pc \in Signing => Measured
    /\ pc \in Signing \ {"identity"} => IdentityHolds(outcome)
    /\ pc \in {"calibrate"} \cup Signing => prereg = Prereg
    /\ pc \in Early \cup {"prereg", "calibrate"} \cup Signing => chain = Absent
    /\ pc \in Running \ {"report"} => row # "completed"
    /\ pc = "report" => row = "completed"
    /\ row = "active" => pc \in Tried \cup {"except"} \/ stopped # {}
    /\ pc \in Signed \/ chain # Absent \/ row = "completed" => ChainHolds
    /\ exit = 0 => row = "completed" /\ MapOutcome(outcome) = "pass"

\* The whole log of the outcome.
WholeLog == [whole |-> TRUE, bytes |-> canonical_observer_bytes(outcome)]

\* Whatever the disk may give back is named observer.log only if it is whole.
NoTornLog ==
    /\ dir \in BOOLEAN /\ dirDisk \subseteq BOOLEAN
    /\ name \in nameDisk /\ log \in logDisk
    /\ "observer.log" \in nameDisk => \A l \in logDisk : l.whole

\* The log is durable, and so is its name; its directory may not be.
LogIsDurable ==
    name = "observer.log" /\ nameDisk = {name} /\ log = WholeLog /\ logDisk = {log}

\* mkdir, open, write, fsync, replace, fsync: what is there after each call.
LogInv ==
    /\ NoTornLog
    /\ pc \in Early \cup {"prereg", "calibrate", "identity", "mkdir", "open"} => nameDisk = {"none"}
    /\ pc \in {"open", "write", "fsync_file", "replace", "fsync_dir", "sign"} \cup Signed
         => dir = TRUE
    /\ pc \in {"write", "fsync_file", "replace"} =>
         name = "observer.tmp" /\ nameDisk \subseteq {"none", "observer.tmp"}
    /\ pc \in {"fsync_file", "replace", "fsync_dir"} => log = WholeLog
    /\ pc \in {"replace", "fsync_dir"} => logDisk = {log}
    /\ pc = "fsync_dir" => name = "observer.log"
    /\ pc \in {"sign"} \cup Signed => LogIsDurable
    /\ row = "completed" =>
         /\ dir => LogIsDurable
         /\ ~dir => dirDisk = {FALSE} /\ "power" \in stopped

IInv == CorpusInv /\ RunInv /\ LogInv

\* Program counters are compared everywhere.
USE DEF Running, Early, Tried, DiskCalls, Signing, Signed

-----------------------------------------------------------------------------
(* The log on disk                                                         *)

\* What the others do leaves the command's own state alone.
Others ==
    /\ pc \in Running
    /\ UNCHANGED <<pc, args, corpus, results, row, disk, exit, stopped>>

\* A step is the command's, the machine's or the others'.
LEMMA NextCases ==
    ASSUME Next
    PROVE  Step \/ OSError \/ Kill \/ PowerLoss \/ Others
  BY DEF Next, EditFixture, EditManifest, MoveTag, UseCheckout, Change, Others

\* Each call on the disk leaves what the next one needs, and nothing torn under
\* the name observer.log.
LEMMA LogStep ==
    ASSUME CorpusInv, RunInv, LogInv, [Next]_vars
    PROVE  LogInv'
  <1> USE DEF LogInv, NoTornLog, LogIsDurable, WholeLog, RunInv
  <1> USE DEF Goto, Exit, Idle, Within, InMemory, others, results, disk
  <1>1. CASE CheckArguments
    BY <1>1 DEF CheckArguments
  <1>2. CASE RevParse
    BY <1>2 DEF RevParse
  <1>3. CASE Status
    BY <1>3 DEF Status
  <1>4. CASE OpenRegistry
    BY <1>4 DEF OpenRegistry
  <1>5. CASE LoadManifest
    BY <1>5 DEF LoadManifest
  <1>6. ASSUME NEW f \in Fixture, pc = "fixture", LoadFixture(f) PROVE LogInv'
    BY <1>6 DEF LoadFixture
  <1>7. CASE CheckAdequate
    BY <1>7 DEF CheckAdequate
  <1>8. CASE Allocate
    BY <1>8 DEF Allocate
  <1>9. CASE Calibrate
    BY <1>9 DEF Calibrate
  <1>10. CASE CheckIdentity
    BY <1>10 DEF CheckIdentity
  <1>11. CASE Mkdir
    BY <1>11 DEF Mkdir
  <1>12. CASE OpenTmp
    BY <1>12 DEF OpenTmp
  <1>13. CASE WriteTmp
    BY <1>13 DEF WriteTmp
  <1>14. CASE FsyncFile
    BY <1>14 DEF FsyncFile
  <1>15. CASE Replace
    BY <1>15 DEF Replace
  <1>16. CASE FsyncDir
    BY <1>16 DEF FsyncDir
  <1>17. CASE Sign
    BY <1>17 DEF Sign
  <1>18. CASE ReleaseCompleted
    BY <1>18 DEF ReleaseCompleted
  <1>19. CASE ReleaseFailed
    BY <1>19 DEF ReleaseFailed
  <1>20. CASE Report
    BY <1>20 DEF Report
  <1>21. CASE OSError
    BY <1>21 DEF OSError
  <1>22. CASE Kill
    BY <1>22 DEF Kill
  <1>23. CASE PowerLoss
    <2> USE <1>23 DEF PowerLoss
    <2>1. NoTornLog'
      OBVIOUS
    <2>2. ~dir' => dirDisk' = {FALSE} /\ "power" \in stopped'
      OBVIOUS
    <2>3. row = "completed" /\ dir' => LogIsDurable'
      <3>1. SUFFICES ASSUME row = "completed", dir' PROVE LogIsDurable'
        OBVIOUS
      <3>2. LogIsDurable
        BY <3>1
      <3>3. name' = "observer.log" /\ log' = log
        BY <3>1, <3>2
      <3> QED
        BY <3>2, <3>3 DEF canonical_observer_bytes
    <2> QED
      BY <2>1, <2>2, <2>3
  <1>24. CASE Others
    BY <1>24 DEF Others
  <1>26. CASE Preregister
    BY <1>26 DEF Preregister
  <1>25. CASE UNCHANGED vars
    BY <1>25 DEF vars
  <1> QED
    BY NextCases,
       <1>1, <1>2, <1>3, <1>4, <1>5, <1>6, <1>7, <1>8, <1>9,
       <1>10, <1>11, <1>12, <1>13, <1>14, <1>15, <1>16, <1>17,
       <1>18, <1>19, <1>20, <1>21, <1>22, <1>23, <1>24, <1>25, <1>26 DEF Step

-----------------------------------------------------------------------------
(* The corpus in memory                                                    *)

\* A fixture is kept only as its manifest entry says; nothing in memory changes
\* after the run is allocated.
LEMMA CorpusStep ==
    ASSUME CorpusInv, RunInv, [Next]_vars
    PROVE  CorpusInv'
  <1> USE DEF CorpusInv, RunInv, CorpusIsSealed, Sealed, Entries
  <1> USE DEF Goto, Exit, Idle, Within, InMemory, others, results
  <1>1. CASE CheckArguments
    BY <1>1 DEF CheckArguments
  <1>2. CASE RevParse
    BY <1>2 DEF RevParse
  <1>3. CASE Status
    BY <1>3 DEF Status
  <1>4. CASE OpenRegistry
    BY <1>4 DEF OpenRegistry
  <1>5. CASE LoadManifest
    BY <1>5 DEF LoadManifest
  <1>6. ASSUME NEW f \in Fixture, pc = "fixture", LoadFixture(f)
         PROVE  CorpusInv'
    BY <1>6 DEF LoadFixture, FixtureMatches, FixtureRead
  <1>7. CASE CheckAdequate
    BY <1>7 DEF CheckAdequate, Loaded, IsAdequate
  <1>8. CASE Allocate
    BY <1>8 DEF Allocate
  <1>9. CASE Calibrate
    BY <1>9 DEF Calibrate
  <1>10. CASE CheckIdentity
    BY <1>10 DEF CheckIdentity
  <1>11. CASE Mkdir
    BY <1>11 DEF Mkdir
  <1>12. CASE OpenTmp
    BY <1>12 DEF OpenTmp
  <1>13. CASE WriteTmp
    BY <1>13 DEF WriteTmp
  <1>14. CASE FsyncFile
    BY <1>14 DEF FsyncFile
  <1>15. CASE Replace
    BY <1>15 DEF Replace
  <1>16. CASE FsyncDir
    BY <1>16 DEF FsyncDir
  <1>17. CASE Sign
    BY <1>17 DEF Sign
  <1>18. CASE ReleaseCompleted
    BY <1>18 DEF ReleaseCompleted
  <1>19. CASE ReleaseFailed
    BY <1>19 DEF ReleaseFailed
  <1>20. CASE Report
    BY <1>20 DEF Report
  <1>21. CASE OSError
    BY <1>21 DEF OSError
  <1>22. CASE Kill
    BY <1>22 DEF Kill
  <1>23. CASE PowerLoss
    BY <1>23 DEF PowerLoss
  <1>24. CASE Others
    BY <1>24 DEF Others
  <1>26. CASE Preregister
    BY <1>26 DEF Preregister
  <1>25. CASE UNCHANGED vars
    BY <1>25 DEF vars
  <1> QED
    BY NextCases,
       <1>1, <1>2, <1>3, <1>4, <1>5, <1>6, <1>7, <1>8, <1>9,
       <1>10, <1>11, <1>12, <1>13, <1>14, <1>15, <1>16, <1>17,
       <1>18, <1>19, <1>20, <1>21, <1>22, <1>23, <1>24, <1>25, <1>26 DEF Step

-----------------------------------------------------------------------------
(* What the run knows                                                      *)

\* What Sign builds holds: the receipts are read off the run's own state.
LEMMA SignedChain ==
    ASSUME CorpusInv, RunInv, Sign, pc' = "release"
    PROVE  ChainHolds'
  <1> DEFINE p == prereg
             x == Execution(p, outcome)
             t == Teardown(x)
             i == Index(p, x, t)
  <1>1. /\ pc = "sign"
        /\ UNCHANGED <<args, corpus, outcome, ran>> /\ p = Prereg
        /\ chain' = [prereg |-> p, execution |-> x, teardown |-> t, index |-> i]
        /\ verify_integrity(p, x, t, i, args.key)
    BY DEF Sign, Within, RunInv
  <1>2. /\ x.outcome = MapOutcome(outcome)
        /\ x.observer_log_digest = canonical_observer_bytes(outcome)
        /\ x.observer_log_truncated = observer_log_truncated(outcome)
        /\ x.runtime_pack_digest = runtime_pack
        /\ p.corpus_version = corpus.manifest
    BY <1>1 DEF Execution, Prereg
  <1>3. /\ outcome \in CalibrationResults(ran.fixtures, ran.image)
        /\ IdentityHolds(outcome) /\ args.key = args.trusted
        /\ ran.fixtures = {Sealed(f) : f \in Entries}
    BY <1>1 DEF RunInv, CorpusInv, CorpusIsSealed, Measured, ArgumentsOK
  <1>4. /\ chain'.prereg = p /\ chain'.execution = x
        /\ chain'.teardown = t /\ chain'.index = i
    BY <1>1
  <1> HIDE DEF p, x, t, i
  <1>5. IdentityHolds(outcome)' /\ (ran.fixtures = {Sealed(f) : f \in Entries})'
    BY <1>1, <1>3 DEF IdentityHolds, Sealed, Entries
  <1> QED
    BY <1>1, <1>2, <1>3, <1>4, <1>5 DEF ChainHolds, runtime_pack

\* Each call knows what the calls before it have checked.
LEMMA RunStep ==
    ASSUME CorpusInv, RunInv, [Next]_vars
    PROVE  RunInv'
  <1> USE DEF RunInv, ArgumentsOK, Measured, IdentityHolds, ChainHolds, runtime_pack
  <1> USE DEF Sealed, Entries, Goto, Exit, Idle, Within, InMemory, others, results, Prereg
  <1>1. CASE CheckArguments
    BY <1>1 DEF CheckArguments
  <1>2. CASE RevParse
    BY <1>2 DEF RevParse
  <1>3. CASE Status
    BY <1>3 DEF Status
  <1>4. CASE OpenRegistry
    BY <1>4 DEF OpenRegistry
  <1>5. CASE LoadManifest
    BY <1>5 DEF LoadManifest
  <1>6. ASSUME NEW f \in Fixture, pc = "fixture", LoadFixture(f)
         PROVE  RunInv'
    BY <1>6 DEF LoadFixture
  <1>7. CASE CheckAdequate
    BY <1>7 DEF CheckAdequate
  <1>8. CASE Allocate
    BY <1>8 DEF Allocate
  <1>9. CASE Calibrate
    BY <1>9 DEF Calibrate
  <1>10. CASE CheckIdentity
    BY <1>10 DEF CheckIdentity
  <1>11. CASE Mkdir
    BY <1>11 DEF Mkdir
  <1>12. CASE OpenTmp
    BY <1>12 DEF OpenTmp
  <1>13. CASE WriteTmp
    BY <1>13 DEF WriteTmp
  <1>14. CASE FsyncFile
    BY <1>14 DEF FsyncFile
  <1>15. CASE Replace
    BY <1>15 DEF Replace
  <1>16. CASE FsyncDir
    BY <1>16 DEF FsyncDir
  <1>17. CASE Sign
    <2> USE <1>17
    <2>1. CASE pc' = "except"
      BY <2>1 DEF Sign
    <2>2. CASE pc' = "release"
      <3>1. ChainHolds'
        BY <2>2, SignedChain
      <3> QED
        BY <2>2, <3>1 DEF Sign
    <2> QED
      BY <2>1, <2>2 DEF Sign
  <1>18. CASE ReleaseCompleted
    BY <1>18 DEF ReleaseCompleted
  <1>19. CASE ReleaseFailed
    BY <1>19 DEF ReleaseFailed
  <1>20. CASE Report
    BY <1>20, P1Assumption DEF Report, ExitCode
  <1>21. CASE OSError
    BY <1>21 DEF OSError
  <1>22. CASE Kill
    BY <1>22 DEF Kill
  <1>23. CASE PowerLoss
    BY <1>23 DEF PowerLoss
  <1>24. CASE Others
    BY <1>24 DEF Others
  <1>26. CASE Preregister
    BY <1>26 DEF Preregister
  <1>25. CASE UNCHANGED vars
    BY <1>25 DEF vars
  <1> QED
    BY NextCases,
       <1>1, <1>2, <1>3, <1>4, <1>5, <1>6, <1>7, <1>8, <1>9,
       <1>10, <1>11, <1>12, <1>13, <1>14, <1>15, <1>16, <1>17,
       <1>18, <1>19, <1>20, <1>21, <1>22, <1>23, <1>24, <1>25, <1>26 DEF Step

-----------------------------------------------------------------------------
(* The theorems                                                            *)

\* Nothing is read, run or written yet.
LEMMA InitIInv == Init => IInv
  <1> SUFFICES ASSUME Init PROVE IInv
    OBVIOUS
  <1> USE DEF Init
  <1>1. CorpusInv
    BY DEF CorpusInv
  <1>2. RunInv
    BY P1Assumption DEF RunInv
  <1>3. LogInv
    BY DEF LogInv, NoTornLog
  <1> QED
    BY <1>1, <1>2, <1>3 DEF IInv

\* IInv holds of every state that the command, the others and the machine reach.
THEOREM Invariance == Spec => []IInv
  <1>1. IInv /\ [Next]_vars => IInv'
    BY CorpusStep, RunStep, LogStep DEF IInv
  <1> QED
    BY <1>1, InitIInv, PTL DEF Spec

\* MapOutcome reads three fields.
LEMMA MapOutcomeReads ==
    ASSUME NEW a, NEW b, a.inadequate = b.inadequate,
           a.harness_errors = b.harness_errors, a.passed = b.passed
    PROVE  MapOutcome(a) = MapOutcome(b)
  BY DEF MapOutcome

\* The sealed fixtures, and the manifest's entries, hold the same payloads.
LEMMA SealedImage ==
    ASSUME NEW S, S = {Sealed(f) : f \in Entries}
    PROVE  /\ {[id |-> x.id, label |-> x.label, payload_digest |-> x.payload] :
                  x \in S}
              = {[id |-> f, label |-> corpus.manifest[f].label,
                  payload_digest |-> corpus.manifest[f].payload_digest] : f \in Entries}
           /\ {[id |-> x.id, payload |-> x.payload] : x \in S}
              = {[id |-> f, payload |-> corpus.manifest[f].payload_digest] :
                    f \in Entries}
  <1>1. \A f \in Entries :
          /\ Sealed(f).id = f
          /\ Sealed(f).label = corpus.manifest[f].label
          /\ Sealed(f).payload = corpus.manifest[f].payload_digest
    BY DEF Sealed
  <1>2. /\ \A x \in S : \E f \in Entries : x = Sealed(f)
        /\ \A f \in Entries : Sealed(f) \in S
    OBVIOUS
  <1> QED
    BY <1>1, <1>2

\* A passing outcome was measured on the image the operator pinned.
LEMMA VerdictHasIdentity ==
    ASSUME ChainHolds, MapOutcome(outcome) # "error"
    PROVE  ran.image = args.digest
  <1>1. outcome.execution_identity \in {ran.image, Absent}
    BY DEF ChainHolds, CalibrationResults
  <1>2. outcome.execution_identity # Absent
        /\ outcome.execution_identity \in {Absent, args.digest}
    BY DEF ChainHolds, IdentityHolds
  <1> QED
    BY <1>1, <1>2

\* Exit code 0 means a completed run whose passing verdict, on the image the
\* operator pinned, the operator's key verifies (cli.main).
THEOREM ExitCodeIsEvidence == Spec => []ExitZeroIsEvidence
  <1>1. IInv => ExitZeroIsEvidence
    <2> SUFFICES ASSUME IInv, exit = 0
                 PROVE  /\ row = "completed" /\ outcome.passed
                        /\ ran.image = args.digest
                        /\ verify_integrity(chain.prereg, chain.execution,
                               chain.teardown, chain.index, args.trusted)
      BY DEF ExitZeroIsEvidence
    <2>1. row = "completed" /\ MapOutcome(outcome) = "pass" /\ ChainHolds
      BY DEF IInv, RunInv
    <2>2. outcome.passed
      BY <2>1 DEF MapOutcome
    <2>3. ran.image = args.digest
      BY <2>1, VerdictHasIdentity
    <2> QED
      BY <2>1, <2>2, <2>3 DEF ChainHolds
  <1> QED
    BY <1>1, Invariance, PTL

\* No log is torn, and a completed run's log, while its directory is there, is
\* the one its receipts digest, for any loss of power between two calls
\* (_write_atomic).
THEOREM LogIsWhole == Spec => []LogIsTheSignedOne
  <1>1. IInv => LogIsTheSignedOne
    <2> SUFFICES ASSUME IInv PROVE LogIsTheSignedOne
      OBVIOUS
    <2>1. name = "observer.log" => log.whole
      BY DEF IInv, LogInv, NoTornLog
    <2>2. row = "completed" => dir \/ "power" \in stopped
      BY DEF IInv, LogInv
    <2>3. ASSUME row = "completed", dir
          PROVE  /\ name = "observer.log"
                 /\ log.bytes = chain.execution.observer_log_digest
                 /\ ~chain.execution.observer_log_truncated =>
                      /\ log.bytes.stdout = ran.fixtures
                      /\ log.bytes.stderr # Absent
                      /\ MapOutcome(log.bytes.stderr) = chain.execution.outcome
      <3>1. name = "observer.log" /\ log.bytes = canonical_observer_bytes(outcome)
        BY <2>3 DEF IInv, LogInv, LogIsDurable, WholeLog
      <3>2. ChainHolds
        BY <2>3 DEF IInv, RunInv
      <3>3. ASSUME ~observer_log_truncated(outcome)
            PROVE  /\ log.bytes.stdout = outcome.fixture_outcomes
                   /\ log.bytes.stderr # Absent
                   /\ MapOutcome(log.bytes.stderr) = MapOutcome(outcome)
        <4>1. /\ log.bytes.stdout = outcome.fixture_outcomes
              /\ log.bytes.stderr = [passed |-> outcome.passed,
                                     inadequate |-> outcome.inadequate,
                                     harness_errors |-> outcome.harness_errors]
          BY <3>1, <3>3 DEF canonical_observer_bytes, observer_log_truncated
        <4>2. /\ outcome.passed \in BOOLEAN /\ outcome.inadequate \in BOOLEAN
              /\ outcome.harness_errors \in BOOLEAN
          BY <3>2 DEF ChainHolds, CalibrationResults
        <4>3. log.bytes.stderr # Absent
          BY <4>1, <4>2, P1Assumption
        <4> QED
          BY <4>1, <4>3, MapOutcomeReads
      <3>4. outcome.fixture_outcomes = ran.fixtures
        BY <3>2 DEF ChainHolds, CalibrationResults
      <3> QED
        BY <3>1, <3>2, <3>3, <3>4 DEF ChainHolds
    <2> QED
      BY <2>1, <2>2, <2>3 DEF LogIsTheSignedOne
  <1> QED
    BY <1>1, Invariance, PTL

\* A run is over a sealed corpus of both labels, and the receipts of a verdict
\* bind the corpus and the image that the sandbox ran, whatever the others have
\* changed meanwhile (_load_corpus, run).
THEOREM ReceiptsBindWhatRan == Spec => []VerdictBindsWhatRan
  <1>1. IInv => VerdictBindsWhatRan
    <2> SUFFICES ASSUME IInv PROVE VerdictBindsWhatRan
      OBVIOUS
    <2>1. ASSUME row # "absent"
          PROVE  /\ \A l \in Known : \E f \in Entries : corpus.manifest[f].label = l
                 /\ {[id |-> x.id, label |-> x.label, payload_digest |-> x.payload] :
                        x \in corpus.fixtures}
                    = {[id |-> f, label |-> corpus.manifest[f].label,
                        payload_digest |-> corpus.manifest[f].payload_digest] :
                          f \in Entries}
      <3>1. CorpusIsSealed
        BY <2>1 DEF IInv, CorpusInv
      <3> QED
        BY <3>1, SealedImage DEF CorpusIsSealed
    <2>2. ASSUME chain # Absent, chain.execution.outcome \in {"pass", "fail"}
          PROVE  /\ ran.image = chain.execution.runtime_pack_digest.toolchain_image
                 /\ chain.prereg.corpus_version
                      = chain.execution.runtime_pack_digest.corpus
                 /\ {[id |-> x.id, payload |-> x.payload] : x \in ran.fixtures}
                    = {[id |-> f,
                        payload |-> chain.prereg.corpus_version[f].payload_digest] :
                          f \in DOMAIN chain.prereg.corpus_version}
      <3>1. ChainHolds
        BY <2>2 DEF IInv, RunInv
      <3>2. ran.image = args.digest
        BY <2>2, <3>1, VerdictHasIdentity DEF ChainHolds
      <3>3. /\ chain.execution.runtime_pack_digest.toolchain_image = args.digest
            /\ chain.execution.runtime_pack_digest.corpus = corpus.manifest
        BY <3>1 DEF ChainHolds, runtime_pack
      <3>4. {[id |-> x.id, payload |-> x.payload] : x \in ran.fixtures}
            = {[id |-> f, payload |-> corpus.manifest[f].payload_digest] :
                  f \in Entries}
        BY <3>1, SealedImage DEF ChainHolds
      <3> QED
        BY <3>1, <3>2, <3>3, <3>4 DEF ChainHolds, Entries
    <2> QED
      BY <2>1, <2>2 DEF VerdictBindsWhatRan
  <1> QED
    BY <1>1, Invariance, PTL

\* A row is left active only by a kill, a loss of power or a registry that refuses
\* the release of the except clause: no return, exit or exception of the command
\* forgets it (the try and except of run).
THEOREM NoRowForgotten ==
    Spec => [](row = "active" /\ pc \notin Running => stopped # {})
  <1>1. IInv => (row = "active" /\ pc \notin Running => stopped # {})
    BY DEF IInv, RunInv
  <1> QED
    BY <1>1, Invariance, PTL
=============================================================================
