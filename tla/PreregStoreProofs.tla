-------------------------- MODULE PreregStoreProofs --------------------------
(***************************************************************************)
(* For every set of runs: no reader ever sees a torn prediction, and the   *)
(* contract of _persist_prereg holds for a run that made runs_dir itself   *)
(* or found it as it was before any run; after that, only the loss of      *)
(* runs_dir itself takes a prediction away.                                *)
(***************************************************************************)
EXTENDS PreregStore, TLAPS

Whole(r) == content[r] = "whole" /\ contentDisk[r] = {"whole"}

\* The file gets its final name when all of it is on disk.
FileInv ==
    \A r \in Run :
        /\ pc[r] \in {"replace", "fsync_run"} => Whole(r)
        /\ pc[r] \in {"mkdir_runs", "fsync_parent", "mkdir_run", "fsync_runs",
                      "off", "scan", "open", "write", "fsync_file", "replace"} =>
             name[r] # "prereg.json" /\ "prereg.json" \notin nameDisk[r]
        /\ pc[r] = "fsync_file" => content[r] = "whole"
        /\ pc[r] = "fsync_run" => name[r] = "prereg.json"
        /\ name[r] = "prereg.json" => Whole(r)
        /\ "prereg.json" \in nameDisk[r] => Whole(r)

\* The system calls after runs_dir was found or made durable.
Later == {"mkdir_run", "fsync_runs", "open", "write", "fsync_file",
          "replace", "fsync_run", "running"}

\* No run found a runs_dir that r did not make.
Secure(r) == makesRuns[r] \/ \A q \in Run : ~makesRuns[q]

\* runs_dir is durable for its maker, and if nobody made it.
TopInv ==
    /\ \A r \in Run :
        /\ pc[r] \in {"off", "scan"} => ~makesRuns[r]
        /\ pc[r] \in {"mkdir_runs", "fsync_parent", "exists_error"} => makesRuns[r]
        /\ pc[r] = "fsync_parent" => runs
        /\ r \in began => pc[r] \in {"running", "dead"}
        /\ makesRuns[r] /\ (pc[r] \in Later \/ r \in began) =>
             runs /\ runsDisk = {TRUE}
    /\ (\A q \in Run : ~makesRuns[q]) =>
         /\ runs => runsDisk = {TRUE}
         /\ \A r \in Run : pc[r] \in Later \/ r \in began => runs

\* The directory is durable before the file is opened.
DirInv ==
    \A r \in Run :
        /\ pc[r] = "fsync_runs" => dir[r]
        /\ pc[r] \in {"open", "write", "fsync_file", "replace", "fsync_run"} =>
             dir[r] /\ dirDisk[r] = {TRUE}

\* A power loss takes neither r's directory, if runs_dir stays, nor its name.
Kept(r) ==
    /\ dir[r] /\ dirDisk[r] = {TRUE}
    /\ name[r] = "prereg.json" /\ nameDisk[r] = {"prereg.json"}

KeptInv == \A r \in began : Secure(r) => Kept(r)

-----------------------------------------------------------------------------

\* The initial tree and processes have their types.
LEMMA InitTyped == Init => TypeOK
  BY DEF Init, TypeOK, Calls, Names, Contents

\* No system call, error, kill or power loss leaves the types.
LEMMA TypedStep == TypeOK /\ [Next]_vars => TypeOK'
<1> SUFFICES ASSUME TypeOK, [Next]_vars PROVE TypeOK'
  OBVIOUS
<1> USE DEF TypeOK, Calls, Names, Contents, Goto, Stay, proc, top, dirs, file
<1>1. ASSUME NEW r \in Run, Step(r) PROVE TypeOK'
  <2>1. CASE Mint(r)
    BY <2>1 DEF Mint
  <2>2. CASE Scan(r)
    BY <2>2 DEF Scan
  <2>3. CASE MkdirRuns(r)
    BY <2>3 DEF MkdirRuns
  <2>4. CASE RunsExists(r)
    BY <2>4 DEF RunsExists
  <2>5. CASE FsyncParent(r)
    BY <2>5 DEF FsyncParent
  <2>6. CASE MkdirRun(r)
    BY <2>6 DEF MkdirRun
  <2>7. CASE FsyncRuns(r)
    BY <2>7 DEF FsyncRuns
  <2>8. CASE OpenTmp(r)
    BY <2>8 DEF OpenTmp
  <2>9. CASE WriteTmp(r)
    BY <2>9 DEF WriteTmp
  <2>10. CASE FsyncFile(r)
    BY <2>10 DEF FsyncFile
  <2>11. CASE Replace(r)
    BY <2>11 DEF Replace
  <2>12. CASE FsyncRun(r)
    BY <2>12 DEF FsyncRun
  <2> QED
    BY <1>1, <2>1, <2>2, <2>3, <2>4, <2>5, <2>6, <2>7,
       <2>8, <2>9, <2>10, <2>11, <2>12 DEF Step
<1>2. ASSUME NEW r \in Run, OSError(r) \/ Kill(r) PROVE TypeOK'
  BY <1>2 DEF OSError, Kill
<1>3. CASE PowerLoss
  BY <1>3 DEF PowerLoss
<1>4. CASE UNCHANGED vars
  BY <1>4 DEF vars
<1> QED
  BY <1>1, <1>2, <1>3, <1>4 DEF Next

\* Every variable keeps to its type.
THEOREM TypeCorrect == Spec => []TypeOK
<1> QED
  BY InitTyped, TypedStep, PTL DEF Spec

\* Each system call of a run, and each power loss, keeps FileInv.
LEMMA FileStep == TypeOK /\ FileInv /\ [Next]_vars => FileInv'
<1> SUFFICES ASSUME TypeOK, FileInv, [Next]_vars PROVE FileInv'
  OBVIOUS
<1> USE DEF TypeOK, Calls, Names, Contents, Goto, Stay, proc, top, dirs, file,
        FileInv, Whole
<1>1. ASSUME NEW r \in Run, Step(r) PROVE FileInv'
  <2>1. CASE Mint(r)
    BY <2>1 DEF Mint
  <2>2. CASE Scan(r)
    BY <2>2 DEF Scan
  <2>3. CASE MkdirRuns(r)
    BY <2>3 DEF MkdirRuns
  <2>4. CASE RunsExists(r)
    BY <2>4 DEF RunsExists
  <2>5. CASE FsyncParent(r)
    BY <2>5 DEF FsyncParent
  <2>6. CASE MkdirRun(r)
    BY <2>6 DEF MkdirRun
  <2>7. CASE FsyncRuns(r)
    BY <2>7 DEF FsyncRuns
  <2>8. CASE OpenTmp(r)
    BY <2>8 DEF OpenTmp
  <2>9. CASE WriteTmp(r)
    BY <2>9 DEF WriteTmp
  <2>10. CASE FsyncFile(r)
    BY <2>10 DEF FsyncFile
  <2>11. CASE Replace(r)
    BY <2>11 DEF Replace
  <2>12. CASE FsyncRun(r)
    BY <2>12 DEF FsyncRun
  <2> QED
    BY <1>1, <2>1, <2>2, <2>3, <2>4, <2>5, <2>6, <2>7,
       <2>8, <2>9, <2>10, <2>11, <2>12 DEF Step
<1>2. ASSUME NEW r \in Run, OSError(r) \/ Kill(r) PROVE FileInv'
  BY <1>2 DEF OSError, Kill
<1>3. CASE PowerLoss
  <2> SUFFICES ASSUME NEW r \in Run
               PROVE  /\ pc'[r] \in {"off", "dead"}
                      /\ nameDisk'[r] = {name'[r]}
                      /\ pc'[r] = "off" => name'[r] # "prereg.json"
                      /\ name'[r] = "prereg.json" =>
                           content'[r] = "whole" /\ contentDisk'[r] = {"whole"}
    OBVIOUS
  <2>1. /\ pc'[r] = IF pc[r] = "off" THEN "off" ELSE "dead"
        /\ nameDisk'[r] = {name'[r]} /\ contentDisk'[r] = {content'[r]}
    BY <1>3 DEF PowerLoss
  <2>2. ASSUME name'[r] = "prereg.json"
        PROVE  "prereg.json" \in nameDisk[r] /\ content'[r] \in contentDisk[r]
    <3>1. /\ name'[r] \in IF dir'[r] THEN nameDisk[r] ELSE {"none"}
          /\ content'[r] \in IF name'[r] # "none" THEN contentDisk[r]
                             ELSE {"none"}
      BY <1>3 DEF PowerLoss
    <3> QED
      BY <2>2, <3>1
  <2> QED
    BY <2>1, <2>2
<1>4. CASE UNCHANGED vars
  BY <1>4 DEF vars
<1> QED
  BY <1>1, <1>2, <1>3, <1>4 DEF Next

\* FileInv holds at all times.
LEMMA FileInvariance == Spec => []FileInv
<1>1. Init => FileInv
  <2> SUFFICES ASSUME Init, NEW r \in Run
               PROVE  pc[r] = "off" /\ name[r] = "none" /\ nameDisk[r] = {"none"}
    BY DEF FileInv
  <2> QED
    BY DEF Init
<1> QED
  BY <1>1, TypeCorrect, FileStep, PTL DEF Spec

\* No reader sees half a prediction under its final name, whether runs_dir
\* existed or not (enforcement_driver.py:624-630).
THEOREM NoTornPrereg == Spec => []NeverTorn
<1>1. FileInv => NeverTorn
  BY DEF FileInv, NeverTorn, Whole
<1> QED
  BY <1>1, FileInvariance, PTL

\* Each step keeps TopInv: only a power loss takes runs_dir, and only before
\* the fsync of its parent.
LEMMA TopStep ==
    TypeOK /\ TopInv /\ [Next]_vars => TopInv'
<1> SUFFICES ASSUME TypeOK, TopInv, [Next]_vars PROVE TopInv'
  OBVIOUS
<1> USE DEF TypeOK, Calls, Names, Contents, Goto, Stay, proc, top, dirs, file,
        TopInv, Later
<1>1. ASSUME NEW r \in Run, Step(r) PROVE TopInv'
  <2>1. CASE Mint(r)
    BY <2>1 DEF Mint
  <2>2. CASE Scan(r)
    <3>1. CASE runs
      <4>1. makesRuns' = makesRuns
        BY <2>2, <3>1 DEF Scan
      <4> QED
        BY <2>2, <3>1, <4>1 DEF Scan
    <3>2. CASE ~runs
      <4>1. makesRuns'[r] = TRUE /\ pc'[r] = "mkdir_runs"
        BY <2>2, <3>2 DEF Scan
      <4>2. r \notin began
        BY <2>2 DEF Scan
      <4>3. \A q \in Run : q # r => makesRuns'[q] = makesRuns[q] /\ pc'[q] = pc[q]
        BY <2>2, <3>2 DEF Scan
      <4>4. began' = began /\ runs' = runs /\ runsDisk' = runsDisk
        BY <2>2 DEF Scan
      <4>5. ~(\A q \in Run : ~makesRuns'[q])
        BY <4>1
      <4> QED
        BY <2>2, <3>2, <4>1, <4>2, <4>3, <4>4, <4>5 DEF Scan
    <3> QED
      BY <3>1, <3>2
  <2>3. CASE MkdirRuns(r)
    BY <2>3 DEF MkdirRuns
  <2>4. CASE RunsExists(r)
    BY <2>4 DEF RunsExists
  <2>5. CASE FsyncParent(r)
    BY <2>5 DEF FsyncParent
  <2>6. CASE MkdirRun(r)
    BY <2>6 DEF MkdirRun
  <2>7. CASE FsyncRuns(r)
    BY <2>7 DEF FsyncRuns
  <2>8. CASE OpenTmp(r)
    BY <2>8 DEF OpenTmp
  <2>9. CASE WriteTmp(r)
    BY <2>9 DEF WriteTmp
  <2>10. CASE FsyncFile(r)
    BY <2>10 DEF FsyncFile
  <2>11. CASE Replace(r)
    BY <2>11 DEF Replace
  <2>12. CASE FsyncRun(r)
    BY <2>12 DEF FsyncRun
  <2> QED
    BY <1>1, <2>1, <2>2, <2>3, <2>4, <2>5, <2>6, <2>7,
       <2>8, <2>9, <2>10, <2>11, <2>12 DEF Step
<1>2. ASSUME NEW r \in Run, OSError(r) \/ Kill(r) PROVE TopInv'
  <2>1. CASE OSError(r)
    BY <2>1 DEF OSError
  <2>2. CASE Kill(r)
    BY <2>2 DEF Kill
  <2> QED
    BY <1>2, <2>1, <2>2
<1>3. CASE PowerLoss
  <2>1. \A r \in Run : pc'[r] = IF pc[r] = "off" THEN "off" ELSE "dead"
    BY <1>3 DEF PowerLoss
  <2>2. makesRuns' = makesRuns /\ began' = began
    BY <1>3 DEF PowerLoss
  <2>3. /\ runs' \in runsDisk /\ runsDisk' = {runs'}
        /\ runs' \in BOOLEAN
    BY <1>3 DEF PowerLoss
  <2>4. runs /\ runsDisk = {TRUE} => runs' /\ runsDisk' = {TRUE}
    BY <2>3
  <2>5. runs' => runsDisk' = {TRUE}
    BY <2>3
  <2> QED
    BY <2>1, <2>2, <2>4, <2>5
<1>4. CASE UNCHANGED vars
  BY <1>4 DEF vars
<1> QED
  BY <1>1, <1>2, <1>3, <1>4 DEF Next

\* Each step keeps DirInv.
LEMMA DirStep == TypeOK /\ DirInv /\ [Next]_vars => DirInv'
<1> SUFFICES ASSUME TypeOK, DirInv, [Next]_vars PROVE DirInv'
  OBVIOUS
<1> USE DEF TypeOK, Calls, Goto, Stay, proc, top, dirs, file, DirInv
<1>1. ASSUME NEW r \in Run, Step(r) PROVE DirInv'
  <2>1. CASE Mint(r)
    BY <2>1 DEF Mint
  <2>2. CASE Scan(r)
    BY <2>2 DEF Scan
  <2>3. CASE MkdirRuns(r)
    BY <2>3 DEF MkdirRuns
  <2>4. CASE RunsExists(r)
    BY <2>4 DEF RunsExists
  <2>5. CASE FsyncParent(r)
    BY <2>5 DEF FsyncParent
  <2>6. CASE MkdirRun(r)
    BY <2>6 DEF MkdirRun
  <2>7. CASE FsyncRuns(r)
    BY <2>7 DEF FsyncRuns
  <2>8. CASE OpenTmp(r)
    BY <2>8 DEF OpenTmp
  <2>9. CASE WriteTmp(r)
    BY <2>9 DEF WriteTmp
  <2>10. CASE FsyncFile(r)
    BY <2>10 DEF FsyncFile
  <2>11. CASE Replace(r)
    BY <2>11 DEF Replace
  <2>12. CASE FsyncRun(r)
    BY <2>12 DEF FsyncRun
  <2> QED
    BY <1>1, <2>1, <2>2, <2>3, <2>4, <2>5, <2>6, <2>7,
       <2>8, <2>9, <2>10, <2>11, <2>12 DEF Step
<1>2. ASSUME NEW r \in Run, OSError(r) \/ Kill(r) PROVE DirInv'
  BY <1>2 DEF OSError, Kill
<1>3. CASE PowerLoss
  BY <1>3 DEF PowerLoss
<1>4. CASE UNCHANGED vars
  BY <1>4 DEF vars
<1> QED
  BY <1>1, <1>2, <1>3, <1>4 DEF Next

\* A run that began over a runs_dir of its own, or of nobody, did so before
\* the step as well.
LEMMA SecureKept ==
    TypeOK /\ TopInv /\ [Next]_vars => \A r \in began : Secure(r)' => Secure(r)
<1> SUFFICES ASSUME TypeOK, TopInv, [Next]_vars, NEW r \in began, Secure(r)'
             PROVE  Secure(r)
  OBVIOUS
<1>1. r \in Run /\ pc[r] \in {"running", "dead"}
  BY DEF TypeOK, TopInv
<1>2. CASE makesRuns' = makesRuns
  BY <1>2 DEF Secure
<1>3. ASSUME NEW p \in Run, Scan(p) PROVE Secure(r)
  <2>1. p # r /\ makesRuns[p] = FALSE
    BY <1>1, <1>3 DEF Scan, Goto, TopInv, TypeOK
  <2>2. \A q \in Run : q # p => makesRuns'[q] = makesRuns[q]
    BY <1>3 DEF Scan, TypeOK
  <2> QED
    BY <1>1, <2>1, <2>2 DEF Secure
<1>4. makesRuns' = makesRuns \/ \E p \in Run : Scan(p)
  BY DEF Next, Step, vars, Stay, PowerLoss, OSError, Kill, Mint, MkdirRuns,
         RunsExists, FsyncParent, MkdirRun, FsyncRuns, OpenTmp, WriteTmp,
         FsyncFile, Replace, FsyncRun
<1> QED
  BY <1>2, <1>3, <1>4

\* Such a run has a durable runs_dir.
LEMMA SecureTop ==
    TypeOK /\ TopInv => \A r \in began : Secure(r) => runs /\ runsDisk = {TRUE}
  BY DEF TypeOK, TopInv, Secure

\* A step of any run, an error or a kill leaves the entries of a run that has
\* begun as they are; the fsync of runs_dir makes them durable once more.
LEMMA Undisturbed ==
    ASSUME TypeOK, NEW q \in Run, pc[q] \in {"running", "dead"}, Kept(q),
           NEW r \in Run, Step(r) \/ OSError(r) \/ Kill(r)
    PROVE  Kept(q)'
<1> USE DEF TypeOK, Goto, Stay, top, dirs, file
<1>1. CASE FsyncRuns(r)
  BY <1>1 DEF FsyncRuns, Kept
<1>2. CASE r = q
  <2>1. dir' = dir /\ dirDisk' = dirDisk /\ name' = name /\ nameDisk' = nameDisk
    BY <1>2 DEF Step, OSError, Kill, Mint, Scan, MkdirRuns, RunsExists,
       FsyncParent, MkdirRun, FsyncRuns, OpenTmp, WriteTmp, FsyncFile, Replace,
       FsyncRun
  <2> QED
    BY <2>1 DEF Kept
<1>3. CASE r # q /\ ~FsyncRuns(r)
  <2>1. /\ dir'[q] = dir[q] /\ dirDisk'[q] = dirDisk[q]
        /\ name'[q] = name[q] /\ nameDisk'[q] = nameDisk[q]
    BY <1>3 DEF Step, OSError, Kill, Mint, Scan, MkdirRuns, RunsExists,
       FsyncParent, MkdirRun, OpenTmp, WriteTmp, FsyncFile, Replace, FsyncRun
  <2> QED
    BY <2>1 DEF Kept
<1> QED
  BY <1>1, <1>2, <1>3

\* Each step keeps KeptInv.
LEMMA KeptStep ==
    TypeOK /\ TopInv /\ FileInv /\ DirInv /\ KeptInv /\ [Next]_vars => KeptInv'
<1> SUFFICES ASSUME TypeOK, TopInv, FileInv, DirInv, KeptInv, [Next]_vars,
                    NEW q \in began', Secure(q)'
             PROVE  Kept(q)'
  BY DEF KeptInv
<1>1. CASE q \in began
  <2>1. /\ Secure(q) /\ Kept(q) /\ runs /\ runsDisk = {TRUE}
        /\ q \in Run /\ pc[q] \in {"running", "dead"}
    BY <1>1, SecureKept, SecureTop DEF TypeOK, TopInv, KeptInv
  <2>2. ASSUME NEW r \in Run, Step(r) \/ OSError(r) \/ Kill(r) PROVE Kept(q)'
    BY <2>1, <2>2, Undisturbed
  <2>3. CASE PowerLoss
    <3>1. runs' = TRUE
      BY <2>1, <2>3 DEF PowerLoss
    <3>2. /\ dir'[q] \in IF runs' THEN dirDisk[q] ELSE {FALSE}
          /\ name'[q] \in IF dir'[q] THEN nameDisk[q] ELSE {"none"}
          /\ dirDisk'[q] = {dir'[q]} /\ nameDisk'[q] = {name'[q]}
      BY <2>1, <2>3 DEF PowerLoss
    <3>3. dir'[q] = TRUE
      BY <2>1, <3>1, <3>2 DEF Kept
    <3> QED
      BY <2>1, <3>2, <3>3 DEF Kept
  <2>4. CASE UNCHANGED vars
    BY <2>1, <2>4 DEF vars, Kept
  <2> QED
    BY <2>2, <2>3, <2>4 DEF Next
<1>2. CASE q \notin began
  <2>1. q \in Run /\ FsyncRun(q)
    BY <1>2 DEF TypeOK, Next, Step, vars, Stay, PowerLoss, OSError, Kill, Mint,
       Scan, MkdirRuns, RunsExists, FsyncParent, MkdirRun, FsyncRuns, OpenTmp,
       WriteTmp, FsyncFile, Replace, FsyncRun
  <2>2. dir[q] /\ dirDisk[q] = {TRUE} /\ name[q] = "prereg.json"
    BY <2>1 DEF FsyncRun, Goto, DirInv, FileInv
  <2>3. dir' = dir /\ dirDisk' = dirDisk /\ name' = name
    BY <2>1 DEF FsyncRun, dirs
  <2>4. nameDisk'[q] = {name[q]}
    BY <2>1 DEF FsyncRun, TypeOK
  <2> QED
    BY <2>2, <2>3, <2>4 DEF Kept
<1> QED
  BY <1>1, <1>2

\* The contract of _persist_prereg (enforcement_driver.py:605-623), as far as
\* the code keeps it: for any number of runs, errors, kills and power losses,
\* a run that began keeps its prediction unless it found another's runs_dir.
THEOREM PreregContract == Spec => []PreregSurvivesUnlessFound
<1>1. Init => TopInv /\ DirInv /\ KeptInv
  BY DEF Init, TopInv, DirInv, KeptInv, Later
<1>2. TypeOK /\ TopInv /\ KeptInv /\ FileInv => PreregSurvivesUnlessFound
  <2> SUFFICES ASSUME TypeOK, TopInv, KeptInv, FileInv, NEW r \in began, Secure(r)
               PROVE  Readable(r)
    BY DEF PreregSurvivesUnlessFound, Secure
  <2> QED
    BY SecureTop DEF TypeOK, KeptInv, Kept, FileInv, Whole, Readable
<1> QED
  BY <1>1, <1>2, TypeCorrect, FileInvariance, TopStep, DirStep, KeptStep, PTL
     DEF Spec

-----------------------------------------------------------------------------
\* What a run that began has of its directory and its name, it has on disk:
\* what is left of it after a power loss stays.
LastingInv ==
    \A r \in began :
        /\ pc[r] \in {"running", "dead"}
        /\ dir[r] => dirDisk[r] = {TRUE}
        /\ name[r] = "prereg.json" => nameDisk[r] = {"prereg.json"}

\* The steps of the processes change nothing of a run that has begun but, by an
\* fsync of runs_dir, what is on disk of its directory.
LEMMA BegunUntouched ==
    ASSUME TypeOK, NEW q \in began, pc[q] \in {"running", "dead"},
           NEW r \in Run, Step(r) \/ OSError(r) \/ Kill(r)
    PROVE  /\ dir'[q] = dir[q] /\ dirDisk'[q] \in {dirDisk[q], {dir[q]}}
           /\ name'[q] = name[q] /\ nameDisk'[q] = nameDisk[q]
           /\ content'[q] = content[q]
           /\ runs => runs'
           /\ pc'[q] \in {"running", "dead"}
<1> USE DEF TypeOK, Goto, Stay, top, dirs, file
<1>1. CASE FsyncRuns(r)
  BY <1>1 DEF FsyncRuns
<1>2. CASE r = q
  BY <1>2 DEF Step, OSError, Kill, Calls, Mint, Scan, MkdirRuns, RunsExists,
     FsyncParent, MkdirRun, FsyncRuns, OpenTmp, WriteTmp, FsyncFile, Replace, FsyncRun
<1>3. CASE r # q /\ ~FsyncRuns(r)
  BY <1>3 DEF Step, OSError, Kill, Mint, Scan, MkdirRuns, RunsExists,
     FsyncParent, MkdirRun, OpenTmp, WriteTmp, FsyncFile, Replace, FsyncRun
<1> QED
  BY <1>1, <1>2, <1>3

\* Only the last fsync lets a run begin.
LEMMA BeginsByFsync ==
    ASSUME TypeOK, [Next]_vars, NEW q \in began' \ began
    PROVE  q \in Run /\ FsyncRun(q)
BY DEF TypeOK, Next, Step, vars, Stay, PowerLoss, OSError, Kill, Mint, Scan, MkdirRuns,
   RunsExists, FsyncParent, MkdirRun, FsyncRuns, OpenTmp, WriteTmp, FsyncFile, Replace,
   FsyncRun

LEMMA LastingStep ==
    TypeOK /\ FileInv /\ DirInv /\ LastingInv /\ [Next]_vars => LastingInv'
<1> SUFFICES ASSUME TypeOK, FileInv, DirInv, LastingInv, [Next]_vars, NEW q \in began'
             PROVE  /\ pc'[q] \in {"running", "dead"}
                    /\ dir'[q] => dirDisk'[q] = {TRUE}
                    /\ name'[q] = "prereg.json" => nameDisk'[q] = {"prereg.json"}
  BY DEF LastingInv
<1>1. CASE q \in began
  <2>1. q \in Run /\ pc[q] \in {"running", "dead"}
    BY <1>1 DEF TypeOK, LastingInv
  <2>2. ASSUME NEW r \in Run, Step(r) \/ OSError(r) \/ Kill(r)
        PROVE  /\ pc'[q] \in {"running", "dead"}
               /\ dir'[q] => dirDisk'[q] = {TRUE}
               /\ name'[q] = "prereg.json" => nameDisk'[q] = {"prereg.json"}
    <3>1. /\ dir'[q] = dir[q] /\ dirDisk'[q] \in {dirDisk[q], {dir[q]}}
          /\ name'[q] = name[q] /\ nameDisk'[q] = nameDisk[q]
          /\ pc'[q] \in {"running", "dead"}
      BY <1>1, <2>1, <2>2, BegunUntouched
    <3>2. dir[q] \in BOOLEAN
      BY <2>1 DEF TypeOK
    <3> QED
      BY <1>1, <3>1, <3>2 DEF LastingInv
  <2>3. CASE PowerLoss
    <3>1. /\ pc'[q] \in {"running", "dead"}
          /\ dirDisk'[q] = {dir'[q]} /\ nameDisk'[q] = {name'[q]}
          /\ dir'[q] \in BOOLEAN
      BY <2>1, <2>3 DEF PowerLoss, TypeOK
    <3> QED
      BY <3>1
  <2>4. CASE UNCHANGED vars
    BY <1>1, <2>4 DEF vars, LastingInv
  <2> QED
    BY <2>2, <2>3, <2>4 DEF Next
<1>2. CASE q \notin began
  <2>1. q \in Run /\ FsyncRun(q)
    BY <1>2, BeginsByFsync
  <2>2. dirDisk[q] = {TRUE} /\ name[q] = "prereg.json"
    BY <2>1 DEF FsyncRun, Goto, DirInv, FileInv
  <2>3. dirDisk' = dirDisk /\ nameDisk'[q] = {name[q]} /\ pc'[q] = "running"
    BY <2>1 DEF FsyncRun, Goto, dirs, TypeOK
  <2> QED
    BY <2>2, <2>3
<1> QED
  BY <1>1, <1>2

\* Nothing but the loss of runs_dir takes a prediction on which a run began: its
\* own directory, its name and its content are on disk when _persist_prereg
\* returns, and no later call of any run touches them.
THEOREM OnlyRunsDirLost == Spec => OnlyRunsDirCanVanish
<1>1. Init => DirInv /\ LastingInv
  BY DEF Init, DirInv, LastingInv
<1>2. TypeOK /\ FileInv /\ LastingInv /\ [Next]_vars =>
        [\A r \in began : Readable(r) /\ ~Readable(r)' => runs /\ ~runs']_vars
  <2> SUFFICES ASSUME TypeOK, FileInv, LastingInv, [Next]_vars, vars' # vars,
                      NEW q \in began, Readable(q), runs => runs'
               PROVE  Readable(q)'
    BY DEF Readable
  <2>1. q \in Run /\ pc[q] \in {"running", "dead"}
    BY DEF TypeOK, LastingInv
  <2>2. ASSUME NEW r \in Run, Step(r) \/ OSError(r) \/ Kill(r) PROVE Readable(q)'
    <3>1. dir'[q] = dir[q] /\ name'[q] = name[q] /\ content'[q] = content[q] /\ runs'
      BY <2>1, <2>2, BegunUntouched DEF Readable
    <3> QED
      BY <3>1 DEF Readable
  <2>3. CASE PowerLoss
    <3>1. runs' = TRUE
      BY <2>3 DEF PowerLoss, Readable, TypeOK
    <3>2. /\ dirDisk[q] = {TRUE} /\ nameDisk[q] = {"prereg.json"}
          /\ contentDisk[q] = {"whole"}
      BY <2>1 DEF LastingInv, Readable, FileInv, Whole
    <3>3. /\ dir'[q] \in IF runs' THEN dirDisk[q] ELSE {FALSE}
          /\ name'[q] \in IF dir'[q] THEN nameDisk[q] ELSE {"none"}
          /\ content'[q] \in IF name'[q] # "none" THEN contentDisk[q] ELSE {"none"}
      BY <2>1, <2>3 DEF PowerLoss
    <3>4. dir'[q] = TRUE
      BY <3>1, <3>2, <3>3
    <3>5. name'[q] = "prereg.json"
      BY <3>2, <3>3, <3>4
    <3>6. content'[q] = "whole"
      BY <3>2, <3>3, <3>5
    <3> QED
      BY <3>1, <3>4, <3>5, <3>6 DEF Readable
  <2> QED
    BY <2>2, <2>3 DEF Next
<1> QED
  BY <1>1, <1>2, TypeCorrect, FileInvariance, DirStep, LastingStep, PTL
     DEF Spec, OnlyRunsDirCanVanish
=============================================================================
