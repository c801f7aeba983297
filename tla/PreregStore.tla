---------------------------- MODULE PreregStore ----------------------------
(***************************************************************************)
(* How enforcement_driver.py puts a run's signed prediction on disk before *)
(* the run begins: _mkdir_durable, _persist_prereg and what a kill or a    *)
(* power loss between two system calls leaves of                           *)
(* runs_dir/<run_id>/prereg.json when several runs share runs_dir.         *)
(*                                                                         *)
(* Each piece of the tree has a value that the processes see and a set of  *)
(* values one of which a power loss will leave: a change adds to the set,  *)
(* an fsync reduces it to the value seen.                                  *)
(***************************************************************************)
EXTENDS Naturals

CONSTANT Run    \* runs, each with a run id and a process of its own

VARIABLES
    pc,             \* pc[r]: the next system call of r's process
    makesRuns,      \* makesRuns[r]: runs_dir is in r's to_create list
    began,          \* the runs whose _persist_prereg returned
    runs, runsDisk,         \* the entry of runs_dir in its parent
    dir, dirDisk,           \* dir[r]: the entry of <run_id> in runs_dir
    name, nameDisk,         \* name[r]: what r's file is called in <run_id>
    content, contentDisk    \* content[r]: what is in r's file

proc == <<pc, makesRuns, began>>
top  == <<runs, runsDisk>>
dirs == <<dir, dirDisk>>
file == <<name, nameDisk, content, contentDisk>>
vars == <<pc, makesRuns, began, runs, runsDisk, dir, dirDisk,
          name, nameDisk, content, contentDisk>>

Names    == {"none", "prereg.json.tmp", "prereg.json"}
Contents == {"none", "part", "whole"}

Calls == {"scan", "mkdir_runs", "fsync_parent", "mkdir_run", "fsync_runs",
          "open", "write", "fsync_file", "replace", "fsync_run"}

TypeOK ==
    /\ pc \in [Run -> Calls \cup {"off", "running", "exists_error", "failed", "dead"}]
    /\ makesRuns \in [Run -> BOOLEAN]
    /\ began \in SUBSET Run
    /\ runs \in BOOLEAN /\ runsDisk \in SUBSET BOOLEAN
    /\ dir \in [Run -> BOOLEAN] /\ dirDisk \in [Run -> SUBSET BOOLEAN]
    /\ name \in [Run -> Names] /\ nameDisk \in [Run -> SUBSET Names]
    /\ content \in [Run -> Contents]
    /\ contentDisk \in [Run -> SUBSET Contents]

\* runs_dir is there, durably, before any run, or is not.
Init ==
    /\ pc = [r \in Run |-> "off"]
    /\ makesRuns = [r \in Run |-> FALSE]
    /\ began = {}
    /\ runs \in BOOLEAN /\ runsDisk = {runs}
    /\ dir = [r \in Run |-> FALSE] /\ dirDisk = [r \in Run |-> {FALSE}]
    /\ name = [r \in Run |-> "none"] /\ nameDisk = [r \in Run |-> {"none"}]
    /\ content = [r \in Run |-> "none"]
    /\ contentDisk = [r \in Run |-> {"none"}]

Goto(r, from, to) ==
    /\ pc[r] = from
    /\ pc' = [pc EXCEPT ![r] = to]

Stay == UNCHANGED <<makesRuns, began>>

-----------------------------------------------------------------------------

Mint(r) ==
    /\ Goto(r, "off", "scan")
    /\ Stay /\ UNCHANGED <<top, dirs, file>>

\* while not p.exists(): the run's directory is new, runs_dir may not be.
Scan(r) ==
    /\ Goto(r, "scan", IF runs THEN "mkdir_run" ELSE "mkdir_runs")
    /\ makesRuns' = [makesRuns EXCEPT ![r] = ~runs]
    /\ UNCHANGED <<began, top, dirs, file>>

MkdirRuns(r) ==
    /\ ~runs
    /\ Goto(r, "mkdir_runs", "fsync_parent")
    /\ runs' = TRUE
    /\ runsDisk' = runsDisk \cup {TRUE}
    /\ Stay /\ UNCHANGED <<dirs, file>>

\* Another run made it since the scan: FileExistsError.
RunsExists(r) ==
    /\ runs
    /\ Goto(r, "mkdir_runs", "exists_error")
    /\ Stay /\ UNCHANGED <<top, dirs, file>>

\* Mutant: the parent is not fsynced.
FsyncParent_Skipped(r) ==
    /\ Goto(r, "fsync_parent", "mkdir_run")
    /\ Stay /\ UNCHANGED <<top, dirs, file>>

FsyncParent(r) ==
    /\ Goto(r, "fsync_parent", "mkdir_run")
    /\ runsDisk' = {runs}
    /\ Stay /\ UNCHANGED <<runs, dirs, file>>

MkdirRun(r) ==
    /\ Goto(r, "mkdir_run", "fsync_runs")
    /\ dir' = [dir EXCEPT ![r] = TRUE]
    /\ dirDisk' = [dirDisk EXCEPT ![r] = @ \cup {TRUE}]
    /\ Stay /\ UNCHANGED <<top, file>>

\* The fsync of runs_dir makes the entries of all runs durable.
FsyncRuns(r) ==
    /\ Goto(r, "fsync_runs", "open")
    /\ dirDisk' = [q \in Run |-> {dir[q]}]
    /\ Stay /\ UNCHANGED <<top, dir, file>>

OpenTmp(r) ==
    /\ Goto(r, "open", "write")
    /\ name' = [name EXCEPT ![r] = "prereg.json.tmp"]
    /\ nameDisk' = [nameDisk EXCEPT ![r] = @ \cup {"prereg.json.tmp"}]
    /\ content' = [content EXCEPT ![r] = "part"]
    /\ contentDisk' = [contentDisk EXCEPT ![r] = {"part"}]
    /\ Stay /\ UNCHANGED <<top, dirs>>

WriteTmp(r) ==
    /\ Goto(r, "write", "fsync_file")
    /\ content' = [content EXCEPT ![r] = "whole"]
    /\ contentDisk' = [contentDisk EXCEPT ![r] = @ \cup {"whole"}]
    /\ Stay /\ UNCHANGED <<top, dirs, name, nameDisk>>

\* Mutant: flush without fsync.
FsyncFile_Skipped(r) ==
    /\ Goto(r, "fsync_file", "replace")
    /\ Stay /\ UNCHANGED <<top, dirs, file>>

FsyncFile(r) ==
    /\ Goto(r, "fsync_file", "replace")
    /\ contentDisk' = [contentDisk EXCEPT ![r] = {content[r]}]
    /\ Stay /\ UNCHANGED <<top, dirs, name, nameDisk, content>>

Replace(r) ==
    /\ Goto(r, "replace", "fsync_run")
    /\ name' = [name EXCEPT ![r] = "prereg.json"]
    /\ nameDisk' = [nameDisk EXCEPT ![r] = @ \cup {"prereg.json"}]
    /\ Stay /\ UNCHANGED <<top, dirs, content, contentDisk>>

\* Mutant: return after os.replace.
FsyncRun_Skipped(r) ==
    /\ Goto(r, "fsync_run", "running")
    /\ began' = began \cup {r}
    /\ UNCHANGED <<makesRuns, top, dirs, file>>

\* The last fsync; _persist_prereg returns and the run begins.
FsyncRun(r) ==
    /\ Goto(r, "fsync_run", "running")
    /\ nameDisk' = [nameDisk EXCEPT ![r] = {name[r]}]
    /\ began' = began \cup {r}
    /\ UNCHANGED <<makesRuns, top, dirs, name, content, contentDisk>>

\* A system call fails: enforce releases the run as FAILED and re-raises.
OSError(r) ==
    /\ pc[r] \in Calls
    /\ pc' = [pc EXCEPT ![r] = "failed"]
    /\ Stay /\ UNCHANGED <<top, dirs, file>>

\* The process is killed; the kernel, and so what others see, lives on.
Kill(r) ==
    /\ pc[r] \in Calls \cup {"running"}
    /\ pc' = [pc EXCEPT ![r] = "dead"]
    /\ Stay /\ UNCHANGED <<top, dirs, file>>

\* The machine loses power and comes up with one of the values each piece may
\* have on disk; what is in a lost directory is lost with it.
PowerLoss ==
    /\ pc' = [r \in Run |-> IF pc[r] = "off" THEN "off" ELSE "dead"]
    /\ runs' \in runsDisk
    /\ dir' \in [Run -> BOOLEAN]
    /\ name' \in [Run -> Names]
    /\ content' \in [Run -> Contents]
    /\ \A r \in Run :
        /\ dir'[r] \in IF runs' THEN dirDisk[r] ELSE {FALSE}
        /\ name'[r] \in IF dir'[r] THEN nameDisk[r] ELSE {"none"}
        /\ content'[r] \in IF name'[r] # "none" THEN contentDisk[r] ELSE {"none"}
    /\ runsDisk' = {runs'}
    /\ dirDisk' = [r \in Run |-> {dir'[r]}]
    /\ nameDisk' = [r \in Run |-> {name'[r]}]
    /\ contentDisk' = [r \in Run |-> {content'[r]}]
    /\ Stay

Step(r) ==
    \/ Mint(r) \/ Scan(r) \/ MkdirRuns(r) \/ RunsExists(r) \/ FsyncParent(r)
    \/ MkdirRun(r) \/ FsyncRuns(r) \/ OpenTmp(r) \/ WriteTmp(r)
    \/ FsyncFile(r) \/ Replace(r) \/ FsyncRun(r)

Next ==
    \/ \E r \in Run : Step(r) \/ OSError(r) \/ Kill(r)
    \/ PowerLoss

Spec == Init /\ [][Next]_vars

-----------------------------------------------------------------------------
(* Properties                                                              *)

\* The auditor finds the prediction of r under its final name.
Readable(r) ==
    runs /\ dir[r] /\ name[r] = "prereg.json" /\ content[r] = "whole"

\* The contract of _persist_prereg (enforcement_driver.py:605-623): if
\* execution began, the prediction is durably recorded, and no kill or power
\* loss takes it away again.
PreregSurvives == \A r \in began : Readable(r)

\* "no reader sees a TORN prereg": the final name never names half a file,
\* also after a power loss.
NeverTorn == \A r \in Run : name[r] = "prereg.json" => content[r] = "whole"

\* A run keeps its prediction if it made runs_dir itself (_mkdir_durable
\* fsyncs the parent of each directory it creates) or found it as it was
\* before any run: only one that found another run's runs_dir may lose it.
PreregSurvivesUnlessFound ==
    \A r \in began :
        makesRuns[r] \/ (\A q \in Run : ~makesRuns[q]) => Readable(r)

\* Nothing but the loss of runs_dir takes a prediction on which a run began.
OnlyRunsDirCanVanish ==
    [][\A r \in began : Readable(r) /\ ~Readable(r)' => runs /\ ~runs']_vars
=============================================================================
