--------------------------- MODULE SqliteRegistry ---------------------------
(***************************************************************************)
(* The run-id registry of orchestrator/isolation.py as processes of one    *)
(* host run it: one SQLite file, a connection per call, explicit           *)
(* transactions, the retried WAL initialisation of the constructor, busy   *)
(* timeouts, statement errors and killed processes.                        *)
(*                                                                         *)
(* A step of a process is one SQL statement.  SQLite has one writer: the   *)
(* `writer` is the process whose connection holds the write lock, and what *)
(* it wrote is in `rows` only from its COMMIT on.                          *)
(***************************************************************************)
EXTENDS Naturals

CONSTANTS
    RunId,      \* the strings validate_run_id accepts
    Process,    \* processes (or threads) that use the registry file
    Free,       \* "no connection holds the write lock"
    Retries     \* _INIT_SCHEMA_RETRIES

ASSUME FreeAssumption == Free \notin Process
ASSUME RetriesAssumption == Retries \in Nat \ {0}

VARIABLES
    journal,    \* journal mode of the file: "delete" until the WAL switch
    table,      \* the table run_registry exists
    rows,       \* rows[r]: committed state of r's row, or "absent"
    writer,     \* the process that holds the write lock, or Free
    pc,         \* pc[p]: the statement p is about to execute
    attempt,    \* attempt[p]: the loop counter of _init_schema
    run,        \* run[p]: the run id of p's call
    target,     \* target[p]: the state p's release call asks for
    grants,     \* grants[r]: how many allocate(r) calls returned
    closed,     \* closed[r]: how many release(r) calls returned
    verdict     \* verdict[r]: the state the last of them asked for, or "none"

file  == <<journal, table>>
call  == <<run, target>>
ghost == <<grants, closed, verdict>>
vars  == <<journal, table, rows, writer, pc, attempt, run, target,
           grants, closed, verdict>>

-----------------------------------------------------------------------------

TerminalStates == {"completed", "failed", "reaped"}

RunState == {"active"} \cup TerminalStates

InitPC     == {"wal", "wal_held", "create", "create_held", "backoff"}
AllocatePC == {"begin_exclusive", "insert", "alloc_commit", "alloc_return"}
ReleasePC  == {"begin_immediate", "select", "update", "rel_commit",
               "rel_return"}

\* The process is inside a call of the Registry's constructor or methods.
InCall == InitPC \cup AllocatePC \cup ReleasePC

\* A Registry instance exists in the process.
Constructed == {"ready"} \cup AllocatePC \cup ReleasePC

\* The process' connection holds the write lock.
Writing == {"wal_held", "create_held", "insert", "alloc_commit",
            "select", "update", "rel_commit"}

TypeOK ==
    /\ journal \in {"delete", "wal"}
    /\ table \in BOOLEAN
    /\ rows \in [RunId -> RunState \cup {"absent"}]
    /\ writer \in Process \cup {Free}
    /\ pc \in [Process -> {"off"} \cup InitPC \cup Constructed]
    /\ attempt \in [Process -> 0 .. Retries - 1]
    /\ run \in [Process -> RunId]
    /\ target \in [Process -> TerminalStates]
    /\ grants \in [RunId -> Nat]
    /\ closed \in [RunId -> Nat]
    /\ verdict \in [RunId -> TerminalStates \cup {"none"}]

Init ==
    /\ journal = "delete"
    /\ table = FALSE
    /\ rows = [r \in RunId |-> "absent"]
    /\ writer = Free
    /\ pc = [p \in Process |-> "off"]
    /\ attempt = [p \in Process |-> 0]
    /\ run \in [Process -> RunId]
    /\ target \in [Process -> TerminalStates]
    /\ grants = [r \in RunId |-> 0]
    /\ closed = [r \in RunId |-> 0]
    /\ verdict = [r \in RunId |-> "none"]

Goto(p, from, to) ==
    /\ pc[p] = from
    /\ pc' = [pc EXCEPT ![p] = to]

Lock(p) ==
    /\ writer = Free
    /\ writer' = p

\* p's connection is closed, or its transaction ends: the lock is given back.
Unlock(p) == writer' = IF writer = p THEN Free ELSE writer

-----------------------------------------------------------------------------
(* Registry.__init__ and _init_schema                                      *)

Construct(p) ==
    /\ Goto(p, "off", "wal")
    /\ attempt' = [attempt EXCEPT ![p] = 0]
    /\ UNCHANGED <<file, rows, writer, call, ghost>>

\* PRAGMA journal_mode=WAL on a file that is in WAL mode already.
WalNoop(p) ==
    /\ journal = "wal"
    /\ Goto(p, "wal", "create")
    /\ UNCHANGED <<file, rows, writer, attempt, call, ghost>>

WalLock(p) ==
    /\ journal = "delete"
    /\ Goto(p, "wal", "wal_held")
    /\ Lock(p)
    /\ UNCHANGED <<file, rows, attempt, call, ghost>>

\* The switch does not wait for the lock: "database is locked" at once.
WalBusy(p) ==
    /\ journal = "delete"
    /\ writer # Free
    /\ Goto(p, "wal", "backoff")
    /\ UNCHANGED <<file, rows, writer, attempt, call, ghost>>

WalSet(p) ==
    /\ Goto(p, "wal_held", "create")
    /\ journal' = "wal"
    /\ Unlock(p)
    /\ UNCHANGED <<table, rows, attempt, call, ghost>>

CreateNoop(p) ==
    /\ table
    /\ Goto(p, "create", "ready")
    /\ UNCHANGED <<file, rows, writer, attempt, call, ghost>>

CreateLock(p) ==
    /\ ~table
    /\ Goto(p, "create", "create_held")
    /\ Lock(p)
    /\ UNCHANGED <<file, rows, attempt, call, ghost>>

\* The 30 s busy timeout of the constructor's connection.
CreateBusy(p) ==
    /\ ~table
    /\ writer # Free
    /\ Goto(p, "create", "backoff")
    /\ UNCHANGED <<file, rows, writer, attempt, call, ghost>>

CreateDone(p) ==
    /\ Goto(p, "create_held", "ready")
    /\ table' = TRUE
    /\ Unlock(p)
    /\ UNCHANGED <<journal, rows, attempt, call, ghost>>

\* Mutant: range(_INIT_SCHEMA_RETRIES + 1).
Retry_OneTooMany(p) ==
    /\ attempt[p] < Retries
    /\ Goto(p, "backoff", "wal")
    /\ attempt' = [attempt EXCEPT ![p] = @ + 1]
    /\ UNCHANGED <<file, rows, writer, call, ghost>>

\* Mutant: while True instead of the bounded loop.
Retry_Forever(p) ==
    /\ Goto(p, "backoff", "wal")
    /\ UNCHANGED <<file, rows, writer, attempt, call, ghost>>

Retry(p) ==
    /\ attempt[p] + 1 < Retries
    /\ Goto(p, "backoff", "wal")
    /\ attempt' = [attempt EXCEPT ![p] = @ + 1]
    /\ UNCHANGED <<file, rows, writer, call, ghost>>

\* Mutant: the loop falls through after the last attempt.
GiveUp_Silently(p) ==
    /\ attempt[p] + 1 >= Retries
    /\ Goto(p, "backoff", "ready")
    /\ UNCHANGED <<file, rows, writer, attempt, call, ghost>>

\* The RuntimeError after the last attempt: no instance comes to exist.
GiveUp(p) ==
    /\ attempt[p] + 1 >= Retries
    /\ Goto(p, "backoff", "off")
    /\ UNCHANGED <<file, rows, writer, attempt, call, ghost>>

\* An OperationalError that is not "locked" leaves the constructor at once.
InitError(p) ==
    /\ pc[p] \in InitPC \ {"backoff"}
    /\ pc' = [pc EXCEPT ![p] = "off"]
    /\ Unlock(p)
    /\ UNCHANGED <<file, rows, attempt, call, ghost>>

-----------------------------------------------------------------------------
(* allocate                                                                *)

CallAllocate(p, r) ==
    /\ Goto(p, "ready", "begin_exclusive")
    /\ run' = [run EXCEPT ![p] = r]
    /\ UNCHANGED <<file, rows, writer, attempt, target, ghost>>

BeginExclusive(p) ==
    /\ Goto(p, "begin_exclusive", "insert")
    /\ Lock(p)
    /\ UNCHANGED <<file, rows, attempt, call, ghost>>

\* Mutant: INSERT OR REPLACE.
Insert_OrReplace(p) ==
    /\ Goto(p, "insert", "alloc_commit")
    /\ UNCHANGED <<file, rows, writer, attempt, call, ghost>>

\* The primary key is free ...
Insert(p) ==
    /\ rows[run[p]] = "absent"
    /\ Goto(p, "insert", "alloc_commit")
    /\ UNCHANGED <<file, rows, writer, attempt, call, ghost>>

\* ... or IntegrityError, ROLLBACK, AllocationError.
AlreadyAllocated(p) ==
    /\ rows[run[p]] # "absent"
    /\ Goto(p, "insert", "ready")
    /\ Unlock(p)
    /\ UNCHANGED <<file, rows, attempt, call, ghost>>

\* Mutant: the COMMIT is forgotten, the close rolls back.
AllocCommit_Forgotten(p) ==
    /\ Goto(p, "alloc_commit", "alloc_return")
    /\ Unlock(p)
    /\ UNCHANGED <<file, rows, attempt, call, ghost>>

AllocCommit(p) ==
    /\ Goto(p, "alloc_commit", "alloc_return")
    /\ rows' = [rows EXCEPT ![run[p]] = "active"]
    /\ Unlock(p)
    /\ UNCHANGED <<file, attempt, call, ghost>>

AllocReturn(p) ==
    /\ Goto(p, "alloc_return", "ready")
    /\ grants' = [grants EXCEPT ![run[p]] = @ + 1]
    /\ UNCHANGED <<file, rows, writer, attempt, call, closed, verdict>>

-----------------------------------------------------------------------------
(* release                                                                 *)

CallRelease(p, r, s) ==
    /\ Goto(p, "ready", "begin_immediate")
    /\ run' = [run EXCEPT ![p] = r]
    /\ target' = [target EXCEPT ![p] = s]
    /\ UNCHANGED <<file, rows, writer, attempt, ghost>>

\* Mutant: BEGIN (deferred): the SELECT runs without the write lock.
BeginImmediate_Deferred(p) ==
    /\ Goto(p, "begin_immediate", "select")
    /\ UNCHANGED <<file, rows, writer, attempt, call, ghost>>

BeginImmediate(p) ==
    /\ Goto(p, "begin_immediate", "select")
    /\ Lock(p)
    /\ UNCHANGED <<file, rows, attempt, call, ghost>>

\* Mutant: no look at the current state of the row.
SelectActive_AnyState(p) ==
    /\ rows[run[p]] # "absent"
    /\ Goto(p, "select", "update")
    /\ UNCHANGED <<file, rows, writer, attempt, call, ghost>>

SelectActive(p) ==
    /\ rows[run[p]] = "active"
    /\ Goto(p, "select", "update")
    /\ UNCHANGED <<file, rows, writer, attempt, call, ghost>>

\* Unknown or terminal: ROLLBACK and RunStateError.
SelectRefused(p) ==
    /\ rows[run[p]] # "active"
    /\ Goto(p, "select", "ready")
    /\ Unlock(p)
    /\ UNCHANGED <<file, rows, attempt, call, ghost>>

Update(p) ==
    /\ Goto(p, "update", "rel_commit")
    /\ UNCHANGED <<file, rows, writer, attempt, call, ghost>>

RelCommit(p) ==
    /\ Goto(p, "rel_commit", "rel_return")
    /\ rows' = [rows EXCEPT ![run[p]] = target[p]]
    /\ Unlock(p)
    /\ UNCHANGED <<file, attempt, call, ghost>>

RelReturn(p) ==
    /\ Goto(p, "rel_return", "ready")
    /\ closed' = [closed EXCEPT ![run[p]] = @ + 1]
    /\ verdict' = [verdict EXCEPT ![run[p]] = target[p]]
    /\ UNCHANGED <<file, rows, writer, attempt, call, grants>>

-----------------------------------------------------------------------------
(* errors of both calls, and the death of a process                        *)

\* BEGIN gives up after the 10 s busy timeout (in release the ROLLBACK of
\* the handler then raises as well: the call fails either way).
BeginTimeout(p) ==
    /\ pc[p] \in {"begin_exclusive", "begin_immediate"}
    /\ writer # Free
    /\ pc' = [pc EXCEPT ![p] = "ready"]
    /\ UNCHANGED <<file, rows, writer, attempt, call, ghost>>

\* Any other error of a statement: rolled back, by the handler of release or
\* by the close of allocate's connection, and raised.
StatementError(p) ==
    /\ pc[p] \in {"insert", "alloc_commit", "select", "update", "rel_commit"}
    /\ pc' = [pc EXCEPT ![p] = "ready"]
    /\ Unlock(p)
    /\ UNCHANGED <<file, rows, attempt, call, ghost>>

\* The process is killed: its locks go, its uncommitted writes are never
\* seen.  It may be started again.
Kill(p) ==
    /\ pc[p] # "off"
    /\ pc' = [pc EXCEPT ![p] = "off"]
    /\ Unlock(p)
    /\ UNCHANGED <<file, rows, attempt, call, ghost>>

-----------------------------------------------------------------------------

InitStep(p) ==
    \/ WalNoop(p) \/ WalLock(p) \/ WalBusy(p) \/ WalSet(p)
    \/ CreateNoop(p) \/ CreateLock(p) \/ CreateBusy(p) \/ CreateDone(p)
    \/ Retry(p) \/ GiveUp(p)

AllocateStep(p) ==
    \/ BeginExclusive(p) \/ Insert(p) \/ AlreadyAllocated(p)
    \/ AllocCommit(p) \/ AllocReturn(p)

ReleaseStep(p) ==
    \/ BeginImmediate(p) \/ SelectActive(p) \/ SelectRefused(p)
    \/ Update(p) \/ RelCommit(p) \/ RelReturn(p)

\* The program text of a process.
Step(p) ==
    InitStep(p) \/ AllocateStep(p) \/ ReleaseStep(p) \/ BeginTimeout(p)

\* What its callers decide.
Call(p) ==
    \/ Construct(p)
    \/ \E r \in RunId : CallAllocate(p, r)
    \/ \E r \in RunId, s \in TerminalStates : CallRelease(p, r, s)

\* What may befall it.
Fault(p) == InitError(p) \/ StatementError(p) \/ Kill(p)

Next == \E p \in Process : Step(p) \/ Call(p) \/ Fault(p)

Spec == Init /\ [][Next]_vars

\* Every process that is in a call is scheduled; nobody has to call, and
\* nothing has to fail.
FairSpec == Spec /\ \A p \in Process : WF_vars(Step(p))

-----------------------------------------------------------------------------
(* Properties                                                              *)

\* No two allocate calls, of whatever processes, ever hand out one run id
\* (isolation.py:5, "no two concurrent runs ever share one").
UniqueGrant == \A r \in RunId : grants[r] <= 1

\* A run id that was handed out is in the file, whatever its owner or the
\* others suffered since.
GrantIsDurable == \A r \in RunId : grants[r] > 0 => rows[r] # "absent"

\* Of all release calls on a run at most one returns normally, and the row
\* keeps for good the state that call asked for.
OneVerdict ==
    \A r \in RunId :
        /\ closed[r] <= 1
        /\ closed[r] > 0 => rows[r] = verdict[r]

\* "fail closed, never a half-init registry": an instance exists only over a
\* file that is in WAL mode and has the table.
NeverHalfInit ==
    \A p \in Process : pc[p] \in Constructed => journal = "wal" /\ table

\* The registry keeps the promise of RunRegistry at every COMMIT.
Promise == INSTANCE RunRegistry WITH registry <- rows

Implements == Promise!Spec

\* The constructor and both methods come to an end, contended or not: the
\* retries are bounded and nobody waits for a lock for ever.
EveryCallEnds == \A p \in Process : pc[p] \in InCall ~> pc[p] \notin InCall
=============================================================================
