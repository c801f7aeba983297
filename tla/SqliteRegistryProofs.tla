------------------------ MODULE SqliteRegistryProofs ------------------------
(***************************************************************************)
(* What SqliteRegistry guarantees for every set of processes and run ids   *)
(* and every retry budget.                                                 *)
(***************************************************************************)
EXTENDS SqliteRegistry, TLAPS

\* A process has the write lock exactly while its connection is writing.
WriterInv == \A p \in Process : pc[p] \in Writing <=> writer = p

\* The WAL switch comes first, the table second, the instance third.
InitInv ==
    \A p \in Process :
        /\ pc[p] \in {"create", "create_held"} => journal = "wal"
        /\ pc[p] \in Constructed => journal = "wal" /\ table

\* What a transaction has read is still so: it holds the lock.
TransactionInv ==
    \A p \in Process :
        /\ pc[p] = "alloc_commit" => rows[run[p]] = "absent"
        /\ pc[p] \in {"update", "rel_commit"} => rows[run[p]] = "active"

\* A run id is in the hands of one allocate call: one that is about to
\* return it, or one that has returned it.
GrantInv ==
    /\ \A p \in Process : pc[p] = "alloc_return" =>
        /\ rows[run[p]] # "absent"
        /\ grants[run[p]] = 0
        /\ \A q \in Process \ {p} : pc[q] = "alloc_return" => run[q] # run[p]
    /\ UniqueGrant
    /\ GrantIsDurable

\* The verdict on a run is in the hands of one release call.
VerdictInv ==
    /\ \A p \in Process : pc[p] = "rel_return" =>
        /\ rows[run[p]] = target[p]
        /\ closed[run[p]] = 0
        /\ \A q \in Process \ {p} : pc[q] = "rel_return" => run[q] # run[p]
    /\ OneVerdict

IInv == TypeOK /\ WriterInv /\ InitInv /\ TransactionInv /\ GrantInv /\ VerdictInv

-----------------------------------------------------------------------------

\* The initial states are well typed.
LEMMA InitTyped == Init => TypeOK
<1> SUFFICES ASSUME Init PROVE TypeOK
  OBVIOUS
<1> USE DEF Init
<1>1. attempt \in [Process -> 0 .. Retries - 1]
  BY RetriesAssumption
<1>2. /\ rows \in [RunId -> RunState \cup {"absent"}]
      /\ writer \in Process \cup {Free}
      /\ pc \in [Process -> {"off"} \cup InitPC \cup Constructed]
  OBVIOUS
<1>3. /\ grants \in [RunId -> Nat]
      /\ closed \in [RunId -> Nat]
      /\ verdict \in [RunId -> TerminalStates \cup {"none"}]
  OBVIOUS
<1> QED
  BY <1>1, <1>2, <1>3 DEF TypeOK

\* No statement, call, error or death leaves the types.
LEMMA TypedStep == TypeOK /\ [Next]_vars => TypeOK'
<1> SUFFICES ASSUME TypeOK, [Next]_vars PROVE TypeOK'
  OBVIOUS
<1> USE RetriesAssumption DEF TypeOK, Goto, Lock, Unlock, file, call, ghost
<1> USE DEF InitPC, Constructed, AllocatePC, ReleasePC, RunState, TerminalStates
<1>1. ASSUME NEW p \in Process, InitStep(p) PROVE TypeOK'
  <2>1. CASE WalNoop(p) \/ WalLock(p) \/ WalBusy(p) \/ WalSet(p)
    BY <2>1 DEF WalNoop, WalLock, WalBusy, WalSet
  <2>2. CASE CreateNoop(p) \/ CreateLock(p) \/ CreateBusy(p) \/ CreateDone(p)
    BY <2>2 DEF CreateNoop, CreateLock, CreateBusy, CreateDone
  <2>3. CASE Retry(p) \/ GiveUp(p)
    BY <2>3 DEF Retry, GiveUp
  <2> QED
    BY <1>1, <2>1, <2>2, <2>3 DEF InitStep
<1>2. ASSUME NEW p \in Process, AllocateStep(p) PROVE TypeOK'
  BY <1>2 DEF AllocateStep, BeginExclusive, Insert, AlreadyAllocated,
       AllocCommit, AllocReturn
<1>3. ASSUME NEW p \in Process, ReleaseStep(p) PROVE TypeOK'
  BY <1>3 DEF ReleaseStep, BeginImmediate, SelectActive, SelectRefused,
       Update, RelCommit, RelReturn
<1>4. ASSUME NEW p \in Process, BeginTimeout(p) PROVE TypeOK'
  BY <1>4 DEF BeginTimeout
<1>5. ASSUME NEW p \in Process, Call(p) PROVE TypeOK'
  BY <1>5 DEF Call, Construct, CallAllocate, CallRelease
<1>6. ASSUME NEW p \in Process, Fault(p) PROVE TypeOK'
  BY <1>6 DEF Fault, InitError, StatementError, Kill
<1>7. CASE UNCHANGED vars
  BY <1>7 DEF vars
<1> QED
  BY <1>1, <1>2, <1>3, <1>4, <1>5, <1>6, <1>7 DEF Next, Step

\* Every variable keeps to its type (a type the counters need Nat for: that
\* they stay at 1 is GrantsAreUnique and VerdictsAreFinal).
THEOREM TypeCorrect == Spec => []TypeOK
<1> QED
  BY InitTyped, TypedStep, PTL DEF Spec

\* The lock changes hands only with the program counter of its holder.
LEMMA WriterStep == TypeOK /\ TypeOK' /\ WriterInv /\ [Next]_vars => WriterInv'
<1> SUFFICES ASSUME TypeOK, TypeOK', WriterInv, [Next]_vars PROVE WriterInv'
  OBVIOUS
<1> USE FreeAssumption DEF TypeOK, Goto, Lock, Unlock, file, call, ghost,
        WriterInv, Writing, InitPC, Constructed, AllocatePC, ReleasePC
<1>1. ASSUME NEW p \in Process, InitStep(p) PROVE WriterInv'
  BY <1>1 DEF InitStep, WalNoop, WalLock, WalBusy, WalSet, CreateNoop,
         CreateLock, CreateBusy, CreateDone, Retry, GiveUp
<1>2. ASSUME NEW p \in Process, AllocateStep(p) PROVE WriterInv'
  BY <1>2 DEF AllocateStep, BeginExclusive, Insert, AlreadyAllocated,
         AllocCommit, AllocReturn
<1>3. ASSUME NEW p \in Process, ReleaseStep(p) PROVE WriterInv'
  BY <1>3 DEF ReleaseStep, BeginImmediate, SelectActive, SelectRefused,
         Update, RelCommit, RelReturn
<1>4. ASSUME NEW p \in Process, BeginTimeout(p) PROVE WriterInv'
  BY <1>4 DEF BeginTimeout
<1>5. ASSUME NEW p \in Process, Call(p) PROVE WriterInv'
  BY <1>5 DEF Call, Construct, CallAllocate, CallRelease
<1>6. ASSUME NEW p \in Process, Fault(p) PROVE WriterInv'
  BY <1>6 DEF Fault, InitError, StatementError, Kill
<1>7. CASE UNCHANGED vars
  BY <1>7 DEF vars
<1> QED
  BY <1>1, <1>2, <1>3, <1>4, <1>5, <1>6, <1>7 DEF Next, Step

\* No instance over a half-initialised file.
LEMMA InitStepInv == TypeOK /\ TypeOK' /\ InitInv /\ [Next]_vars => InitInv'
<1> SUFFICES ASSUME TypeOK, TypeOK', InitInv, [Next]_vars PROVE InitInv'
  OBVIOUS
<1> USE DEF TypeOK, Goto, Lock, Unlock, file, call, ghost,
        InitInv, InitPC, Constructed, AllocatePC, ReleasePC
<1>1. ASSUME NEW p \in Process, InitStep(p) PROVE InitInv'
  BY <1>1 DEF InitStep, WalNoop, WalLock, WalBusy, WalSet, CreateNoop,
         CreateLock, CreateBusy, CreateDone, Retry, GiveUp
<1>2. ASSUME NEW p \in Process, AllocateStep(p) PROVE InitInv'
  BY <1>2 DEF AllocateStep, BeginExclusive, Insert, AlreadyAllocated,
         AllocCommit, AllocReturn
<1>3. ASSUME NEW p \in Process, ReleaseStep(p) PROVE InitInv'
  BY <1>3 DEF ReleaseStep, BeginImmediate, SelectActive, SelectRefused,
         Update, RelCommit, RelReturn
<1>4. ASSUME NEW p \in Process, BeginTimeout(p) PROVE InitInv'
  BY <1>4 DEF BeginTimeout
<1>5. ASSUME NEW p \in Process, Call(p) PROVE InitInv'
  BY <1>5 DEF Call, Construct, CallAllocate, CallRelease
<1>6. ASSUME NEW p \in Process, Fault(p) PROVE InitInv'
  BY <1>6 DEF Fault, InitError, StatementError, Kill
<1>7. CASE UNCHANGED vars
  BY <1>7 DEF vars
<1> QED
  BY <1>1, <1>2, <1>3, <1>4, <1>5, <1>6, <1>7 DEF Next, Step

\* Only the holder of the lock changes a row.
LEMMA TransactionStep == TypeOK /\ TypeOK' /\ WriterInv /\ TransactionInv /\ [Next]_vars => TransactionInv'
<1> SUFFICES ASSUME TypeOK, TypeOK', WriterInv, TransactionInv, [Next]_vars PROVE TransactionInv'
  OBVIOUS
<1> USE DEF TypeOK, Goto, Lock, Unlock, file, call, ghost,
        WriterInv, Writing, TransactionInv
<1>1. ASSUME NEW p \in Process, InitStep(p) PROVE TransactionInv'
  BY <1>1 DEF InitStep, WalNoop, WalLock, WalBusy, WalSet, CreateNoop,
         CreateLock, CreateBusy, CreateDone, Retry, GiveUp
<1>2. ASSUME NEW p \in Process, AllocateStep(p) PROVE TransactionInv'
  BY <1>2 DEF AllocateStep, BeginExclusive, Insert, AlreadyAllocated,
         AllocCommit, AllocReturn
<1>3. ASSUME NEW p \in Process, ReleaseStep(p) PROVE TransactionInv'
  BY <1>3 DEF ReleaseStep, BeginImmediate, SelectActive, SelectRefused,
         Update, RelCommit, RelReturn
<1>4. ASSUME NEW p \in Process, BeginTimeout(p) PROVE TransactionInv'
  BY <1>4 DEF BeginTimeout
<1>5. ASSUME NEW p \in Process, Call(p) PROVE TransactionInv'
  BY <1>5 DEF Call, Construct, CallAllocate, CallRelease
<1>6. ASSUME NEW p \in Process, Fault(p) PROVE TransactionInv'
  BY <1>6 DEF Fault, InitError, StatementError, Kill
<1>7. CASE UNCHANGED vars
  BY <1>7 DEF vars
<1> QED
  BY <1>1, <1>2, <1>3, <1>4, <1>5, <1>6, <1>7 DEF Next, Step

\* A run id is granted from a row that was absent under the lock.
LEMMA GrantStep == TypeOK /\ TypeOK' /\ WriterInv /\ TransactionInv /\ GrantInv /\ [Next]_vars => GrantInv'
<1> SUFFICES ASSUME TypeOK, TypeOK', WriterInv, TransactionInv, GrantInv, [Next]_vars PROVE GrantInv'
  OBVIOUS
<1> USE DEF TypeOK, Goto, Lock, Unlock, file, call, ghost,
        WriterInv, Writing, TransactionInv, GrantInv, UniqueGrant,
        GrantIsDurable, TerminalStates
<1>1. ASSUME NEW p \in Process, InitStep(p) PROVE GrantInv'
  BY <1>1 DEF InitStep, WalNoop, WalLock, WalBusy, WalSet, CreateNoop,
         CreateLock, CreateBusy, CreateDone, Retry, GiveUp
<1>2. ASSUME NEW p \in Process, AllocateStep(p) PROVE GrantInv'
  BY <1>2 DEF AllocateStep, BeginExclusive, Insert, AlreadyAllocated,
         AllocCommit, AllocReturn
<1>3. ASSUME NEW p \in Process, ReleaseStep(p) PROVE GrantInv'
  BY <1>3 DEF ReleaseStep, BeginImmediate, SelectActive, SelectRefused,
         Update, RelCommit, RelReturn
<1>4. ASSUME NEW p \in Process, BeginTimeout(p) PROVE GrantInv'
  BY <1>4 DEF BeginTimeout
<1>5. ASSUME NEW p \in Process, Call(p) PROVE GrantInv'
  BY <1>5 DEF Call, Construct, CallAllocate, CallRelease
<1>6. ASSUME NEW p \in Process, Fault(p) PROVE GrantInv'
  BY <1>6 DEF Fault, InitError, StatementError, Kill
<1>7. CASE UNCHANGED vars
  BY <1>7 DEF vars
<1> QED
  BY <1>1, <1>2, <1>3, <1>4, <1>5, <1>6, <1>7 DEF Next, Step

\* A verdict is given from a row that was active under the lock.
LEMMA VerdictStep == TypeOK /\ TypeOK' /\ WriterInv /\ TransactionInv /\ VerdictInv /\ [Next]_vars => VerdictInv'
<1> SUFFICES ASSUME TypeOK, TypeOK', WriterInv, TransactionInv, VerdictInv, [Next]_vars PROVE VerdictInv'
  OBVIOUS
<1> USE DEF TypeOK, Goto, Lock, Unlock, file, call, ghost,
        WriterInv, Writing, TransactionInv, VerdictInv, OneVerdict, TerminalStates
<1>1. ASSUME NEW p \in Process, InitStep(p) PROVE VerdictInv'
  BY <1>1 DEF InitStep, WalNoop, WalLock, WalBusy, WalSet, CreateNoop,
         CreateLock, CreateBusy, CreateDone, Retry, GiveUp
<1>2. ASSUME NEW p \in Process, AllocateStep(p) PROVE VerdictInv'
  BY <1>2 DEF AllocateStep, BeginExclusive, Insert, AlreadyAllocated,
         AllocCommit, AllocReturn
<1>3. ASSUME NEW p \in Process, ReleaseStep(p) PROVE VerdictInv'
  BY <1>3 DEF ReleaseStep, BeginImmediate, SelectActive, SelectRefused,
         Update, RelCommit, RelReturn
<1>4. ASSUME NEW p \in Process, BeginTimeout(p) PROVE VerdictInv'
  BY <1>4 DEF BeginTimeout
<1>5. ASSUME NEW p \in Process, Call(p) PROVE VerdictInv'
  BY <1>5 DEF Call, Construct, CallAllocate, CallRelease
<1>6. ASSUME NEW p \in Process, Fault(p) PROVE VerdictInv'
  BY <1>6 DEF Fault, InitError, StatementError, Kill
<1>7. CASE UNCHANGED vars
  BY <1>7 DEF vars
<1> QED
  BY <1>1, <1>2, <1>3, <1>4, <1>5, <1>6, <1>7 DEF Next, Step

-----------------------------------------------------------------------------

\* IInv is inductive, for all processes, run ids and retry budgets.
THEOREM Invariance == Spec => []IInv
<1>1. Init => IInv
  <2> SUFFICES ASSUME Init PROVE IInv
    OBVIOUS
  <2>1. TypeOK
    BY InitTyped
  <2>2. /\ \A p \in Process : pc[p] = "off" /\ writer # p
        /\ \A r \in RunId : grants[r] = 0 /\ closed[r] = 0
    BY FreeAssumption DEF Init
  <2> QED
    BY <2>1, <2>2 DEF IInv, WriterInv, InitInv, TransactionInv, GrantInv,
         VerdictInv, UniqueGrant, GrantIsDurable, OneVerdict, Writing,
         Constructed, AllocatePC, ReleasePC
<1>2. IInv /\ [Next]_vars => IInv'
  BY TypedStep, WriterStep, InitStepInv, TransactionStep, GrantStep, VerdictStep
     DEF IInv
<1> QED
  BY <1>1, <1>2, PTL DEF Spec

\* No two allocate calls hand out one run id (isolation.py:98-123).
THEOREM GrantsAreUnique == Spec => []UniqueGrant
<1>1. IInv => UniqueGrant
  BY DEF IInv, GrantInv
<1> QED
  BY <1>1, Invariance, PTL

\* A run id that was handed out stays in the file, whatever its owner or the
\* others suffer: the COMMIT comes before the return, and nothing deletes.
THEOREM GrantsAreDurable == Spec => []GrantIsDurable
<1>1. IInv => GrantIsDurable
  BY DEF IInv, GrantInv
<1> QED
  BY <1>1, Invariance, PTL

\* One release call wins, for good (isolation.py:125-160).
THEOREM VerdictsAreFinal == Spec => []OneVerdict
<1>1. IInv => OneVerdict
  BY DEF IInv, VerdictInv
<1> QED
  BY <1>1, Invariance, PTL

\* However often the constructor is retried, interrupted or killed, an
\* instance sees a complete file (isolation.py:185-219).
THEOREM NoHalfInit == Spec => []NeverHalfInit
<1>1. IInv => NeverHalfInit
  BY DEF IInv, InitInv, NeverHalfInit
<1> QED
  BY <1>1, Invariance, PTL

\* The file is a RunRegistry: a COMMIT of allocate or release is one of its
\* steps, every other statement, error and death leaves it as it is.
THEOREM Refinement == Spec => Implements
<1>1. Init => Promise!Init
  BY DEF Init, Promise!Init
<1>2. IInv /\ [Next]_vars => [Promise!Next]_rows
  <2> SUFFICES ASSUME IInv, [Next]_vars, rows' # rows PROVE Promise!Next
    BY DEF Promise!Next
  <2> USE DEF IInv, TypeOK, TransactionInv, file, call, ghost
  <2>1. PICK p \in Process : AllocCommit(p) \/ RelCommit(p)
    BY DEF Next, Step, InitStep, AllocateStep, ReleaseStep, BeginTimeout,
         Call, Fault, WalNoop, WalLock, WalBusy, WalSet, CreateNoop,
         CreateLock, CreateBusy, CreateDone, Retry, GiveUp, InitError,
         Construct, CallAllocate, CallRelease, BeginExclusive, Insert,
         AlreadyAllocated, AllocReturn, BeginImmediate, SelectActive,
         SelectRefused, Update, RelReturn, StatementError, Kill, vars
  <2>2. CASE AllocCommit(p)
    <3>1. Promise!Allocate(run[p])
      BY <2>2 DEF AllocCommit, Goto, Promise!Allocate
    <3> QED
      BY <3>1 DEF Promise!Next
  <2>3. CASE RelCommit(p)
    <3>1. Promise!Release(run[p], target[p])
      BY <2>3 DEF RelCommit, Goto, Promise!Release
    <3> QED
      BY <3>1 DEF Promise!Next, Promise!TerminalStates, TerminalStates
  <2> QED
    BY <2>1, <2>2, <2>3
<1> QED
  BY <1>1, <1>2, Invariance, PTL DEF Spec, Implements, Promise!Spec
=============================================================================
