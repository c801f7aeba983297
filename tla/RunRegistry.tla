---------------------------- MODULE RunRegistry ----------------------------
(***************************************************************************)
(* What orchestrator/isolation.py promises of the run-id registry: a       *)
(* run id is allocated at most once, and an allocated run is brought to    *)
(* one terminal state, once, for good.  SqliteRegistry implements it.      *)
(***************************************************************************)

CONSTANT RunId          \* the canonical UUID4 strings

VARIABLE registry       \* registry[r]: the row of r, or "absent"

TerminalStates == {"completed", "failed", "reaped"}

RunState == {"active"} \cup TerminalStates

RowTypeOK == registry \in [RunId -> RunState \cup {"absent"}]

Init == registry = [r \in RunId |-> "absent"]

Allocate(r) ==
    /\ registry[r] = "absent"
    /\ registry' = [registry EXCEPT ![r] = "active"]

Release(r, s) ==
    /\ registry[r] = "active"
    /\ registry' = [registry EXCEPT ![r] = s]

Next == \E r \in RunId :
            \/ Allocate(r)
            \/ \E s \in TerminalStates : Release(r, s)

Spec == Init /\ [][Next]_registry
=============================================================================
