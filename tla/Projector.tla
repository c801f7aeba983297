----------------------------- MODULE Projector -----------------------------
(***************************************************************************)
(* attestation/projector.py: what a stranger makes of a published run - a  *)
(* directory of receipts and nothing else - one statement per gate receipt *)
(* found in it.  A directory maps file names to contents.                  *)
(***************************************************************************)
EXTENDS BoardSchema

Receipts(dir) ==
    {dir[f] : f \in {g \in DOMAIN dir : g.dir = "receipts" /\ g.stage # "manifest"}}

ManifestFile(dir) ==
    CHOOSE f \in DOMAIN dir : f.dir = "receipts" /\ f.stage = "manifest"

\* Reading a directory without a manifest, or with a receipt that does not parse, raises.
Readable(dir) ==
    /\ \E f \in DOMAIN dir : f.dir = "receipts" /\ f.stage = "manifest"
    /\ \A f \in DOMAIN dir : f.dir = "receipts" => dir[f] # Torn

read_sealed_run(dir) ==
    [manifest |-> dir[ManifestFile(dir)],
     gate     |-> {r \in Receipts(dir) : r.stage = "gate"},
     review   |-> {r \in Receipts(dir) : r.stage = "llm_review"}]

result_kind(r) ==
    IF "result_kind" \in DOMAIN r.obs THEN r.obs.result_kind ELSE "harness_error"

\* Mutant: an admitted run may merge.
merge_effect_Admitted(r) ==
    CASE result_kind(r) = "admitted_run" -> "allowed"
      [] result_kind(r) = "blocking_refusal" -> "blocked"
      [] OTHER -> "indeterminate"

\* _derive_merge_effect
merge_effect(r) ==
    CASE result_kind(r) = "admitted_run" /\ r.outcome = "pass" -> "allowed"
      [] result_kind(r) = "admitted_run" /\ r.outcome # "pass" -> "blocked"
      [] result_kind(r) = "blocking_refusal" -> "blocked"
      [] OTHER -> "indeterminate"

\* _derive_board_status, of all the review receipts found.
board_status(reviews) ==
    LET errors == {r \in reviews : r.outcome = "error"}
    IN  IF reviews # {} /\ errors = reviews THEN "review_column_refused"
        ELSE IF errors # {} THEN "partial_error"
        ELSE "review_column_complete"

\* build_statements: of the gate receipt r in the sealed run.
Statement(sealed, r) ==
    [statement_id    |-> <<sealed.manifest.digest, r.id>>,
     subject         |-> r.digest,
     outcome         |-> r.outcome,
     manifest_digest |-> r.anchor,
     merge_effect    |-> merge_effect(r),
     board_status    |-> board_status(sealed.review)]

build_statements(sealed) == {Statement(sealed, r) : r \in sealed.gate}
=============================================================================
