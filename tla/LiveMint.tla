------------------------------ MODULE LiveMint ------------------------------
(***************************************************************************)
(* A live board from rehearsal to publication (live_review.py): the shape  *)
(* of the wire is rehearsed on a throwaway source, a commitment to the     *)
(* builder is signed, mint_reviewable_board asks for the rehearsal, calls  *)
(* render_board (RenderBoard) and writes the rehearsal beside the board.   *)
(* The captures are then replayed; an auditor checks them against receipts *)
(* and commitment (ReviewWire); a stranger projects the directory, as it   *)
(* is at any time, to statements (Projector).                              *)
(*                                                                         *)
(* A setup also has the builder that is committed to and rehearsed, the    *)
(* throwaway source, the source digests that the caller declares for the   *)
(* throwaway and for the demonstration pair, and whether the rehearsal     *)
(* goes through the client of the mint.                                    *)
(***************************************************************************)
EXTENDS RenderBoard, Projector

(* What is rendered has a cell; a driver has a directory for the task of   *)
(* each, and one of the two builders.  No receipt found in out_dir is      *)
(* anchored to a manifest whose run ids were not drawn yet.                *)
ASSUME MintAssumption ==
    /\ Len(Cells) \in Nat \ {0} /\ DOMAIN Cells = 1..Len(Cells)
    /\ \A s \in Setups :
           /\ \A k \in DOMAIN Cells : Cells[k].task \in DOMAIN s.artifact
           /\ {s.builder.kind, s.committed.kind} \subseteq {"messages", "reviewable"}
           /\ \A r \in Receipts(s.out_dir) : r.anchor # Manifest.digest

VARIABLES
    step,       \* of the driver
    rehearsal,  \* the RehearsalRecord, or None
    commitment  \* the published fingerprint of a builder, or None

mint_vars == <<vars, step, rehearsal, commitment>>

MintInit ==
    /\ Init
    /\ step = "rehearse" /\ rehearsal = None /\ commitment = None

\* rehearse_reviewable_shape: a builder that raises ends the driver; a call
\* that does not return a verdict is a disclosed non-engagement.
Rehearse ==
    /\ step = "rehearse"
    /\ LET request == Wire(setup.committed, setup.throwaway, setup.committed.prompt)
       IN  \/ /\ request = NoWire /\ step' = "refused"
              /\ UNCHANGED <<rehearsal, sink>>
           \/ /\ request # NoWire /\ step' = "commit"
              /\ rehearsal' = [disclosed |-> TRUE, engaged |-> FALSE]
              /\ UNCHANGED sink
           \/ /\ request # NoWire /\ step' = "commit"
              /\ rehearsal' = [disclosed |-> TRUE, engaged |-> TRUE]
              /\ \E response \in Answers :
                     sink' = IF setup.same_client THEN Captured(request, response) ELSE sink
    /\ UNCHANGED <<setup, phase, pc, keyMatches, receipts, corpus, minted, disk, written,
                   commitment>>

\* A driver may leave the rehearsal out.
Skip ==
    /\ step = "rehearse" /\ step' = "commit"
    /\ UNCHANGED <<vars, rehearsal, commitment>>

\* build_commitment: the fingerprint, published before the first live call.
Commit ==
    /\ step = "commit" /\ step' = "gate"
    /\ commitment' = [prompt |-> setup.committed.prompt, model |-> setup.committed.model,
                      max_tokens |-> setup.committed.max_tokens]
    /\ UNCHANGED <<vars, rehearsal>>

\* Mutant: a rehearsal is asked for, not that it engaged.
RehearsalAdmits_Disclosed == rehearsal # None /\ rehearsal.disclosed

\* assert_rehearsal_admits
RehearsalAdmits == rehearsal # None /\ rehearsal.disclosed /\ rehearsal.engaged

\* D2, of the digests the caller declares.
Disjoint == setup.throwaway_digest \notin setup.demonstration_digests

\* They are those of the sources; nothing checks it.
DeclaredAsIs ==
    /\ setup.throwaway_digest = setup.throwaway
    /\ {setup.artifact[t] : t \in DOMAIN setup.artifact} \subseteq setup.demonstration_digests

Gate ==
    /\ step = "gate"
    /\ step' = IF RehearsalAdmits /\ Disjoint THEN "render" ELSE "refused"
    /\ UNCHANGED <<vars, rehearsal, commitment>>

RenderStep ==
    /\ step \in {"render", "replay"}
    /\ Render
    /\ UNCHANGED <<step, rehearsal, commitment>>

\* rehearsal.json, after the board: it is written, or the call fails.
WriteRehearsal ==
    /\ step = "render" /\ pc = "done"
    /\ \/ /\ step' = "minted"
          /\ disk' = write_text(disk, File("board", "rehearsal.json"), rehearsal)
       \/ /\ step' = "unrecorded"
          /\ \/ UNCHANGED disk
             \/ disk' = write_text(disk, File("board", "rehearsal.json"), Torn)
    /\ UNCHANGED <<setup, phase, pc, keyMatches, receipts, sink, corpus, minted, written,
                   rehearsal, commitment>>

StartReplay ==
    /\ step \in {"minted", "unrecorded"} /\ step' = "replay"
    /\ Replay
    /\ UNCHANGED <<rehearsal, commitment>>

MintDone ==
    /\ step = "refused" \/ pc = "raised" \/ (pc = "done" /\ phase = "recorded")
    /\ UNCHANGED mint_vars

MintNext ==
    \/ Rehearse \/ Skip \/ Commit \/ Gate \/ RenderStep \/ WriteRehearsal \/ StartReplay
    \/ MintDone

MintSpec == MintInit /\ [][MintNext]_mint_vars

-----------------------------------------------------------------------------
(* Nothing of a live board is written that is not licensed: there was a    *)
(* rehearsal that engaged, its request - when the caller declared the      *)
(* digests of the sources as they are - is not that of any review shown,   *)
(* and the board is admissible under the key it will be read with, its     *)
(* captures checked (mint_reviewable_board; README, caller-law).           *)
OnlyLicensedOnDisk ==
    /\ OnlyAdmissibleOnDisk
    /\ written > 0 =>
        /\ rehearsal # None /\ rehearsal.engaged
        /\ DeclaredAsIs => \A r \in Reviews :
               r.obs.request # Wire(setup.committed, setup.throwaway, review_prompt_hash)

\* The builder that rendered is the one committed to, as far as it can show.
BuiltAsCommitted ==
    /\ setup.builder.kind = "reviewable"
    /\ setup.builder.prompt = commitment.prompt
    /\ setup.builder.model = commitment.model
    /\ setup.builder.max_tokens = commitment.max_tokens

(* An auditor who has the published board and the commitment confirms each *)
(* measured review if the committed builder made its request, and refuses  *)
(* it if another did: the capture named by the receipt's request digest is *)
(* there and shows every file of the tree the receipt is about             *)
(* (assert_reviewable_wire).                                               *)
AuditorConfirms ==
    phase = "live" /\ pc = "done" =>
        \A r \in Reviews :
            /\ CaptureFile(r.obs) \in DOMAIN disk
            /\ AuditorAdmits(disk[CaptureFile(r.obs)].request, commitment, r.digest)
                <=> BuiltAsCommitted

Effect(verdict) ==
    CASE verdict = "ADMIT" -> "allowed"
      [] verdict \in {"ADMIT/fail", "BLOCKED"} -> "blocked"
      [] OTHER -> "indeterminate"

\* No two cells have one slug: nothing asks it of task ids and lineages, and where
\* it fails receipts are overwritten (EveryReceiptHasItsFile).
NamesApart ==
    \A j, k \in DOMAIN Cells : Slug(Cells[j].id.cell_id) = Slug(Cells[k].id.cell_id) => j = k

(* What a stranger makes of the directory, even half written or with files *)
(* of an earlier board among its own: a statement under this board's       *)
(* manifest digest tells the merge effect of a gate receipt of this board, *)
(* as its table does; where no two cells have one name, a finished board   *)
(* has exactly one for each planned cell; and, in a directory of its own,  *)
(* nothing else, each with the state of its review column                  *)
(* (projector.build_statements).                                           *)
StatementsAreTheBoards ==
    Readable(disk) =>
        LET statements == build_statements(read_sealed_run(disk))
            own == {s \in statements : s.manifest_digest = Manifest.digest}
        IN  /\ \A s \in own : \E row \in Table :
                   s.statement_id[2] = row.id /\ s.merge_effect = Effect(row.verdict)
            /\ NamesApart /\ pc = "done" =>
                \A k \in DOMAIN Cells :
                    Cardinality({s \in own : s.statement_id[2] = Cells[k].id}) = 1
            /\ NamesApart /\ pc = "done" /\ (setup.out_dir = Empty \/ phase = "recorded") =>
                /\ Cardinality(statements) = Len(Cells)
                /\ \A s \in statements :
                       s.board_status =
                           board_status({r \in Range(receipts) : r.stage = "llm_review"})
=============================================================================
