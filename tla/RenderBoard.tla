----------------------------- MODULE RenderBoard -----------------------------
(***************************************************************************)
(* render_board (render_driver.py): a live board whose reviewer is a       *)
(* capturing client over the provider gate (live_review.py,                *)
(* provider_gate.py), then a recorded board that replays its captures over *)
(* the same tasks.  A render checks its labels, signs the manifest, fills  *)
(* the cells one after another, passes the render gate, bundles the        *)
(* captures, and only then writes the board, one file at a time.           *)
(***************************************************************************)
EXTENDS BoardSchema, ReviewWire, SequencesExt

CONSTANTS
    Tasks,          \* ordered [task_id, side] records
    Lineages,       \* ordered producing lineages
    Setups,         \* what a driver may set up: the builder of requests, each
                    \* task's artifact_dir (a source) and gate answer, the
                    \* client's model_id, or None, and what out_dir holds
                    \* beforehand
    review_prompt_hash,     \* of the tasks
    Responses,      \* response bytes the reviewer may return
    VerdictOf,      \* response -> its verdict, None when the parser refuses it
    None,
    Env             \* toolchain env_digest, also of the sandboxes

Manifest ==
    [digest |-> "manifest", env_digest |-> Env, n |-> 1, tasks |-> Tasks,
     cells |-> plan_cells(Tasks, Lineages, 1)]
Cells == Manifest.cells

VARIABLES
    setup,      \* the driver's
    phase,      \* the board being rendered: "live" or "recorded"
    pc,         \* where render_board is
    keyMatches, \* verify_key is the signing key's
    receipts,   \* the signed receipts, cell after cell
    sink,       \* captures of the live client
    corpus,     \* captures the recorded client replays
    minted,     \* normalize_board of the live board
    disk,       \* out_dir of the board being rendered
    written     \* files of it written so far, a torn one included

board_vars == <<phase, pc, keyMatches, receipts, sink, corpus, minted, disk, written>>
vars == <<setup, board_vars>>

Empty == [f \in {} |-> f]

Init ==
    /\ setup \in Setups
    /\ phase = "live"
    /\ pc = "label"
    /\ keyMatches \in BOOLEAN
    /\ receipts = << >> /\ sink = << >> /\ corpus = << >>
    /\ minted = {}
    /\ disk = setup.out_dir /\ written = 0

Raise ==
    /\ pc' = "raised"
    /\ UNCHANGED <<setup, phase, keyMatches, receipts, sink, corpus, minted, disk, written>>

Goto(l) ==
    /\ pc' = l
    /\ UNCHANGED <<setup, phase, keyMatches, receipts, sink, corpus, minted, disk, written>>

-----------------------------------------------------------------------------
(* _assert_label_consistent asks a live board for the client's model in    *)
(* its requests, where the client tells it; duplicate task ids, missing    *)
(* directories and disagreeing prompts also end before any stage; then     *)
(* plan, validate and sign.                                                *)
LabelConsistent == phase = "live" => setup.model_id \in {None, setup.builder.model}

Check ==
    /\ pc = "label"
    /\ \/ LabelConsistent /\ ValidManifest(Manifest) /\ Goto("cells")
       \/ Raise

(* The builders put the prompt, the model and the sealed source in the     *)
(* wire body; neither the lineage nor the replicate.                       *)
build_request(source) == Wire(setup.builder, source, review_prompt_hash)

SourceOf(c) == setup.artifact[c.task]

Receipt(c, stage, outcome, obs) ==
    [run |-> c.run, anchor |-> Manifest.digest, id |-> c.id, stage |-> stage,
     digest |-> SourceOf(c), outcome |-> outcome, obs |-> obs]

ReviewError(c) == Receipt(c, "llm_review", "error", HarnessError)

(* llm_review_stage, of the response to its request.                       *)
ReviewOf(c, response) ==
    Receipt(c, "llm_review", ReviewOutcomeOf(VerdictOf[response]),
        [verdict |-> VerdictOf[response], source |-> SourceOf(c),
         request |-> build_request(SourceOf(c)), response |-> response])

(* The gate measures the tree of the cell; an error has measured nothing.  *)
GateReceipt(c) ==
    LET g == setup.gate[c.task]
    IN  IF g.kind = "harness_error" THEN Receipt(c, "gate", "error", HarnessError)
        ELSE Receipt(c, "gate", g.outcome,
            [result_kind |-> g.kind, result_reason |-> g.reason, gate_outcome |-> g.gate_outcome,
             measured_tree_digest |-> SourceOf(c)])

(* The other stages see the same tree and the same tools in both renders.  *)
Row(c, review) ==
    <<Receipt(c, "static", "pass", [env_digest |-> Env, ruff_exit |-> 0, mypy_exit |-> 0]),
      Receipt(c, "own_tests", "pass",
        [isolation |-> "hermetic", image_digest |-> Env, exit |-> 0, status |-> "passed"]),
      review, GateReceipt(c)>>

ErrorRow(c) ==
    [i \in DOMAIN GAUNTLET_STAGES |->
        [Receipt(c, GAUNTLET_STAGES[i], "error", HarnessError) EXCEPT !.digest = Unmeasurable]]

NextCell == Cells[(Len(receipts) \div Len(GAUNTLET_STAGES)) + 1]

Fill(row) ==
    /\ receipts' = receipts \o row
    /\ pc' = IF Len(receipts') = Len(GAUNTLET_STAGES) * Len(Cells) THEN "admit" ELSE "cells"
    /\ UNCHANGED <<setup, phase, keyMatches, corpus, minted, disk, written>>

(* Mutant of Captured: one capture per request. *)
Captured_Once(request, response) ==
    IF \E i \in DOMAIN sink : sink[i].request = request THEN sink
    ELSE Append(sink, [request |-> request, response |-> response])

(* CapturingReviewClient: one capture per call that returned. *)
Captured(request, response) == Append(sink, [request |-> request, response |-> response])

(* ReviewProviderClient: the wire is posted to the completion path, and    *)
(* what comes back is strictly parsed; anything else is an error.          *)
Answers == {response \in Responses : VerdictOf[response] # None}

(* A live review: the builder or the call fails and nothing is recorded;   *)
(* or it returns, is recorded, and is signed - unless publishing the cell  *)
(* then fails.                                                             *)
LiveCell ==
    /\ pc = "cells" /\ phase = "live"
    /\ LET request == build_request(SourceOf(NextCell))
       IN  \/ /\ Fill(Row(NextCell, ReviewError(NextCell))) \/ Fill(ErrorRow(NextCell))
              /\ UNCHANGED sink
           \/ /\ request # NoWire
              /\ \E response \in Answers :
                  /\ Fill(Row(NextCell, ReviewOf(NextCell, response)))
                       \/ Fill(ErrorRow(NextCell))
                  /\ sink' = Captured(request, response)

(* Mutant of Replayed: whatever was captured first. *)
Replayed_First(request) == DOMAIN corpus \cap {1}

(* RecordedReviewClient: the first capture of this very request. *)
Replayed(request) ==
    {i \in DOMAIN corpus :
        /\ corpus[i].request = request
        /\ \A j \in 1..(i - 1) : corpus[j].request # request}

RecordedCell ==
    /\ pc = "cells" /\ phase = "recorded"
    /\ LET found == Replayed(build_request(SourceOf(NextCell)))
       IN  \/ \E i \in found : Fill(Row(NextCell, ReviewOf(NextCell, corpus[i].response)))
           \/ found = {} /\ Fill(Row(NextCell, ReviewError(NextCell)))
           \/ Fill(ErrorRow(NextCell))
    /\ UNCHANGED sink

(* run_gauntlet raises only when its own receipts cannot be published.     *)
PublishingFails == pc = "cells" /\ Raise

(* assert_board_admissible under the caller's verify_key. *)
Admissible == keyMatches /\ assert_board_admissible(Manifest, receipts)

Admit ==
    /\ pc = "admit"
    /\ IF Admissible THEN Goto("bundle") ELSE Raise

(* The captures bundled with the board. *)
CaptureRecords == IF phase = "live" THEN sink ELSE corpus

Reviews == {r \in Range(receipts) : r.stage = "llm_review" /\ Measured(r)}

(* _assert_capture_consistent: by request digest. *)
CaptureConsistent ==
    phase = "live" =>
        \A r \in Reviews : \E i \in DOMAIN CaptureRecords :
            CaptureRecords[i].request = r.obs.request

Bundle ==
    /\ pc = "bundle"
    /\ IF CaptureConsistent THEN Goto("emit") ELSE Raise

-----------------------------------------------------------------------------
(* _emit. *)

(* cell_id.replace("/", "_") *)
Slug(cell_id) == [cell_id EXCEPT !.path = ReplaceAll(@, "/", "_")]

ReceiptFile(r) ==
    [dir |-> "receipts", slug |-> Slug(r.id.cell_id), stage |-> r.stage, request |-> NoWire]

File(dir, name) ==
    [dir |-> dir, slug |-> CellId(<< >>, << >>, 0), stage |-> name, request |-> NoWire]

CaptureFile(c) == [File("captures", "capture") EXCEPT !.request = c.request]

(* normalize_board: the payloads without nonces, ordered by cell and stage. *)
Normalized ==
    {[id |-> r.id, stage |-> r.stage, digest |-> r.digest, outcome |-> r.outcome, obs |-> r.obs]
        : r \in Range(receipts)}

(* _cell_verdict: what the table shows of a gate receipt.                  *)
cell_verdict(r) ==
    IF ~Measured(r) THEN "ERROR"
    ELSE CASE r.obs.result_kind = "blocking_refusal" -> "BLOCKED"
           [] r.obs.result_kind = "admitted_run" ->
                 IF r.outcome = "pass" THEN "ADMIT" ELSE "ADMIT/fail"
           [] OTHER -> "ERROR"

(* render_table, its gate column: by cell.                                 *)
Table ==
    {[id |-> r.id, verdict |-> cell_verdict(r)] : r \in {q \in Range(receipts) : q.stage = "gate"}}

(* The writes in order: the manifest, a file per receipt, the three views  *)
(* of the board, a file per captured request.                              *)
Writes ==
    <<[name |-> File("receipts", "manifest"), content |-> Manifest]>>
    \o [i \in DOMAIN receipts |-> [name |-> ReceiptFile(receipts[i]), content |-> receipts[i]]]
    \o <<[name |-> File("board", "board.json"),
          content |-> [table |-> Table, captures |-> CaptureRecords]],
         [name |-> File("board", "DISCLOSURE.txt"), content |-> phase],
         [name |-> File("board", "normalized.json"), content |-> Normalized]>>
    \o [i \in DOMAIN CaptureRecords |->
            [name |-> CaptureFile(CaptureRecords[i]), content |-> CaptureRecords[i]]]

(* Path.write_text: a file that is there is overwritten. *)
write_text(dir, f, content) ==
    [g \in DOMAIN dir \cup {f} |-> IF g = f THEN content ELSE dir[g]]

Emit ==
    /\ pc = "emit"
    /\ LET w == Writes[written + 1]
       IN  disk' = write_text(disk, w.name, w.content)
    /\ written' = written + 1
    /\ pc' = IF written' = Len(Writes) THEN "done" ELSE "emit"
    /\ UNCHANGED <<setup, phase, keyMatches, receipts, sink, corpus, minted>>

(* A write fails: the exception leaves what was written, and of the file   *)
(* itself, which write_text empties before it writes, perhaps a part.      *)
EmitFails ==
    /\ pc = "emit"
    /\ \/ UNCHANGED <<disk, written>>
       \/ /\ disk' = write_text(disk, Writes[written + 1].name, Torn)
          /\ written' = written + 1
    /\ pc' = "raised"
    /\ UNCHANGED <<setup, phase, keyMatches, receipts, sink, corpus, minted>>

-----------------------------------------------------------------------------
(* The live board's captures become the corpus of a recorded render of the *)
(* same tasks into another directory.                                      *)
Replay ==
    /\ pc = "done" /\ phase = "live"
    /\ phase' = "recorded"
    /\ pc' = "label"
    /\ corpus' = sink
    /\ minted' = Normalized
    /\ receipts' = << >>
    /\ disk' = Empty /\ written' = 0
    /\ UNCHANGED <<setup, keyMatches, sink>>

Done ==
    /\ pc = "raised" \/ (pc = "done" /\ phase = "recorded")
    /\ UNCHANGED vars

Render ==
    \/ Check \/ LiveCell \/ RecordedCell \/ PublishingFails \/ Admit \/ Bundle
    \/ Emit \/ EmitFails

Next == Render \/ Replay \/ Done

Spec == Init /\ [][Next]_vars

-----------------------------------------------------------------------------
(* README, caller-law: nothing is written until admission has passed -     *)
(* what a render has written at any moment belongs to an admissible board  *)
(* under the key it will be read with, its captures checked.               *)
OnlyAdmissibleOnDisk ==
    written > 0 =>
        keyMatches /\ assert_board_admissible(Manifest, receipts) /\ CaptureConsistent

(* Every measured review of a live board is bundled with the very response *)
(* its receipt was signed over, though the check before emitting only asks *)
(* for a capture of the same request and cells share requests.             *)
EveryReviewCaptured ==
    pc = "done" /\ phase = "live" =>
        \A r \in Reviews : \E i \in DOMAIN CaptureRecords :
            /\ CaptureRecords[i].request = r.obs.request
            /\ CaptureRecords[i].response = r.obs.response

(* _emit writes "the board + all signed receipts": a finished board has a  *)
(* file of its own for every receipt (render_driver.py:603).               *)
EveryReceiptHasItsFile ==
    pc = "done" =>
        \A i \in DOMAIN receipts :
            ReceiptFile(receipts[i]) \in DOMAIN disk /\ disk[ReceiptFile(receipts[i])] = receipts[i]

(* A replay that measured every cell reproduces, byte for byte once         *)
(* normalised, the live board it was minted from, provided the live        *)
(* reviewer answered equal requests equally.                               *)
ReplayFaithful ==
    /\ pc = "done" /\ phase = "recorded"
    /\ \A r \in minted \cup Normalized : Measured(r)
    /\ \A i, j \in DOMAIN corpus : corpus[i].request = corpus[j].request => corpus[i] = corpus[j]
    => Normalized = minted

(* test_live_review.py: "a live mint's captures form a replayable corpus", *)
(* with identical normalised bytes.                                        *)
ReplayReproduces ==
    /\ pc = "done" /\ phase = "recorded"
    /\ \A r \in minted \cup Normalized : Measured(r)
    => Normalized = minted
=============================================================================
