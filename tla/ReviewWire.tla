----------------------------- MODULE ReviewWire -----------------------------
(***************************************************************************)
(* What a live reviewer is sent (live_review.py): the two builders of the  *)
(* request body, the strict parser of the reviewable one, and the check an *)
(* auditor makes of it against a receipt and the published commitment.     *)
(*                                                                         *)
(* A sealed source is the set of its files, [path, text]; a digest is the  *)
(* value digested, so a source is its own digest; a source is as large as  *)
(* it has files.  A body is its top-level keys and its text blocks.        *)
(***************************************************************************)
EXTENDS Integers, Sequences, FiniteSets, SequencesExt

CONSTANTS
    Undecodable,    \* file contents that are not utf-8
    NoWire          \* a builder that raised

TopKeys == {"model", "max_tokens", "stream", "messages"}

Body(b, blocks) ==
    [keys |-> TopKeys, model |-> b.model, max_tokens |-> b.max_tokens, blocks |-> blocks]

\* What both builders refuse: another prompt than the board's, a source over
\* the cap.
Buildable(b, source, review_prompt_hash) ==
    /\ b.prompt = review_prompt_hash
    /\ Cardinality(source) <= b.max_source

\* AnthropicMessagesRequestBuilder: the source as one opaque block.
MessagesWire(b, source) == Body(b, <<b.prompt, source>>)

-----------------------------------------------------------------------------
(* The reviewable wire: prompt, list of paths, one block for each file     *)

\* The envelope lists its files in one order, whatever order they came in.
Ordered(source) == SetToSeq(source)

Framed(b, source) ==
    LET files == Ordered(source)
    IN  Body(b, <<b.prompt, [i \in DOMAIN files |-> files[i].path]>>
                 \o [i \in DOMAIN files |-> files[i].text])

\* parse_reviewable_wire admits no other key, at least three blocks, no path
\* twice, and as many files as paths ...
Parses(wire) ==
    /\ wire.keys = TopKeys
    /\ Len(wire.blocks) >= 3
    /\ IsInjective(wire.blocks[2])
    /\ Len(wire.blocks[2]) = Len(wire.blocks) - 2

\* ... and rebuilds the source from what the model was shown.
SourceShown(wire) ==
    {[path |-> wire.blocks[2][i], text |-> wire.blocks[i + 2]] : i \in DOMAIN wire.blocks[2]}

\* Mutant: the wire is returned as it was framed.
SelfParses_Skipped(wire, b, source) == TRUE

\* What the builder asks of its own wire before it returns it.
SelfParses(wire, b, source) ==
    /\ Parses(wire)
    /\ SourceShown(wire) = source
    /\ wire.blocks[1] = b.prompt

ReviewableWire(b, source) ==
    LET wire == Framed(b, source)
    IN  IF (\A f \in source : f.text \notin Undecodable) /\ SelfParses(wire, b, source)
        THEN wire ELSE NoWire

\* build_request of a live board; NoWire when the builder raises.
Wire(b, source, review_prompt_hash) ==
    IF ~Buildable(b, source, review_prompt_hash) THEN NoWire
    ELSE CASE b.kind = "messages"   -> MessagesWire(b, source)
           [] b.kind = "reviewable" -> ReviewableWire(b, source)

\* assert_reviewable_wire: what was sent shows the receipt's source, under the
\* committed prompt, model and token limit.
AuditorAdmits(wire, commitment, source_digest) ==
    /\ Parses(wire)
    /\ wire.blocks[1] = commitment.prompt
    /\ SourceShown(wire) = source_digest
    /\ wire.model = commitment.model /\ wire.max_tokens = commitment.max_tokens
=============================================================================
