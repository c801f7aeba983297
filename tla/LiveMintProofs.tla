--------------------------- MODULE LiveMintProofs ---------------------------
(***************************************************************************)
(* The live mint and its replay, for any tasks, lineages, setups, reviewer *)
(* and responses: what is written is licensed, every review that is shown  *)
(* was captured, a replay reproduces the board, and what an auditor and a  *)
(* stranger read off the directory is what the receipts say.               *)
(***************************************************************************)
EXTENDS LiveMint, FiniteSetTheorems, SequenceTheorems, TLAPS

(* Receipts *)

\* A list, whatever its elements.
IsSequence(s) == \E S : s \in Seq(S)

\* A receipt as normalize_board shows it.
Normal(r) ==
    [id |-> r.id, stage |-> r.stage, digest |-> r.digest, outcome |-> r.outcome,
     obs |-> r.obs]

\* The reviews of a cell that these captures answer.
ReviewsOf(c, captures) ==
    {ReviewOf(c, captures[i].response) : i \in
        {j \in DOMAIN captures : /\ captures[j].request = build_request(SourceOf(c))
                                 /\ captures[j].request # NoWire}}

\* What a cell's row may hold that was measured, under these captures.
Parts(c, captures) ==
    {Row(c, ReviewError(c))[i] : i \in {1, 2, 4}} \cup ReviewsOf(c, captures)

\* What was measured is a part of some cell's row.
Known(N, captures) ==
    \A x \in N : Measured(x) =>
        \E k \in DOMAIN Cells : \E r \in Parts(Cells[k], captures) : x = Normal(r)

\* The first n cells have a receipt of each stage.
Filled(N, n) ==
    \A k \in 1 .. n, i \in 1 .. 4 :
        \E x \in N : x.id = Cells[k].id /\ x.stage = GAUNTLET_STAGES[i]

\* Captures are of requests that were sent.
Sent(captures) ==
    /\ IsSequence(captures)
    /\ \A i \in DOMAIN captures : captures[i].request # NoWire

(* The invariant *)

\* The receipts come row by row, none before the cells, all of them after.
RowsInv ==
    /\ IsSequence(receipts)
    /\ \E n \in Nat :
         /\ Len(receipts) = 4 * n
         /\ Filled(Range(receipts), n)
         /\ pc = "label" => n = 0
         /\ pc = "cells" => n < Len(Cells)
         /\ pc \in {"admit", "bundle", "emit", "done"} => n = Len(Cells)

\* What they say was measured, and was captured where a reviewer said it.
ReviewInv ==
    /\ setup \in Setups
    /\ phase \in {"live", "recorded"}
    /\ Sent(sink)
    /\ \A r \in Range(receipts) : Measured(r) =>
           \E k \in DOMAIN Cells : r \in Parts(Cells[k], CaptureRecords)

\* The live board, once it is replayed.
MintedInv ==
    phase = "recorded" =>
        Sent(corpus) /\ Known(minted, corpus) /\ Filled(minted, Len(Cells))

\* Nothing is written before the board is admitted and its captures are checked.
WrittenInv ==
    /\ pc \in {"label", "cells", "admit", "bundle", "emit", "done", "raised"}
    /\ pc \in {"label", "cells", "admit", "bundle"} => written = 0
    /\ written \in Nat
    /\ pc \in {"bundle", "emit", "done"} \/ written > 0 => Admissible
    /\ pc \in {"emit", "done"} \/ written > 0 => CaptureConsistent

\* Nothing is rendered before the rehearsal has been asked for.
StepInv ==
    /\ step \in {"rehearse", "commit", "gate", "refused", "render", "minted", "unrecorded",
                 "replay"}
    /\ step \in {"rehearse", "commit", "gate", "refused"} =>
           pc = "label" /\ phase = "live" /\ written = 0 /\ receipts = << >>
    /\ step \in {"render", "minted", "unrecorded", "replay"} => RehearsalAdmits /\ Disjoint

IInv == RowsInv /\ ReviewInv /\ MintedInv /\ WrittenInv /\ StepInv

(* Lists *)

\* A list and another after it.
LEMMA Concat ==
    ASSUME NEW s, IsSequence(s), NEW t, IsSequence(t)
    PROVE  /\ IsSequence(s \o t)
           /\ Len(s) \in Nat /\ Len(t) \in Nat /\ Len(s \o t) = Len(s) + Len(t)
           /\ Range(s \o t) = Range(s) \cup Range(t)
  <1>0. PICK S, T : s \in Seq(S) /\ t \in Seq(T)
    BY DEF IsSequence
  <1>1. s \in Seq(S \cup T) /\ t \in Seq(S \cup T)
    BY <1>0
  <1>2. /\ s \o t \in Seq(S \cup T) /\ Len(s \o t) = Len(s) + Len(t)
        /\ \A i \in 1 .. (Len(s) + Len(t)) :
             (s \o t)[i] = IF i <= Len(s) THEN s[i] ELSE t[i - Len(s)]
    BY <1>1, ConcatProperties
  <1> DEFINE u == s \o t
  <1>3. /\ Len(s) \in Nat /\ DOMAIN s = 1 .. Len(s)
        /\ Len(t) \in Nat /\ DOMAIN t = 1 .. Len(t)
        /\ DOMAIN u = 1 .. (Len(s) + Len(t))
    BY <1>1, <1>2
  <1>4. /\ \A i \in DOMAIN s : i \in DOMAIN u /\ u[i] = s[i]
        /\ \A i \in DOMAIN t : i + Len(s) \in DOMAIN u /\ u[i + Len(s)] = t[i]
    BY <1>2, <1>3
  <1>5. \A i \in DOMAIN u :
          \/ i \in DOMAIN s /\ u[i] = s[i]
          \/ i - Len(s) \in DOMAIN t /\ u[i] = t[i - Len(s)]
    BY <1>2, <1>3
  <1>6. IsSequence(u)
    BY <1>2 DEF IsSequence
  <1> HIDE DEF u
  <1>7. Range(u) = Range(s) \cup Range(t)
    <2>1. \A x \in Range(u) : x \in Range(s) \/ x \in Range(t)
      BY <1>5 DEF Range
    <2>2. (\A x \in Range(s) : x \in Range(u)) /\ \A x \in Range(t) : x \in Range(u)
      BY <1>4 DEF Range
    <2> QED
      BY <2>1, <2>2, Zenon
  <1> QED
    BY <1>2, <1>3, <1>6, <1>7 DEF u

\* A list of four.
LEMMA FourLong ==
    ASSUME NEW a, NEW b, NEW c, NEW d
    PROVE  /\ IsSequence(<<a, b, c, d>>) /\ Len(<<a, b, c, d>>) = 4
           /\ DOMAIN <<a, b, c, d>> = 1 .. 4
           /\ Range(<<a, b, c, d>>) = {a, b, c, d}
  <1> DEFINE s == <<a, b, c, d>>
  <1>1. s \in Seq({a, b, c, d}) /\ Len(s) = 4 /\ DOMAIN s = 1 .. 4
    OBVIOUS
  <1>2. s[1] = a /\ s[2] = b /\ s[3] = c /\ s[4] = d
    OBVIOUS
  <1> HIDE DEF s
  <1>3. Range(s) = {a, b, c, d}
    BY <1>1, <1>2 DEF Range
  <1>4. IsSequence(s)
    BY <1>1 DEF IsSequence
  <1> QED
    BY <1>1, <1>3, <1>4 DEF s

\* The stages.
LEMMA FourStages ==
    /\ Len(GAUNTLET_STAGES) = 4 /\ DOMAIN GAUNTLET_STAGES = 1 .. 4
    /\ GAUNTLET_STAGES[1] = "static" /\ GAUNTLET_STAGES[2] = "own_tests"
    /\ GAUNTLET_STAGES[3] = "llm_review" /\ GAUNTLET_STAGES[4] = "gate"
  BY DEF GAUNTLET_STAGES

(* Rows *)

\* A row has a receipt of each stage, of its cell.
FullRow(row, c) ==
    /\ IsSequence(row) /\ Len(row) = 4 /\ DOMAIN row = 1 .. 4
    /\ \A i \in 1 .. 4 : row[i].id = c.id /\ row[i].stage = GAUNTLET_STAGES[i]

\* All that a row measured is a part.
RowKnown(row, c, captures) ==
    \A r \in Range(row) : Measured(r) => r \in Parts(c, captures)

\* A row of a stage each, with a review that is an error or was captured.
LEMMA RowIsKnown ==
    ASSUME NEW c, NEW captures, NEW review, review.id = c.id, review.stage = "llm_review",
           Measured(review) => review \in ReviewsOf(c, captures)
    PROVE  FullRow(Row(c, review), c) /\ RowKnown(Row(c, review), c, captures)
  <1> DEFINE static == Receipt(c, "static", "pass",
                         [env_digest |-> Env, ruff_exit |-> 0, mypy_exit |-> 0])
             tests == Receipt(c, "own_tests", "pass",
                        [isolation |-> "hermetic", image_digest |-> Env, exit |-> 0,
                         status |-> "passed"])
             gate == GateReceipt(c)
             error == ReviewError(c)
  <1>1. Row(c, review) = <<static, tests, review, gate>>
        /\ Row(c, error) = <<static, tests, error, gate>>
    BY DEF Row
  <1>2. /\ static.id = c.id /\ static.stage = "static"
        /\ tests.id = c.id /\ tests.stage = "own_tests"
    BY DEF Receipt
  <1>3. gate.id = c.id /\ gate.stage = "gate"
    BY DEF GateReceipt, Receipt
  <1> HIDE DEF static, tests, gate, error
  <1>4. FullRow(Row(c, review), c)
    <2>1. FullRow(<<static, tests, review, gate>>, c)
      BY <1>2, <1>3, FourLong, FourStages DEF FullRow
    <2> QED
      BY <1>1, <2>1
  <1>5. {static, tests, gate} \subseteq Parts(c, captures)
    BY <1>1 DEF Parts, error
  <1>6. Range(Row(c, review)) = {static, tests, review, gate}
    BY <1>1, FourLong
  <1>7. RowKnown(Row(c, review), c, captures)
    BY <1>5, <1>6 DEF RowKnown, Parts
  <1> QED
    BY <1>4, <1>7

\* A row of errors measures nothing.
LEMMA ErrorRowIsKnown ==
    ASSUME NEW c, NEW captures
    PROVE  FullRow(ErrorRow(c), c) /\ RowKnown(ErrorRow(c), c, captures)
  <1> DEFINE e(i) == [Receipt(c, GAUNTLET_STAGES[i], "error", HarnessError)
                        EXCEPT !.digest = Unmeasurable]
  <1>1. \A i \in 1 .. 4 : /\ e(i).id = c.id /\ e(i).stage = GAUNTLET_STAGES[i]
                          /\ e(i).obs = HarnessError
    BY DEF Receipt
  <1>2. ErrorRow(c) = [i \in 1 .. 4 |-> e(i)]
    BY FourStages DEF ErrorRow
  <1> HIDE DEF e
  <1> DEFINE E == {e(i) : i \in 1 .. 4}
             row == ErrorRow(c)
  <1>3. row \in [1 .. 4 -> E] /\ \A i \in 1 .. 4 : row[i] = e(i)
    BY <1>2
  <1> HIDE DEF E, row
  <1>4. row \in Seq(E) /\ Len(row) = 4 /\ DOMAIN row = 1 .. 4
    BY <1>3
  <1>5. FullRow(row, c)
    BY <1>1, <1>3, <1>4 DEF FullRow, IsSequence
  <1>6. RowKnown(row, c, captures)
    BY <1>1, <1>3, <1>4 DEF RowKnown, Measured, Range
  <1> QED
    BY <1>5, <1>6 DEF row

\* More captures answer more reviews.
LEMMA PartsGrow ==
    ASSUME NEW c, NEW s, IsSequence(s), NEW e
    PROVE  Parts(c, s) \subseteq Parts(c, Append(s, e))
  <1>1. /\ DOMAIN s \subseteq DOMAIN Append(s, e)
        /\ \A i \in DOMAIN s : Append(s, e)[i] = s[i]
    <2>1. PICK S : s \in Seq(S)
      BY DEF IsSequence
    <2>2. s \in Seq(S \cup {e}) /\ e \in S \cup {e}
      BY <2>1
    <2> QED
      BY <2>2, AppendProperties
  <1>2. ReviewsOf(c, s) \subseteq ReviewsOf(c, Append(s, e))
    BY <1>1 DEF ReviewsOf
  <1> QED
    BY <1>2 DEF Parts

\* Captures of one more request that was sent.
LEMMA SentGrows ==
    ASSUME NEW s, Sent(s), NEW e, e.request # NoWire
    PROVE  /\ Sent(Append(s, e))
           /\ Len(Append(s, e)) \in DOMAIN Append(s, e)
           /\ Append(s, e)[Len(Append(s, e))] = e
  <1> DEFINE t == Append(s, e)
  <1>1. PICK S : s \in Seq(S)
    BY DEF Sent, IsSequence
  <1>2. s \in Seq(S \cup {e}) /\ e \in S \cup {e}
    BY <1>1
  <1>3. /\ t \in Seq(S \cup {e}) /\ Len(t) = Len(s) + 1 /\ t[Len(s) + 1] = e
        /\ DOMAIN t = 1 .. (Len(s) + 1) /\ Len(s) \in Nat
        /\ \A i \in 1 .. Len(s) : t[i] = s[i] /\ i \in DOMAIN s
    BY <1>2, AppendProperties
  <1> HIDE DEF t
  <1>4. \A i \in DOMAIN t : t[i].request # NoWire
    BY <1>3 DEF Sent
  <1>5. Sent(t) /\ Len(t) \in DOMAIN t /\ t[Len(t)] = e
    BY <1>3, <1>4 DEF IsSequence, Sent
  <1> QED
    BY <1>5 DEF t

(* Steps *)

\* How many cells there are.
LEMMA CellCount == Len(Cells) \in Nat /\ Len(Cells) > 0 /\ DOMAIN Cells = 1 .. Len(Cells)
  BY MintAssumption

\* The parts of a row are read from the setup, which stays.
LEMMA PartsStay ==
    ASSUME setup' = setup
    PROVE  \A c, captures : Parts(c, captures)' = Parts(c, captures)
  BY DEF Parts, Row, ReviewError, Receipt, GateReceipt, SourceOf, ReviewsOf, ReviewOf,
         build_request

\* What is known stays known.
LEMMA KnownStays ==
    ASSUME setup' = setup, minted' = minted, corpus' = corpus, Known(minted, corpus)
    PROVE  Known(minted, corpus)'
  <1>1. \A k \in DOMAIN Cells : Parts(Cells[k], corpus)' = Parts(Cells[k], corpus)
    BY PartsStay
  <1> QED
    BY <1>1 DEF Known, Normal, Measured

\* A step that leaves the receipts and the captures alone.
LEMMA QuietKeeps ==
    ASSUME ReviewInv, MintedInv,
           UNCHANGED <<setup, phase, keyMatches, receipts, sink, corpus, minted>>
    PROVE  /\ ReviewInv' /\ MintedInv'
           /\ Admissible' <=> Admissible
           /\ CaptureConsistent' <=> CaptureConsistent
  <1>1. CaptureRecords' = CaptureRecords
    BY DEF CaptureRecords
  <1>2. \A k \in DOMAIN Cells :
          Parts(Cells[k], CaptureRecords)' = Parts(Cells[k], CaptureRecords)
    BY <1>1, PartsStay
  <1>3. ReviewInv'
    BY <1>2 DEF ReviewInv, Measured
  <1>4. MintedInv'
    BY KnownStays DEF MintedInv, Filled, Sent, IsSequence
  <1>5. Admissible' <=> Admissible
    BY DEF Admissible
  <1>6. CaptureConsistent' <=> CaptureConsistent
    BY <1>1 DEF CaptureConsistent, Reviews
  <1> QED
    BY <1>3, <1>4, <1>5, <1>6

\* So it does when only the position changes.
LEMMA MoveKeeps ==
    ASSUME IInv, UNCHANGED <<step, rehearsal, commitment>>,
           UNCHANGED <<setup, phase, keyMatches, receipts, sink, corpus, minted>>,
           step \in {"render", "replay"},
           \/ pc = "label" /\ pc' = "cells" /\ written' = written
           \/ pc' = "raised" /\ written' = written
           \/ pc = "admit" /\ pc' = "bundle" /\ Admissible /\ written' = written
           \/ pc = "bundle" /\ pc' = "emit" /\ CaptureConsistent /\ written' = written
           \/ pc = "emit" /\ pc' \in {"emit", "done", "raised"} /\ written' = written + 1
    PROVE  IInv'
  <1> USE DEF IInv
  <1>1. /\ ReviewInv' /\ MintedInv'
        /\ Admissible' <=> Admissible
        /\ CaptureConsistent' <=> CaptureConsistent
    BY QuietKeeps
  <1>2. RowsInv'
    <2>1. PICK n \in Nat : /\ Len(receipts) = 4 * n
                           /\ Filled(Range(receipts), n)
                           /\ pc = "label" => n = 0
                           /\ pc = "cells" => n < Len(Cells)
                           /\ pc \in {"admit", "bundle", "emit", "done"} => n = Len(Cells)
      BY DEF RowsInv
    <2>2. /\ pc' = "label" => n = 0
          /\ pc' = "cells" => n < Len(Cells)
          /\ pc' \in {"admit", "bundle", "emit", "done"} => n = Len(Cells)
      BY <2>1, CellCount
    <2> QED
      BY <2>1, <2>2 DEF RowsInv
  <1>3. WrittenInv'
    BY <1>1 DEF WrittenInv
  <1>4. StepInv'
    BY DEF StepInv, RehearsalAdmits, Disjoint
  <1> QED
    BY <1>1, <1>2, <1>3, <1>4

\* A filled cell.
LEMMA FillKeeps ==
    ASSUME IInv, UNCHANGED <<step, rehearsal, commitment>>, step \in {"render", "replay"},
           pc = "cells", NEW row, Fill(row), FullRow(row, NextCell),
           Sent(sink'), RowKnown(row, NextCell, CaptureRecords'),
           \A c : Parts(c, CaptureRecords) \subseteq Parts(c, CaptureRecords')
    PROVE  IInv'
  <1> USE DEF IInv
  <1>1. /\ receipts' = receipts \o row
        /\ pc' = IF Len(receipts') = 4 * Len(Cells) THEN "admit" ELSE "cells"
        /\ UNCHANGED <<setup, phase, keyMatches, corpus, minted, written>>
    BY FourStages DEF Fill
  <1>2. PICK n \in Nat : /\ Len(receipts) = 4 * n /\ n < Len(Cells)
                         /\ Filled(Range(receipts), n)
    BY DEF RowsInv
  <1>3. NextCell = Cells[n + 1] /\ n + 1 \in DOMAIN Cells
    <2>1. (4 * n) \div 4 = n
      OBVIOUS
    <2> QED
      BY <1>2, <2>1, FourStages, CellCount DEF NextCell
  <1>4. /\ IsSequence(receipts') /\ Len(receipts') = 4 * (n + 1)
        /\ Range(receipts') = Range(receipts) \cup Range(row)
    <2>1. IsSequence(receipts) /\ IsSequence(row) /\ Len(row) = 4
      BY DEF RowsInv, FullRow
    <2>2. /\ IsSequence(receipts \o row) /\ Len(receipts \o row) = Len(receipts) + Len(row)
          /\ Range(receipts \o row) = Range(receipts) \cup Range(row)
      BY <2>1, Concat, Zenon
    <2> QED
      BY <1>1, <1>2, <2>1, <2>2
  <1>5. Filled(Range(receipts'), n + 1)
    <2> SUFFICES ASSUME NEW k \in 1 .. (n + 1), NEW i \in 1 .. 4
                 PROVE  \E x \in Range(receipts') :
                          x.id = Cells[k].id /\ x.stage = GAUNTLET_STAGES[i]
      BY DEF Filled
    <2>1. CASE k \in 1 .. n
      BY <1>2, <1>4, <2>1 DEF Filled
    <2>2. CASE k = n + 1
      <3>1. row[i] \in Range(row) /\ row[i].id = Cells[k].id
            /\ row[i].stage = GAUNTLET_STAGES[i]
        BY <1>3, <2>2 DEF FullRow, Range
      <3> QED
        BY <1>4, <3>1
    <2> QED
      BY <2>1, <2>2
  <1>6. RowsInv'
    <2>1. /\ pc' = "cells" => n + 1 < Len(Cells)
          /\ pc' = "admit" => n + 1 = Len(Cells)
          /\ pc' \in {"cells", "admit"}
      <3> DEFINE N == Len(Cells)
                 l == Len(receipts')
      <3>1. N \in Nat /\ n < N /\ l = 4 * (n + 1)
        BY <1>2, <1>4, CellCount
      <3>2. pc' = IF l = 4 * N THEN "admit" ELSE "cells"
        BY <1>1
      <3> HIDE DEF N, l
      <3>3. /\ pc' = "cells" => n + 1 < N
            /\ pc' = "admit" => n + 1 = N
            /\ pc' \in {"cells", "admit"}
        BY <3>1, <3>2
      <3> QED
        BY <3>3 DEF N
    <2>2. n + 1 \in Nat
      OBVIOUS
    <2> QED
      BY <1>4, <2>1, <2>2, <1>5 DEF RowsInv
  <1>7. ReviewInv'
    <2>1. \A c : Parts(c, CaptureRecords)' = Parts(c, CaptureRecords')
      BY <1>1, PartsStay
    <2>2. ASSUME NEW r \in Range(receipts'), Measured(r)
          PROVE  \E k \in DOMAIN Cells : r \in Parts(Cells[k], CaptureRecords')
      <3>1. CASE r \in Range(receipts)
        BY <2>2, <3>1 DEF ReviewInv
      <3>2. CASE r \in Range(row)
        BY <1>3, <2>2, <3>2 DEF RowKnown
      <3> QED
        BY <1>4, <3>1, <3>2
    <2> QED
      BY <1>1, <2>1, <2>2 DEF ReviewInv, Measured
  <1>8. MintedInv'
    BY <1>1, KnownStays DEF MintedInv, Filled, Sent, IsSequence
  <1>9. WrittenInv'
    BY <1>1 DEF WrittenInv
  <1>10. StepInv'
    BY <1>1 DEF StepInv, RehearsalAdmits, Disjoint
  <1> QED
    BY <1>6, <1>7, <1>8, <1>9, <1>10

\* A live review adds to the captures, if anything.
LEMMA LiveCellKeeps ==
    ASSUME IInv, UNCHANGED <<step, rehearsal, commitment>>, step \in {"render", "replay"},
           LiveCell
    PROVE  IInv'
  <1> DEFINE c == NextCell
             request == build_request(SourceOf(c))
  <1>1. /\ pc = "cells" /\ phase = "live" /\ Sent(sink) /\ IsSequence(sink)
        /\ CaptureRecords = sink
    BY DEF LiveCell, IInv, ReviewInv, CaptureRecords, Sent
  <1>2. CASE /\ Fill(Row(c, ReviewError(c))) \/ Fill(ErrorRow(c))
             /\ sink' = sink
    <2>1. CaptureRecords' = sink /\ Sent(sink')
      BY <1>1, <1>2 DEF CaptureRecords, Fill
    <2>2. PICK row : /\ Fill(row) /\ FullRow(row, c)
                     /\ RowKnown(row, c, sink)
      <3>1. ReviewError(c).id = c.id /\ ReviewError(c).stage = "llm_review"
            /\ ~Measured(ReviewError(c))
        BY DEF ReviewError, Receipt, Measured
      <3>2. /\ FullRow(Row(c, ReviewError(c)), c)
            /\ RowKnown(Row(c, ReviewError(c)), c, sink)
        BY <3>1, RowIsKnown, Zenon
      <3>3. FullRow(ErrorRow(c), c) /\ RowKnown(ErrorRow(c), c, sink)
        BY ErrorRowIsKnown, Zenon
      <3> QED
        BY <1>2, <3>2, <3>3
    <2> QED
      BY <1>1, <2>1, <2>2, FillKeeps
  <1>3. CASE /\ request # NoWire
             /\ \E response \in Answers :
                  /\ Fill(Row(c, ReviewOf(c, response))) \/ Fill(ErrorRow(c))
                  /\ sink' = Captured(request, response)
    <2>1. PICK response : /\ Fill(Row(c, ReviewOf(c, response))) \/ Fill(ErrorRow(c))
                          /\ sink' = Captured(request, response)
      BY <1>3
    <2> DEFINE e == [request |-> request, response |-> response]
               s == Append(sink, e)
    <2>2. sink' = s
      BY <2>1 DEF Captured
    <2>3. Sent(s) /\ Len(s) \in DOMAIN s /\ s[Len(s)] = e
      BY <1>1, <1>3, SentGrows
    <2>4. \A d : Parts(d, sink) \subseteq Parts(d, s)
      BY <1>1, PartsGrow
    <2>5. e.request = request /\ e.response = response
      OBVIOUS
    <2> HIDE DEF s, e
    <2>6. ReviewOf(c, response) \in ReviewsOf(c, s)
      BY <1>3, <2>3, <2>5 DEF ReviewsOf
    <2>7. ReviewOf(c, response).id = c.id /\ ReviewOf(c, response).stage = "llm_review"
      BY DEF ReviewOf, Receipt
    <2>8. /\ FullRow(Row(c, ReviewOf(c, response)), c)
          /\ RowKnown(Row(c, ReviewOf(c, response)), c, s)
      BY <2>6, <2>7, RowIsKnown, Zenon
    <2>9. FullRow(ErrorRow(c), c) /\ RowKnown(ErrorRow(c), c, s)
      BY ErrorRowIsKnown, Zenon
    <2>10. PICK row : Fill(row) /\ FullRow(row, c) /\ RowKnown(row, c, s)
      BY <2>1, <2>8, <2>9
    <2>11. CaptureRecords' = s
      BY <1>1, <2>2, <2>10 DEF CaptureRecords, Fill
    <2> QED
      BY <1>1, <2>2, <2>3, <2>4, <2>10, <2>11, FillKeeps
  <1> QED
    BY <1>2, <1>3 DEF LiveCell

\* A replayed review is one of the captures.
LEMMA RecordedCellKeeps ==
    ASSUME IInv, UNCHANGED <<step, rehearsal, commitment>>, step \in {"render", "replay"},
           RecordedCell
    PROVE  IInv'
  <1> DEFINE c == NextCell
             found == Replayed(build_request(SourceOf(c)))
  <1>1. /\ pc = "cells" /\ phase = "recorded" /\ Sent(sink) /\ sink' = sink
        /\ CaptureRecords = corpus /\ Sent(corpus)
    BY DEF RecordedCell, IInv, ReviewInv, MintedInv, CaptureRecords
  <1>2. \/ \E i \in found : Fill(Row(c, ReviewOf(c, corpus[i].response)))
        \/ Fill(Row(c, ReviewError(c)))
        \/ Fill(ErrorRow(c))
    BY DEF RecordedCell
  <1>3. ReviewError(c).id = c.id /\ ReviewError(c).stage = "llm_review"
        /\ ~Measured(ReviewError(c))
    BY DEF ReviewError, Receipt, Measured
  <1>4. /\ FullRow(Row(c, ReviewError(c)), c)
        /\ RowKnown(Row(c, ReviewError(c)), c, corpus)
    BY <1>3, RowIsKnown, Zenon
  <1>5. FullRow(ErrorRow(c), c) /\ RowKnown(ErrorRow(c), c, corpus)
    BY ErrorRowIsKnown, Zenon
  <1>6. ASSUME NEW i \in found
        PROVE  /\ FullRow(Row(c, ReviewOf(c, corpus[i].response)), c)
               /\ RowKnown(Row(c, ReviewOf(c, corpus[i].response)), c, corpus)
    <2>1. /\ i \in DOMAIN corpus /\ corpus[i].request = build_request(SourceOf(c))
          /\ corpus[i].request # NoWire
      BY <1>1 DEF Replayed, Sent
    <2>2. ReviewOf(c, corpus[i].response) \in ReviewsOf(c, corpus)
      BY <2>1 DEF ReviewsOf
    <2>3. /\ ReviewOf(c, corpus[i].response).id = c.id
          /\ ReviewOf(c, corpus[i].response).stage = "llm_review"
      BY DEF ReviewOf, Receipt
    <2> QED
      BY <2>2, <2>3, RowIsKnown, Zenon
  <1>7. PICK row : Fill(row) /\ FullRow(row, c) /\ RowKnown(row, c, corpus)
    BY <1>2, <1>4, <1>5, <1>6
  <1>8. CaptureRecords' = corpus
    BY <1>1, <1>7 DEF CaptureRecords, Fill
  <1> QED
    BY <1>1, <1>7, <1>8, FillKeeps

\* Each step of a render.
LEMMA RenderKeeps ==
    ASSUME IInv, Render, UNCHANGED <<step, rehearsal, commitment>>,
           step \in {"render", "replay"}
    PROVE  IInv'
  <1>1. CASE Raise
    BY <1>1, MoveKeeps DEF Raise
  <1>2. CASE pc = "label" /\ Goto("cells")
    BY <1>2, MoveKeeps DEF Goto
  <1>3. CASE pc = "admit" /\ Admissible /\ Goto("bundle")
    BY <1>3, MoveKeeps DEF Goto
  <1>4. CASE pc = "bundle" /\ CaptureConsistent /\ Goto("emit")
    BY <1>4, MoveKeeps DEF Goto
  <1>5. CASE Emit
    <2>1. /\ pc = "emit" /\ pc' \in {"emit", "done"} /\ written' = written + 1
          /\ UNCHANGED <<setup, phase, keyMatches, receipts, sink, corpus, minted>>
      BY <1>5 DEF Emit
    <2> QED
      BY <2>1, MoveKeeps
  <1>6. CASE LiveCell
    BY <1>6, LiveCellKeeps
  <1>7. CASE RecordedCell
    BY <1>7, RecordedCellKeeps
  <1>8. CASE EmitFails
    <2>1. /\ pc = "emit" /\ pc' = "raised"
          /\ written' = written \/ written' = written + 1
          /\ UNCHANGED <<setup, phase, keyMatches, receipts, sink, corpus, minted>>
      BY <1>8 DEF EmitFails
    <2> QED
      BY <2>1, MoveKeeps
  <1> QED
    BY <1>1, <1>2, <1>3, <1>4, <1>5, <1>6, <1>7, <1>8
    DEF Render, Check, PublishingFails, Admit, Bundle

\* What the board in the making shows is known, and in the end complete.
LEMMA NormalizedKnown ==
    ASSUME ReviewInv
    PROVE  Known(Normalized, CaptureRecords)
  <1> SUFFICES ASSUME NEW x \in Normalized, Measured(x)
               PROVE  \E k \in DOMAIN Cells :
                        \E r \in Parts(Cells[k], CaptureRecords) : x = Normal(r)
    BY DEF Known
  <1>1. PICK r \in Range(receipts) : x = Normal(r)
    BY DEF Normalized, Normal
  <1>2. Measured(r)
    BY <1>1 DEF Measured, Normal
  <1> QED
    BY <1>1, <1>2 DEF ReviewInv

LEMMA NormalizedFilled ==
    ASSUME RowsInv, pc = "done"
    PROVE  Filled(Normalized, Len(Cells))
  <1>1. Filled(Range(receipts), Len(Cells))
    BY DEF RowsInv
  <1>2. ASSUME NEW r \in Range(receipts)
        PROVE  \E x \in Normalized : x.id = r.id /\ x.stage = r.stage
    <2>1. Normal(r) \in Normalized
      BY DEF Normalized, Normal
    <2>2. Normal(r).id = r.id /\ Normal(r).stage = r.stage
      BY DEF Normal
    <2> QED
      BY <2>1, <2>2
  <1>3. ASSUME NEW k \in 1 .. Len(Cells), NEW i \in 1 .. 4
        PROVE  \E x \in Normalized : x.id = Cells[k].id /\ x.stage = GAUNTLET_STAGES[i]
    <2>1. PICK r \in Range(receipts) : r.id = Cells[k].id /\ r.stage = GAUNTLET_STAGES[i]
      BY <1>1 DEF Filled
    <2> QED
      BY <1>2, <2>1
  <1> QED
    BY <1>3 DEF Filled

\* The replay begins with a board that is whole.
LEMMA ReplayKeeps ==
    ASSUME IInv, StartReplay
    PROVE  IInv'
  <1> USE DEF IInv
  <1>1. /\ pc = "done" /\ phase = "live" /\ step \in {"minted", "unrecorded"}
        /\ step' = "replay" /\ rehearsal' = rehearsal
        /\ phase' = "recorded" /\ pc' = "label" /\ corpus' = sink /\ minted' = Normalized
        /\ receipts' = << >> /\ written' = 0 /\ setup' = setup /\ sink' = sink
    BY DEF StartReplay, Replay
  <1>2. Range(<< >>) = {} /\ IsSequence(<< >>) /\ Len(<< >>) = 4 * 0
    <2>1. << >> \in Seq({}) /\ DOMAIN << >> = {} /\ Len(<< >>) = 0
      OBVIOUS
    <2> QED
      BY <2>1 DEF IsSequence, Range
  <1>3. RowsInv'
    <2>1. Filled({}, 0)
      BY DEF Filled
    <2> QED
      BY <1>1, <1>2, <2>1 DEF RowsInv
  <1>4. ReviewInv'
    BY <1>1, <1>2 DEF ReviewInv
  <1>5. Known(minted', sink)
    BY <1>1, NormalizedKnown DEF CaptureRecords
  <1>6. Known(minted, corpus)'
    <2>1. \A k \in DOMAIN Cells : Parts(Cells[k], corpus)' = Parts(Cells[k], sink)
      BY <1>1, PartsStay
    <2> QED
      BY <1>1, <1>5, <2>1 DEF Known, Normal, Measured
  <1>7. Filled(minted', Len(Cells))
    BY <1>1, NormalizedFilled
  <1>8. MintedInv'
    BY <1>1, <1>6, <1>7 DEF MintedInv, ReviewInv, Sent, IsSequence
  <1>9. WrittenInv'
    BY <1>1 DEF WrittenInv
  <1>10. StepInv'
    BY <1>1 DEF StepInv, RehearsalAdmits, Disjoint
  <1> QED
    BY <1>3, <1>4, <1>8, <1>9, <1>10

\* Before the render there is nothing but, perhaps, a capture of the rehearsal.
LEMMA BeforeKeeps ==
    ASSUME IInv, Rehearse \/ Skip \/ Commit \/ Gate
    PROVE  IInv'
  <1> USE DEF IInv
  <1>1. /\ step \in {"rehearse", "commit", "gate"}
        /\ step' \in {"commit", "gate", "refused", "render"}
    BY DEF Rehearse, Skip, Commit, Gate
  <1>2. UNCHANGED <<setup, phase, pc, keyMatches, receipts, corpus, minted, written>>
    BY DEF Rehearse, Skip, Commit, Gate, vars, board_vars
  <1>3. pc = "label" /\ phase = "live" /\ written = 0 /\ receipts = << >>
    BY <1>1 DEF StepInv
  <1>4. Sent(sink')
    <2>1. CASE UNCHANGED sink
      BY <2>1 DEF ReviewInv
    <2>2. CASE Rehearse /\ ~UNCHANGED sink
      <3>1. PICK request, response :
              request # NoWire /\ sink' = Captured(request, response)
        BY <2>2 DEF Rehearse
      <3> DEFINE e == [request |-> request, response |-> response]
      <3>2. e.request # NoWire /\ sink' = Append(sink, e)
        BY <3>1 DEF Captured
      <3> HIDE DEF e
      <3> QED
        BY <3>2, SentGrows DEF ReviewInv
    <2>3. CASE ~Rehearse
      BY <2>1, <2>3 DEF Skip, Commit, Gate, vars, board_vars
    <2> QED
      BY <2>1, <2>2, <2>3
  <1>5. RowsInv'
    BY <1>2 DEF RowsInv
  <1>6. ReviewInv'
    <2>1. Range(receipts') = {}
      BY <1>2, <1>3 DEF Range
    <2> QED
      BY <1>2, <1>4, <2>1 DEF ReviewInv
  <1>7. MintedInv'
    BY <1>2, <1>3 DEF MintedInv
  <1>8. WrittenInv'
    BY <1>2, <1>3 DEF WrittenInv
  <1>9. StepInv'
    <2>1. step' = "render" => RehearsalAdmits' /\ Disjoint'
      <3>1. step' = "render" =>
              RehearsalAdmits /\ Disjoint /\ rehearsal' = rehearsal /\ setup' = setup
        BY <1>2 DEF Rehearse, Skip, Commit, Gate
      <3> QED
        BY <3>1 DEF RehearsalAdmits, Disjoint
    <2> QED
      BY <1>1, <1>2, <1>3, <2>1 DEF StepInv
  <1> QED
    BY <1>5, <1>6, <1>7, <1>8, <1>9

\* The record of the rehearsal comes after the board.
LEMMA WriteRehearsalKeeps ==
    ASSUME IInv, WriteRehearsal \/ UNCHANGED mint_vars
    PROVE  IInv'
  <1> USE DEF IInv
  <1>1. UNCHANGED <<setup, phase, pc, keyMatches, receipts, sink, corpus, minted, written,
                    rehearsal>>
    BY DEF WriteRehearsal, mint_vars, vars, board_vars
  <1>2. step' = step \/ (step = "render" /\ step' \in {"minted", "unrecorded"})
    BY DEF WriteRehearsal, mint_vars
  <1>3. /\ ReviewInv' /\ MintedInv'
        /\ Admissible' <=> Admissible
        /\ CaptureConsistent' <=> CaptureConsistent
    BY <1>1, QuietKeeps
  <1>4. RowsInv'
    BY <1>1 DEF RowsInv
  <1>5. WrittenInv'
    BY <1>1, <1>3 DEF WrittenInv
  <1>6. StepInv'
    BY <1>1, <1>2 DEF StepInv, RehearsalAdmits, Disjoint
  <1> QED
    BY <1>3, <1>4, <1>5, <1>6

\* At the start nothing is there.
LEMMA InitIInv == MintInit => IInv
  <1> SUFFICES ASSUME MintInit PROVE IInv
    OBVIOUS
  <1>1. /\ setup \in Setups /\ phase = "live" /\ pc = "label" /\ receipts = << >>
        /\ sink = << >> /\ written = 0 /\ step = "rehearse"
    BY DEF MintInit, Init
  <1>2. /\ IsSequence(<< >>) /\ Len(<< >>) = 4 * 0 /\ Range(<< >>) = {} /\ DOMAIN << >> = {}
    <2>1. << >> \in Seq({}) /\ DOMAIN << >> = {} /\ Len(<< >>) = 0
      OBVIOUS
    <2> QED
      BY <2>1 DEF IsSequence, Range
  <1>3. RowsInv
    <2>1. Filled({}, 0)
      BY DEF Filled
    <2> QED
      BY <1>1, <1>2, <2>1 DEF RowsInv
  <1>4. ReviewInv
    BY <1>1, <1>2 DEF ReviewInv, Sent
  <1>5. MintedInv /\ WrittenInv /\ StepInv
    BY <1>1 DEF MintedInv, WrittenInv, StepInv
  <1> QED
    BY <1>3, <1>4, <1>5 DEF IInv

\* Every step keeps the invariant.
LEMMA NextIInv == IInv /\ [MintNext]_mint_vars => IInv'
  <1> SUFFICES ASSUME IInv, [MintNext]_mint_vars PROVE IInv'
    OBVIOUS
  <1>1. CASE Rehearse \/ Skip \/ Commit \/ Gate
    BY <1>1, BeforeKeeps
  <1>2. CASE RenderStep
    BY <1>2, RenderKeeps DEF RenderStep
  <1>3. CASE WriteRehearsal \/ UNCHANGED mint_vars
    BY <1>3, WriteRehearsalKeeps
  <1>4. CASE StartReplay
    BY <1>4, ReplayKeeps
  <1> QED
    BY <1>1, <1>2, <1>3, <1>4 DEF MintNext, MintDone

\* It holds throughout.
THEOREM Inductive == MintSpec => []IInv
  BY InitIInv, NextIInv, PTL DEF MintSpec

(* What it says *)

\* The review among a cell's parts is one that a capture answers.
LEMMA ReviewPart ==
    ASSUME NEW c, NEW captures, NEW r \in Parts(c, captures), r.stage = "llm_review"
    PROVE  r \in ReviewsOf(c, captures)
  <1>1. ReviewError(c).id = c.id /\ ReviewError(c).stage = "llm_review"
        /\ ~Measured(ReviewError(c))
    BY DEF ReviewError, Receipt, Measured
  <1>2. FullRow(Row(c, ReviewError(c)), c)
    BY <1>1, RowIsKnown, Zenon
  <1> QED
    BY <1>2, FourStages DEF Parts, FullRow

\* A measured review on the board was sent, answered and captured.
LEMMA ReviewIsCaptured ==
    ASSUME IInv, NEW r \in Reviews
    PROVE  \E k \in DOMAIN Cells, i \in DOMAIN CaptureRecords :
             /\ CaptureRecords[i].request = build_request(SourceOf(Cells[k]))
             /\ CaptureRecords[i].request # NoWire
             /\ r = ReviewOf(Cells[k], CaptureRecords[i].response)
  <1>1. r \in Range(receipts) /\ r.stage = "llm_review" /\ Measured(r)
    BY DEF Reviews
  <1>2. PICK k \in DOMAIN Cells : r \in Parts(Cells[k], CaptureRecords)
    BY <1>1 DEF IInv, ReviewInv
  <1>3. r \in ReviewsOf(Cells[k], CaptureRecords)
    BY <1>1, <1>2, ReviewPart
  <1> QED
    BY <1>3 DEF ReviewsOf

\* A wire shows its source: two sources are not asked about in one request.
LEMMA WireShows ==
    ASSUME NEW b, NEW d, {b.kind, d.kind} \subseteq {"messages", "reviewable"},
           NEW s, NEW t, s # t, NEW p, Wire(b, s, p) # NoWire
    PROVE  Wire(b, s, p) # Wire(d, t, p)
  <1> DEFINE Shows(w, x) ==
                 \/ Len(w.blocks) = 2 /\ w.blocks[2] = x
                 \/ Len(w.blocks) # 2 /\ SourceShown(w) = x
  <1>1. ASSUME NEW e, e.kind \in {"messages", "reviewable"}, NEW x, Wire(e, x, p) # NoWire
        PROVE  Shows(Wire(e, x, p), x)
    <2>1. CASE e.kind = "messages"
      <3>1. Wire(e, x, p) = MessagesWire(e, x)
        BY <1>1, <2>1 DEF Wire
      <3> QED
        BY <3>1 DEF MessagesWire, Body
    <2>2. CASE e.kind = "reviewable"
      <3>1. Wire(e, x, p) = ReviewableWire(e, x) /\ ReviewableWire(e, x) # NoWire
        BY <1>1, <2>2 DEF Wire
      <3>2. SelfParses(ReviewableWire(e, x), e, x)
        BY <3>1 DEF ReviewableWire
      <3> DEFINE w == ReviewableWire(e, x)
                 l == Len(w.blocks)
      <3>3. l >= 3 /\ SourceShown(w) = x
        BY <3>2 DEF SelfParses, Parses
      <3> HIDE DEF w, l
      <3>4. l # 2
        <4> SUFFICES ASSUME l = 2 PROVE 2 >= 3
          OBVIOUS
        <4> QED
          BY <3>3
      <3> QED
        BY <3>1, <3>3, <3>4 DEF w, l
    <2> QED
      BY <1>1, <2>1, <2>2
  <1> HIDE DEF Shows
  <1>2. ASSUME NEW w, Shows(w, s), Shows(w, t) PROVE FALSE
    BY <1>2, Zenon DEF Shows
  <1> SUFFICES ASSUME Wire(b, s, p) = Wire(d, t, p) PROVE FALSE
    OBVIOUS
  <1>3. Shows(Wire(b, s, p), s)
    BY <1>1
  <1>4. Wire(d, t, p) # NoWire /\ d.kind \in {"messages", "reviewable"}
    OBVIOUS
  <1>5. Shows(Wire(d, t, p), t)
    BY <1>1, <1>4
  <1> QED
    BY <1>2, <1>3, <1>5

\* Nothing is written that is not licensed: a rehearsal that engaged, of a request that no
\* review shown made if the caller declared its sources as they are, and a board admitted
\* under the key it will be read with.
THEOREM LicensedOnDisk == MintSpec => []OnlyLicensedOnDisk
  <1>1. IInv => OnlyLicensedOnDisk
    <2> SUFFICES ASSUME IInv PROVE OnlyLicensedOnDisk
      OBVIOUS
    <2>1. OnlyAdmissibleOnDisk
      BY DEF IInv, WrittenInv, OnlyAdmissibleOnDisk, Admissible
    <2>2. written > 0 => RehearsalAdmits /\ Disjoint
      BY DEF IInv, WrittenInv, StepInv
    <2>3. ASSUME written > 0, DeclaredAsIs, NEW r \in Reviews
          PROVE  r.obs.request # Wire(setup.committed, setup.throwaway, review_prompt_hash)
      <3>1. PICK k \in DOMAIN Cells, i \in DOMAIN CaptureRecords :
              /\ CaptureRecords[i].request = build_request(SourceOf(Cells[k]))
              /\ CaptureRecords[i].request # NoWire
              /\ r = ReviewOf(Cells[k], CaptureRecords[i].response)
        BY ReviewIsCaptured
      <3> DEFINE source == setup.artifact[Cells[k].task]
      <3>2. r.obs.request = Wire(setup.builder, source, review_prompt_hash)
        BY <3>1 DEF ReviewOf, Receipt, build_request, SourceOf
      <3>3. Wire(setup.builder, source, review_prompt_hash) # NoWire
        BY <3>1 DEF build_request, SourceOf
      <3>4. source # setup.throwaway
        <4>1. Cells[k].task \in DOMAIN setup.artifact
          BY MintAssumption DEF IInv, ReviewInv
        <4>2. source \in setup.demonstration_digests
          BY <2>3, <4>1 DEF DeclaredAsIs
        <4>3. setup.throwaway \notin setup.demonstration_digests
          BY <2>2, <2>3 DEF Disjoint, DeclaredAsIs
        <4> QED
          BY <4>2, <4>3
      <3>5. {setup.builder.kind, setup.committed.kind} \subseteq {"messages", "reviewable"}
        BY MintAssumption DEF IInv, ReviewInv
      <3> HIDE DEF source
      <3> QED
        BY <3>2, <3>3, <3>4, <3>5, WireShows
    <2> QED
      BY <2>1, <2>2, <2>3 DEF OnlyLicensedOnDisk, RehearsalAdmits
  <1> QED
    BY <1>1, Inductive, PTL

\* Every measured review of a finished live board is bundled with its very response.
THEOREM ReviewsCaptured == MintSpec => []EveryReviewCaptured
  <1>1. IInv => EveryReviewCaptured
    <2> SUFFICES ASSUME IInv, NEW r \in Reviews
                 PROVE  \E i \in DOMAIN CaptureRecords :
                          /\ CaptureRecords[i].request = r.obs.request
                          /\ CaptureRecords[i].response = r.obs.response
      BY DEF EveryReviewCaptured
    <2>1. PICK k \in DOMAIN Cells, i \in DOMAIN CaptureRecords :
            /\ CaptureRecords[i].request = build_request(SourceOf(Cells[k]))
            /\ r = ReviewOf(Cells[k], CaptureRecords[i].response)
      BY ReviewIsCaptured
    <2>2. /\ r.obs.request = build_request(SourceOf(Cells[k]))
          /\ r.obs.response = CaptureRecords[i].response
      BY <2>1 DEF ReviewOf, Receipt
    <2> QED
      BY <2>1, <2>2
  <1> QED
    BY <1>1, Inductive, PTL

\* No two planned cells of a signed manifest have one identity.
LEMMA CellsDiffer ==
    ASSUME ValidManifest(Manifest), NEW k \in DOMAIN Cells, NEW l \in DOMAIN Cells,
           Cells[k].id = Cells[l].id
    PROVE  k = l
  BY DEF ValidManifest, UniqueCells, CellIndexes, Cells

\* When equal requests have equal answers, a board whose cells are all there, all measured,
\* shows what any board that measured from the same captures shows.
LEMMA OneBoard ==
    ASSUME ValidManifest(Manifest),
           NEW M, NEW N, NEW captures, Known(M, captures), Known(N, captures),
           Filled(N, Len(Cells)), \A x \in M \cup N : Measured(x),
           \A i, j \in DOMAIN captures :
               captures[i].request = captures[j].request => captures[i] = captures[j]
    PROVE  M \subseteq N
  <1> SUFFICES ASSUME NEW x \in M PROVE x \in N
    OBVIOUS
  <1>1. PICK k \in DOMAIN Cells : \E r \in Parts(Cells[k], captures) : x = Normal(r)
    BY DEF Known
  <1>2. PICK r \in Parts(Cells[k], captures) : x = Normal(r)
    BY <1>1
  <1>3. \A c : FullRow(Row(c, ReviewError(c)), c)
    <2> TAKE c
    <2>1. ReviewError(c).id = c.id /\ ReviewError(c).stage = "llm_review"
          /\ ~Measured(ReviewError(c))
      BY DEF ReviewError, Receipt, Measured
    <2> QED
      BY <2>1, RowIsKnown, Zenon
  <1>4. \A c, s : ReviewOf(c, s).id = c.id /\ ReviewOf(c, s).stage = "llm_review"
    BY DEF ReviewOf, Receipt
  <1>5. ASSUME NEW c, NEW q \in Parts(c, captures), NEW i \in 1 .. 4,
               q.stage = GAUNTLET_STAGES[i]
        PROVE  /\ q.id = c.id
               /\ i # 3 => q = Row(c, ReviewError(c))[i]
               /\ i = 3 => q \in ReviewsOf(c, captures)
    <2>1. CASE q \in ReviewsOf(c, captures)
      BY <1>4, <1>5, <2>1, FourStages DEF ReviewsOf
    <2>2. CASE \E j \in {1, 2, 4} : q = Row(c, ReviewError(c))[j]
      BY <1>3, <1>5, <2>2, FourStages DEF FullRow
    <2> QED
      BY <2>1, <2>2 DEF Parts
  <1>6. PICK i \in 1 .. 4 : r.stage = GAUNTLET_STAGES[i]
    <2>1. CASE r \in ReviewsOf(Cells[k], captures)
      BY <1>4, <2>1, FourStages DEF ReviewsOf
    <2>2. CASE \E j \in {1, 2, 4} : r = Row(Cells[k], ReviewError(Cells[k]))[j]
      BY <1>3, <2>2 DEF FullRow
    <2> QED
      BY <1>2, <2>1, <2>2 DEF Parts
  <1>7. PICK y \in N : y.id = Cells[k].id /\ y.stage = GAUNTLET_STAGES[i]
    BY <1>6, CellCount DEF Filled
  <1>8. PICK l \in DOMAIN Cells : \E q \in Parts(Cells[l], captures) : y = Normal(q)
    BY DEF Known
  <1>9. PICK q \in Parts(Cells[l], captures) : y = Normal(q)
    BY <1>8
  <1>10. q.id = Cells[k].id /\ q.stage = GAUNTLET_STAGES[i]
    BY <1>7, <1>9 DEF Normal
  <1>11. l = k
    <2>1. Cells[l].id = Cells[k].id
      BY <1>5, <1>10
    <2> QED
      BY <2>1, CellsDiffer
  <1>12. Normal(r) = Normal(q)
    <2>1. CASE i # 3
      BY <1>5, <1>6, <1>10, <1>11, <2>1
    <2>2. CASE i = 3
      <3>1. r \in ReviewsOf(Cells[k], captures) /\ q \in ReviewsOf(Cells[k], captures)
        BY <1>5, <1>6, <1>10, <1>11, <2>2
      <3>2. PICK j \in DOMAIN captures :
              /\ captures[j].request = build_request(SourceOf(Cells[k]))
              /\ r = ReviewOf(Cells[k], captures[j].response)
        BY <3>1 DEF ReviewsOf
      <3>3. PICK m \in DOMAIN captures :
              /\ captures[m].request = build_request(SourceOf(Cells[k]))
              /\ q = ReviewOf(Cells[k], captures[m].response)
        BY <3>1 DEF ReviewsOf
      <3> QED
        BY <3>2, <3>3
    <2> QED
      BY <2>1, <2>2
  <1> QED
    BY <1>2, <1>9, <1>12

\* A replay that measured every cell reproduces the live board, if the live reviewer
\* answered equal requests equally.
THEOREM FaithfulReplay == MintSpec => []ReplayFaithful
  <1>1. IInv => ReplayFaithful
    <2> SUFFICES ASSUME IInv, pc = "done", phase = "recorded",
                        \A r \in minted \cup Normalized : Measured(r),
                        \A i, j \in DOMAIN corpus :
                            corpus[i].request = corpus[j].request => corpus[i] = corpus[j]
                 PROVE  Normalized = minted
      BY DEF ReplayFaithful
    <2>1. Known(Normalized, corpus)
      BY NormalizedKnown DEF IInv, CaptureRecords
    <2>2. Filled(Normalized, Len(Cells))
      BY NormalizedFilled DEF IInv
    <2>3. Known(minted, corpus) /\ Filled(minted, Len(Cells))
      BY DEF IInv, MintedInv
    <2>4. ValidManifest(Manifest)
      BY DEF IInv, WrittenInv, Admissible, assert_board_admissible
    <2>5. Normalized \subseteq minted
      BY <2>1, <2>3, <2>4, OneBoard
    <2>6. minted \subseteq Normalized
      BY <2>1, <2>2, <2>3, <2>4, OneBoard
    <2> QED
      BY <2>5, <2>6
  <1> QED
    BY <1>1, Inductive, PTL

(* The directory *)

\* What was in the directory before the render.
Base == IF phase = "live" THEN setup.out_dir ELSE Empty

\* The writes of each kind.
ManifestWrite == [name |-> File("receipts", "manifest"), content |-> Manifest]
ReceiptWrite(r) == [name |-> ReceiptFile(r), content |-> r]
CaptureWrite(c) == [name |-> CaptureFile(c), content |-> c]
BoardWrites ==
    <<[name |-> File("board", "board.json"),
       content |-> [table |-> Table, captures |-> CaptureRecords]],
      [name |-> File("board", "DISCLOSURE.txt"), content |-> phase],
      [name |-> File("board", "normalized.json"), content |-> Normalized]>>

\* Those that were made.
Written == {Writes[j] : j \in 1 .. written}

\* A file that was written has what was written under its name, the last of it, or a part of
\* it where the render has failed; any other is from before, or the record of the rehearsal.
DiskInv ==
    /\ pc = "emit" => written < Len(Writes)
    /\ pc = "done" => written = Len(Writes)
    /\ Written \subseteq Range(Writes)
    /\ \A w \in Written :
         /\ w.name \in DOMAIN disk
         /\ \/ \E v \in Written : v.name = w.name /\ disk[w.name] = v.content
            \/ pc = "raised" /\ disk[w.name] = Torn
    /\ \A f \in DOMAIN disk :
         \/ f \in DOMAIN Base /\ disk[f] = Base[f]
         \/ \E w \in Written : w.name = f
         \/ f = File("board", "rehearsal.json")

\* A list of one.
LEMMA OneLong ==
    ASSUME NEW a
    PROVE  IsSequence(<<a>>) /\ Range(<<a>>) = {a}
  <1>1. <<a>> \in Seq({a}) /\ DOMAIN <<a>> = {1} /\ <<a>>[1] = a
    OBVIOUS
  <1> QED
    BY <1>1 DEF IsSequence, Range

\* A list of the length of another.
LEMMA AsLong ==
    ASSUME NEW s, IsSequence(s), NEW t, t = [i \in DOMAIN s |-> t[i]]
    PROVE  IsSequence(t)
  <1>1. DOMAIN s = 1 .. Len(s) /\ Len(s) \in Nat
    BY DEF IsSequence
  <1>2. t \in [1 .. Len(s) -> Range(t)]
    BY <1>1 DEF Range
  <1>3. t \in Seq(Range(t))
    BY <1>1, <1>2
  <1> QED
    BY <1>3 DEF IsSequence

\* The views of the board.
LEMMA BoardNames ==
    /\ IsSequence(BoardWrites)
    /\ \A w \in Range(BoardWrites) :
         w.name.dir = "board" /\ w.name # File("board", "rehearsal.json")
  <1> DEFINE a == [name |-> File("board", "board.json"),
                   content |-> [table |-> Table, captures |-> CaptureRecords]]
             b == [name |-> File("board", "DISCLOSURE.txt"), content |-> phase]
             c == [name |-> File("board", "normalized.json"), content |-> Normalized]
  <1>1. \A w \in {a, b, c} : w.name.dir = "board" /\ w.name.stage # "rehearsal.json"
    BY DEF File
  <1>2. File("board", "rehearsal.json").stage = "rehearsal.json"
    BY DEF File
  <1> HIDE DEF a, b, c
  <1>3. <<a, b, c>> \in Seq({a, b, c}) /\ Range(<<a, b, c>>) \subseteq {a, b, c}
    BY DEF Range
  <1>4. BoardWrites = <<a, b, c>>
    BY DEF BoardWrites, a, b, c
  <1> QED
    BY <1>1, <1>2, <1>3, <1>4 DEF IsSequence

\* What is written in all.
LEMMA WritesAre ==
    ASSUME IsSequence(receipts), IsSequence(CaptureRecords)
    PROVE  /\ Len(Writes) \in Nat /\ Len(Writes) > 0 /\ DOMAIN Writes = 1 .. Len(Writes)
           /\ Range(Writes) = {ManifestWrite} \cup {ReceiptWrite(r) : r \in Range(receipts)}
                \cup Range(BoardWrites) \cup {CaptureWrite(c) : c \in Range(CaptureRecords)}
  <1> DEFINE R == [i \in DOMAIN receipts |->
                      [name |-> ReceiptFile(receipts[i]), content |-> receipts[i]]]
             C == [i \in DOMAIN CaptureRecords |->
                      [name |-> CaptureFile(CaptureRecords[i]), content |-> CaptureRecords[i]]]
             M == <<ManifestWrite>>
             B == BoardWrites
  <1>1. Writes = ((M \o R) \o B) \o C
    BY DEF Writes, ManifestWrite, BoardWrites
  <1>2. IsSequence(M) /\ Range(M) = {ManifestWrite} /\ Len(M) = 1
    BY OneLong
  <1>3. IsSequence(R) /\ Range(R) = {ReceiptWrite(r) : r \in Range(receipts)}
    <2>1. R = [i \in DOMAIN receipts |-> R[i]]
      OBVIOUS
    <2>2. IsSequence(R)
      BY <2>1, AsLong
    <2>3. Range(R) = {ReceiptWrite(r) : r \in Range(receipts)}
      BY DEF Range, ReceiptWrite
    <2> QED
      BY <2>2, <2>3
  <1>4. IsSequence(C) /\ Range(C) = {CaptureWrite(c) : c \in Range(CaptureRecords)}
    <2>1. C = [i \in DOMAIN CaptureRecords |-> C[i]]
      OBVIOUS
    <2>2. IsSequence(C)
      BY <2>1, AsLong
    <2>3. Range(C) = {CaptureWrite(c) : c \in Range(CaptureRecords)}
      BY DEF Range, CaptureWrite
    <2> QED
      BY <2>2, <2>3
  <1>5. IsSequence(B)
    BY BoardNames
  <1> HIDE DEF M, R, B, C
  <1>6. /\ IsSequence(M \o R) /\ Len(R) \in Nat /\ Len(M \o R) = 1 + Len(R)
        /\ Range(M \o R) = Range(M) \cup Range(R)
    BY <1>2, <1>3, Concat
  <1>7. /\ IsSequence((M \o R) \o B) /\ Len(B) \in Nat
        /\ Len((M \o R) \o B) = (1 + Len(R)) + Len(B)
        /\ Range((M \o R) \o B) = (Range(M) \cup Range(R)) \cup Range(B)
    BY <1>5, <1>6, Concat
  <1> DEFINE S == (M \o R) \o B
  <1> HIDE DEF S
  <1>8. IsSequence(S) /\ Len(S) \in Nat /\ Len(S) > 0
    BY <1>6, <1>7 DEF S
  <1>9. /\ IsSequence(S \o C) /\ Len(C) \in Nat /\ Len(S \o C) = Len(S) + Len(C)
        /\ Range(S \o C) = Range(S) \cup Range(C)
    BY <1>4, <1>8, Concat
  <1> DEFINE T == S \o C
  <1>10. DOMAIN T = 1 .. Len(T) /\ Len(T) \in Nat /\ Len(T) > 0
    <2>1. IsSequence(T) /\ Len(T) = Len(S) + Len(C)
      BY <1>9
    <2> HIDE DEF T
    <2>2. DOMAIN T = 1 .. Len(T)
      BY <2>1 DEF IsSequence
    <2> QED
      BY <1>8, <1>9, <2>1, <2>2
  <1> QED
    BY <1>1, <1>2, <1>3, <1>4, <1>7, <1>9, <1>10 DEF S, B

\* What a render had written is the same after a step that leaves the board alone.
LEMMA WritesStay ==
    ASSUME UNCHANGED <<phase, receipts, sink, corpus>>
    PROVE  Writes' = Writes
  BY DEF Writes, CaptureRecords, Table, Normalized

\* Before the first write there is what was there.
LEMMA NothingWritten ==
    ASSUME written = 0
    PROVE  Written = {}
  BY DEF Written

\* A step that writes nothing.
LEMMA UnwrittenKeeps ==
    ASSUME DiskInv, UNCHANGED <<setup, phase, disk, written>>,
           written = 0 \/ UNCHANGED <<receipts, sink, corpus>>,
           pc' = "emit" => written < Len(Writes'),
           pc' = "done" => pc = "done" /\ UNCHANGED <<receipts, sink, corpus>>,
           pc = "raised" => pc' = "raised"
    PROVE  DiskInv'
  <1>1. Written' = Written /\ Written' \subseteq Range(Writes')
    <2>1. CASE written = 0
      <3>1. written' = 0
        BY <2>1
      <3>2. Written' = {}
        BY <3>1 DEF Written
      <3> QED
        BY <2>1, <3>2, NothingWritten
    <2>2. CASE UNCHANGED <<receipts, sink, corpus>>
      BY <2>2, WritesStay DEF Written, DiskInv
    <2> QED
      BY <2>1, <2>2
  <1>2. Base' = Base
    BY DEF Base
  <1>3. pc' = "done" => written' = Len(Writes')
    BY WritesStay DEF DiskInv
  <1>4. Range(Writes)' = Range(Writes')
    BY DEF Range
  <1> QED
    BY <1>1, <1>2, <1>3, <1>4 DEF DiskInv, File, Torn

\* The next file is written, or a part of it.
Writing(content) ==
    /\ pc = "emit"
    /\ disk' = write_text(disk, Writes[written + 1].name, content)
    /\ written' = written + 1
    /\ \/ /\ content = Writes[written + 1].content
          /\ pc' = IF written' = Len(Writes) THEN "done" ELSE "emit"
       \/ content = Torn /\ pc' = "raised"
    /\ UNCHANGED <<setup, phase, receipts, sink, corpus>>

\* One more file, or a part of it.
LEMMA EmitWrites ==
    ASSUME IInv, DiskInv, NEW content, Writing(content)
    PROVE  DiskInv'
  <1> DEFINE n == written + 1
             w == Writes[n]
  <1>1. /\ pc = "emit" /\ disk' = write_text(disk, w.name, content) /\ written' = n
        /\ \/ content = w.content /\ pc' = IF n = Len(Writes) THEN "done" ELSE "emit"
           \/ content = Torn /\ pc' = "raised"
        /\ UNCHANGED <<setup, phase, receipts, sink, corpus>>
    BY DEF Writing
  <1>2. Writes' = Writes
    BY <1>1, WritesStay
  <1>3. /\ written \in Nat /\ Len(Writes) \in Nat /\ written < Len(Writes)
        /\ DOMAIN Writes = 1 .. Len(Writes)
    <2>1. IsSequence(receipts) /\ IsSequence(CaptureRecords)
      BY DEF IInv, RowsInv, ReviewInv, MintedInv, Sent, CaptureRecords
    <2> QED
      BY <1>1, <2>1, WritesAre DEF IInv, WrittenInv, DiskInv
  <1>4. Written' = Written \cup {w}
    <2>1. 1 .. n = (1 .. written) \cup {n}
      BY <1>3
    <2>2. Written' = {Writes[j] : j \in 1 .. n}
      BY <1>1, <1>2 DEF Written
    <2> HIDE DEF n
    <2> QED
      BY <2>1, <2>2 DEF Written
  <1>5. Base' = Base
    BY <1>1 DEF Base
  <1>6. Written' \subseteq Range(Writes)
    <2>1. n \in DOMAIN Writes
      BY <1>3
    <2> QED
      BY <1>4, <2>1 DEF DiskInv, Range
  <1> HIDE DEF w
  <1>7. /\ DOMAIN disk' = DOMAIN disk \cup {w.name}
        /\ disk'[w.name] = content
        /\ \A f \in DOMAIN disk : f # w.name => disk'[f] = disk[f]
    BY <1>1 DEF write_text
  <1>8. /\ pc' = "emit" => written' < Len(Writes')
        /\ pc' = "done" => written' = Len(Writes')
    <2>1. /\ n = Len(Writes) => pc' \in {"done", "raised"}
          /\ n # Len(Writes) => pc' \in {"emit", "raised"}
          /\ written' = n /\ Len(Writes') = Len(Writes)
      BY <1>1, <1>2
    <2> DEFINE l == Len(Writes)
    <2>2. written \in Nat /\ l \in Nat /\ written < l
      BY <1>3
    <2> HIDE DEF l
    <2>3. n # l => n < l
      BY <2>2
    <2> HIDE DEF n
    <2> QED
      BY <2>1, <2>3 DEF l
  <1>9. \A v \in Written' :
          /\ v.name \in DOMAIN disk'
          /\ \/ \E x \in Written' : x.name = v.name /\ disk'[v.name] = x.content
             \/ pc' = "raised" /\ disk'[v.name] = Torn
    <2> TAKE v \in Written'
    <2>1. CASE v.name = w.name
      BY <1>1, <1>4, <1>7, <2>1
    <2>2. CASE v.name # w.name
      <3>1. v \in Written
        BY <1>4, <2>2
      <3> QED
        BY <1>1, <1>4, <1>7, <2>2, <3>1 DEF DiskInv
    <2> QED
      BY <2>1, <2>2
  <1>10. \A f \in DOMAIN disk' :
          \/ f \in DOMAIN Base /\ disk'[f] = Base[f]
          \/ \E v \in Written' : v.name = f
          \/ f = File("board", "rehearsal.json")
    <2> TAKE f \in DOMAIN disk'
    <2>1. CASE f = w.name
      BY <1>4, <2>1
    <2>2. CASE f # w.name
      BY <1>4, <1>7, <2>2 DEF DiskInv
    <2> QED
      BY <2>1, <2>2
  <1> QED
    BY <1>2, <1>5, <1>6, <1>8, <1>9, <1>10 DEF DiskInv, File, Range, Torn

\* The record of the rehearsal has a name of its own.
LEMMA RehearsalWrites ==
    ASSUME IInv, DiskInv, WriteRehearsal
    PROVE  DiskInv'
  <1> DEFINE f0 == File("board", "rehearsal.json")
  <1>1. /\ pc = "done" /\ pc' = pc
        /\ UNCHANGED <<setup, phase, receipts, sink, corpus, written>>
        /\ disk' = disk \/ \E content : disk' = write_text(disk, f0, content)
    BY DEF WriteRehearsal
  <1>2. Written' = Written /\ Writes' = Writes /\ Base' = Base
    BY <1>1, WritesStay DEF Written, Base
  <1>3. CASE disk' = disk
    BY <1>1, <1>2, <1>3 DEF DiskInv, File, Range
  <1>4. ASSUME NEW content, disk' = write_text(disk, f0, content) PROVE DiskInv'
    <2>1. \A w \in Written : w.name # f0
      <3>1. IsSequence(receipts) /\ IsSequence(CaptureRecords)
        BY DEF IInv, RowsInv, ReviewInv, MintedInv, Sent, CaptureRecords
      <3>2. \A w \in Range(Writes) : w.name # f0
        <4>1. f0.dir = "board"
          BY DEF File
        <4>2. ManifestWrite.name.dir = "receipts"
          BY DEF ManifestWrite, File
        <4>3. \A r : ReceiptWrite(r).name.dir = "receipts"
          BY DEF ReceiptWrite, ReceiptFile
        <4>4. \A c : CaptureWrite(c).name.dir = "captures"
          BY DEF CaptureWrite, CaptureFile, File
        <4>5. \A w \in Range(BoardWrites) : w.name # f0
          BY BoardNames
        <4> HIDE DEF f0
        <4> QED
          BY <3>1, <4>1, <4>2, <4>3, <4>4, <4>5, WritesAre
      <3> QED
        BY <3>2 DEF DiskInv
    <2> HIDE DEF f0
    <2>2. /\ DOMAIN disk' = DOMAIN disk \cup {f0}
          /\ \A f \in DOMAIN disk : f # f0 => disk'[f] = disk[f]
      BY <1>4 DEF write_text
    <2>3. \A w \in Written :
            /\ w.name \in DOMAIN disk'
            /\ \E v \in Written : v.name = w.name /\ disk'[w.name] = v.content
      BY <1>1, <2>1, <2>2 DEF DiskInv
    <2>4. \A f \in DOMAIN disk' :
            \/ f \in DOMAIN Base /\ disk'[f] = Base[f]
            \/ \E w \in Written : w.name = f
            \/ f = f0
      BY <2>2 DEF DiskInv, f0
    <2>5. f0' = f0
      BY DEF f0, File
    <2> QED
      BY <1>1, <1>2, <2>3, <2>4, <2>5 DEF DiskInv, f0, Range
  <1> QED
    BY <1>1, <1>3, <1>4

\* Every step keeps the directory so.
LEMMA NextDisk == IInv /\ DiskInv /\ [MintNext]_mint_vars => DiskInv'
  <1> SUFFICES ASSUME IInv, DiskInv, [MintNext]_mint_vars PROVE DiskInv'
    OBVIOUS
  <1>1. CASE Rehearse \/ Skip \/ Commit \/ Gate
    <2>1. step \in {"rehearse", "commit", "gate"}
      BY <1>1 DEF Rehearse, Skip, Commit, Gate
    <2>2. written = 0 /\ pc = "label"
      BY <2>1 DEF IInv, StepInv
    <2>3. UNCHANGED <<setup, phase, pc, disk, written>>
      BY <1>1 DEF Rehearse, Skip, Commit, Gate, vars, board_vars
    <2> QED
      BY <2>2, <2>3, UnwrittenKeeps
  <1>2. CASE Raise
    <2>1. UNCHANGED <<setup, phase, disk, written, receipts, sink, corpus>> /\ pc' = "raised"
      BY <1>2 DEF Raise
    <2> QED
      BY <2>1, UnwrittenKeeps
  <1>3. CASE pc # "raised" /\ \E l \in {"cells", "bundle"} : Goto(l)
    <2>1. /\ UNCHANGED <<setup, phase, disk, written, receipts, sink, corpus>>
          /\ pc' \in {"cells", "bundle"}
      BY <1>3 DEF Goto
    <2> QED
      BY <1>3, <2>1, UnwrittenKeeps
  <1>4. CASE pc = "bundle" /\ Goto("emit")
    <2>1. UNCHANGED <<setup, phase, disk, written, receipts, sink, corpus>> /\ pc' = "emit"
      BY <1>4 DEF Goto
    <2>2. written = 0
      BY <1>4 DEF IInv, WrittenInv
    <2>3. Writes' = Writes
      BY <2>1, WritesStay
    <2>4. Len(Writes) > 0
      <3>1. IsSequence(receipts) /\ IsSequence(CaptureRecords)
        BY DEF IInv, RowsInv, ReviewInv, MintedInv, Sent, CaptureRecords
      <3> QED
        BY <3>1, WritesAre
    <2>5. pc' = "emit" => written < Len(Writes')
      BY <2>2, <2>3, <2>4
    <2> QED
      BY <1>4, <2>1, <2>5, UnwrittenKeeps
  <1>5. CASE LiveCell \/ RecordedCell
    <2>1. PICK row : pc = "cells" /\ Fill(row)
      BY <1>5 DEF LiveCell, RecordedCell
    <2>2. UNCHANGED <<setup, phase, disk, written>> /\ pc' \in {"admit", "cells"}
      BY <2>1 DEF Fill
    <2>3. written = 0
      BY <2>1 DEF IInv, WrittenInv
    <2> QED
      BY <2>1, <2>2, <2>3, UnwrittenKeeps
  <1>6. CASE Emit
    <2> DEFINE w == Writes[written + 1]
    <2>1. Writing(w.content)
      BY <1>6 DEF Emit, Writing
    <2> QED
      BY <2>1, EmitWrites
  <1>11. CASE EmitFails
    <2>1. /\ pc = "emit" /\ pc' = "raised"
          /\ UNCHANGED <<setup, phase, receipts, sink, corpus>>
      BY <1>11 DEF EmitFails
    <2>2. CASE UNCHANGED <<disk, written>>
      BY <2>1, <2>2, UnwrittenKeeps
    <2>3. CASE /\ disk' = write_text(disk, Writes[written + 1].name, Torn)
               /\ written' = written + 1
      <3>1. Writing(Torn)
        BY <2>1, <2>3 DEF Writing
      <3> QED
        BY <3>1, EmitWrites
    <2> QED
      BY <1>11, <2>2, <2>3 DEF EmitFails
  <1>7. CASE WriteRehearsal
    BY <1>7, RehearsalWrites
  <1>8. CASE StartReplay
    <2>1. phase' = "recorded" /\ pc' = "label" /\ disk' = Empty /\ written' = 0
      BY <1>8 DEF StartReplay, Replay
    <2>2. Written' = {} /\ Base' = Empty
      BY <2>1 DEF Written, Base
    <2> QED
      BY <2>1, <2>2 DEF DiskInv
  <1>9. CASE UNCHANGED mint_vars
    <2>1. UNCHANGED <<setup, phase, disk, written, receipts, sink, corpus, pc>>
      BY <1>9 DEF mint_vars, vars, board_vars
    <2>2. Writes' = Writes
      BY <2>1, WritesStay
    <2>3. pc' = "emit" => written < Len(Writes')
      BY <2>1, <2>2 DEF DiskInv
    <2> QED
      BY <2>1, <2>3, UnwrittenKeeps
  <1>10. CASE RenderStep
    BY <1>2, <1>3, <1>4, <1>5, <1>6, <1>10, <1>11
    DEF RenderStep, Render, Check, PublishingFails, Admit, Bundle
  <1> QED
    BY <1>1, <1>7, <1>8, <1>9, <1>10 DEF MintNext, MintDone

\* It is so throughout.
THEOREM InductiveDisk == MintSpec => [](IInv /\ DiskInv)
  <1>1. MintInit => DiskInv
    <2> SUFFICES ASSUME MintInit PROVE DiskInv
      OBVIOUS
    <2>1. phase = "live" /\ pc = "label" /\ disk = setup.out_dir /\ written = 0
      BY DEF MintInit, Init
    <2>2. Written = {} /\ Base = disk
      BY <2>1 DEF Written, Base
    <2> QED
      BY <2>1, <2>2 DEF DiskInv
  <1> QED
    BY <1>1, InitIInv, NextIInv, NextDisk, PTL DEF MintSpec

(* What is read off it *)

\* The lists of a render.
LEMMA Lists ==
    ASSUME IInv
    PROVE  IsSequence(receipts) /\ IsSequence(CaptureRecords)
  BY DEF IInv, RowsInv, ReviewInv, MintedInv, Sent, CaptureRecords

\* In the end all was written.
LEMMA AllWritten ==
    ASSUME IInv, DiskInv, pc = "done"
    PROVE  Written = Range(Writes)
  BY Lists, WritesAre DEF DiskInv, Written, Range

\* What is in a file that was written whole, by the directory it is in.
LEMMA WrittenFile ==
    ASSUME IInv, DiskInv, NEW w \in Written, pc # "raised" \/ disk[w.name] # Torn
    PROVE  /\ w.name \in DOMAIN disk
           /\ w.name.dir = "receipts" /\ w.name.stage # "manifest" =>
                \E r \in Range(receipts) : w.name = ReceiptFile(r) /\ disk[w.name] = r
           /\ w.name.dir = "captures" =>
                \E c \in Range(CaptureRecords) : w.name = CaptureFile(c) /\ disk[w.name] = c
  <1>1. PICK v \in Written : v.name = w.name /\ disk[w.name] = v.content
    BY DEF DiskInv
  <1>2. w.name \in DOMAIN disk
    BY DEF DiskInv
  <1>3. v \in {ManifestWrite} \cup {ReceiptWrite(r) : r \in Range(receipts)}
              \cup Range(BoardWrites) \cup {CaptureWrite(c) : c \in Range(CaptureRecords)}
    BY Lists, WritesAre DEF DiskInv
  <1>4. CASE v = ManifestWrite
    <2>1. v.name.dir = "receipts" /\ v.name.stage = "manifest"
      BY <1>4 DEF ManifestWrite, File
    <2> QED
      BY <1>1, <1>2, <2>1
  <1>5. CASE \E r \in Range(receipts) : v = ReceiptWrite(r)
    <2>1. PICK r \in Range(receipts) : v = ReceiptWrite(r)
      BY <1>5
    <2>2. v.name = ReceiptFile(r) /\ v.content = r /\ v.name.dir = "receipts"
      BY <2>1 DEF ReceiptWrite, ReceiptFile
    <2> QED
      BY <1>1, <1>2, <2>2
  <1>6. CASE v \in Range(BoardWrites)
    <2>1. v.name.dir = "board"
      BY <1>6, BoardNames
    <2> QED
      BY <1>1, <1>2, <2>1
  <1>7. CASE \E c \in Range(CaptureRecords) : v = CaptureWrite(c)
    <2>1. PICK c \in Range(CaptureRecords) : v = CaptureWrite(c)
      BY <1>7
    <2>2. v.name = CaptureFile(c) /\ v.content = c /\ v.name.dir = "captures"
      BY <2>1 DEF CaptureWrite, CaptureFile, File
    <2> QED
      BY <1>1, <1>2, <2>2
  <1> QED
    BY <1>3, <1>4, <1>5, <1>6, <1>7

\* A receipt in the directory is the board's, or was there before.
LEMMA ReceiptsFound ==
    ASSUME IInv, DiskInv, Readable(disk)
    PROVE  \A r \in Receipts(disk) : r \in Range(receipts) \/ r \in Receipts(Base)
  <1> SUFFICES ASSUME NEW f \in DOMAIN disk, f.dir = "receipts", f.stage # "manifest"
               PROVE  disk[f] \in Range(receipts) \/ disk[f] \in Receipts(Base)
    BY DEF Receipts
  <1>1. CASE f \in DOMAIN Base /\ disk[f] = Base[f]
    BY <1>1 DEF Receipts
  <1>2. CASE \E w \in Written : w.name = f
    <2>1. disk[f] # Torn
      BY DEF Readable
    <2> QED
      BY <1>2, <2>1, WrittenFile
  <1>3. f # File("board", "rehearsal.json")
    BY DEF File
  <1> QED
    BY <1>1, <1>2, <1>3 DEF DiskInv

\* The cell of a receipt of an admitted board.
LEMMA CellOf ==
    ASSUME Admissible, NEW r \in Range(receipts)
    PROVE  /\ \E k \in DOMAIN Cells : r.run = Cells[k].run /\ r.id = Cells[k].id
           /\ r.anchor = Manifest.digest /\ r.stage \in VALID_STAGES
  <1>1. PICK i \in DOMAIN receipts : r = receipts[i]
    BY DEF Range
  <1>2. Manifest.cells = Cells
    BY DEF Cells
  <1> HIDE DEF Cells
  <1>3. r.run \in PlannedRuns(Manifest) /\ IdentityMatches(Manifest, r)
    BY <1>1 DEF Admissible, assert_board_admissible, StageDenominatorComplete
  <1>4. \E k \in DOMAIN Cells : r.run = Cells[k].run /\ r.id = Cells[k].id
    BY <1>2, <1>3 DEF PlannedRuns, IdentityMatches, CellIndexes
  <1> QED
    BY <1>1, <1>4 DEF Admissible, assert_board_admissible, Anchored, ValidCellStage

\* Two receipts of one stage and one planned run are one.
LEMMA OneReceipt ==
    ASSUME Admissible, NEW r \in Range(receipts), NEW q \in Range(receipts),
           r.run = q.run, r.stage = q.stage
    PROVE  r = q
  BY DEF Admissible, assert_board_admissible, StageDenominatorComplete, Range

\* Where cells have names of their own, two receipts that share a file are one.
LEMMA FileOfItsOwn ==
    ASSUME Admissible, NamesApart, NEW r \in Range(receipts), NEW q \in Range(receipts),
           Slug(r.id.cell_id) = Slug(q.id.cell_id), r.stage = q.stage
    PROVE  r = q
  <1>1. PICK j \in DOMAIN Cells : r.run = Cells[j].run /\ r.id = Cells[j].id
    BY CellOf
  <1>2. PICK k \in DOMAIN Cells : q.run = Cells[k].run /\ q.id = Cells[k].id
    BY CellOf
  <1>3. j = k
    BY <1>1, <1>2 DEF NamesApart
  <1> QED
    BY <1>1, <1>2, <1>3, OneReceipt

\* No receipt of a finished board is overwritten, where cells have names of their own.
LEMMA OwnFiles ==
    ASSUME IInv, DiskInv, NamesApart, pc = "done", NEW r \in Range(receipts)
    PROVE  /\ ReceiptFile(r) \in DOMAIN disk /\ disk[ReceiptFile(r)] = r
           /\ r \in Receipts(disk)
  <1>1. Admissible
    BY DEF IInv, WrittenInv
  <1> DEFINE f == ReceiptFile(r)
  <1>2. f.dir = "receipts" /\ f.stage # "manifest"
    <2>1. r.stage \in VALID_STAGES
      BY <1>1, CellOf
    <2>2. r.stage # "manifest"
      BY <2>1 DEF VALID_STAGES, GAUNTLET_STAGES
    <2> QED
      BY <2>2 DEF ReceiptFile
  <1>3. ReceiptWrite(r) \in Written /\ ReceiptWrite(r).name = f
    BY AllWritten, Lists, WritesAre DEF ReceiptWrite
  <1>4. f \in DOMAIN disk /\ \E q \in Range(receipts) : f = ReceiptFile(q) /\ disk[f] = q
    <2> DEFINE w == ReceiptWrite(r)
    <2>1. w \in Written /\ w.name = f
      BY <1>3
    <2> HIDE DEF w, f
    <2> QED
      BY <1>2, <2>1, WrittenFile
  <1>5. PICK q \in Range(receipts) : f = ReceiptFile(q) /\ disk[f] = q
    BY <1>4
  <1>6. Slug(r.id.cell_id) = Slug(q.id.cell_id) /\ r.stage = q.stage
    BY <1>5 DEF ReceiptFile
  <1>7. q = r
    BY <1>1, <1>6, FileOfItsOwn
  <1> HIDE DEF f
  <1>8. f \in DOMAIN disk /\ disk[f] = r /\ r \in Receipts(disk)
    BY <1>2, <1>4, <1>5, <1>7 DEF Receipts
  <1> QED
    BY <1>8 DEF f

\* Where no two cells have one name, a finished board has a file of its own for every
\* receipt: the overwriting that render_names shows has no other cause.
THEOREM OwnReceiptFiles == MintSpec => [](NamesApart => EveryReceiptHasItsFile)
  <1>1. IInv /\ DiskInv => (NamesApart => EveryReceiptHasItsFile)
    BY OwnFiles DEF EveryReceiptHasItsFile, Range
  <1> QED
    BY <1>1, InductiveDisk, PTL

\* Of a wire that a builder returned for a source, an auditor who expects that source asks
\* no more than the shape, the prompt, the model and the token limit.
LEMMA AuditOfWire ==
    ASSUME NEW b, b.kind \in {"messages", "reviewable"}, NEW s, NEW p, NEW c,
           Wire(b, s, p) # NoWire
    PROVE  AuditorAdmits(Wire(b, s, p), c, s)
             <=> /\ b.kind = "reviewable" /\ b.prompt = c.prompt
                 /\ b.model = c.model /\ b.max_tokens = c.max_tokens
  <1>1. CASE b.kind = "messages"
    <2>1. Wire(b, s, p) = MessagesWire(b, s)
      BY <1>1 DEF Wire
    <2>2. ~Parses(MessagesWire(b, s))
      <3> DEFINE blocks == <<b.prompt, s>>
      <3>1. Len(blocks) = 2 /\ ~(2 >= 3)
        OBVIOUS
      <3>2. MessagesWire(b, s).blocks = blocks
        BY DEF MessagesWire, Body
      <3> HIDE DEF blocks
      <3> QED
        BY <3>1, <3>2 DEF Parses
    <2> QED
      BY <1>1, <2>1, <2>2 DEF AuditorAdmits
  <1>2. CASE b.kind = "reviewable"
    <2> DEFINE w == Framed(b, s)
    <2>1. Wire(b, s, p) = w /\ SelfParses(w, b, s)
      BY <1>2 DEF Wire, ReviewableWire
    <2>2. w.model = b.model /\ w.max_tokens = b.max_tokens
      BY DEF Framed, Body
    <2> HIDE DEF w
    <2> QED
      BY <1>2, <2>1, <2>2 DEF AuditorAdmits, SelfParses
  <1> QED
    BY <1>1, <1>2

\* The auditor confirms what the committed builder sent, and refuses what another sent.
THEOREM AuditorsConfirm == MintSpec => []AuditorConfirms
  <1>1. IInv /\ DiskInv => AuditorConfirms
    <2> SUFFICES ASSUME IInv, DiskInv, phase = "live", pc = "done", NEW r \in Reviews
                 PROVE  /\ CaptureFile(r.obs) \in DOMAIN disk
                        /\ AuditorAdmits(disk[CaptureFile(r.obs)].request, commitment, r.digest)
                             <=> BuiltAsCommitted
      BY DEF AuditorConfirms
    <2>1. PICK k \in DOMAIN Cells, i \in DOMAIN CaptureRecords :
            /\ CaptureRecords[i].request = build_request(SourceOf(Cells[k]))
            /\ CaptureRecords[i].request # NoWire
            /\ r = ReviewOf(Cells[k], CaptureRecords[i].response)
      BY ReviewIsCaptured
    <2> DEFINE c == CaptureRecords[i]
               b == setup.builder
               s == SourceOf(Cells[k])
    <2>2. /\ c \in Range(CaptureRecords)
          /\ c.request = Wire(b, s, review_prompt_hash) /\ c.request # NoWire
          /\ r.obs.request = c.request /\ r.digest = s
      BY <2>1 DEF Range, build_request, ReviewOf, Receipt
    <2>3. b.kind \in {"messages", "reviewable"}
      BY MintAssumption DEF IInv, ReviewInv
    <2> HIDE DEF b, c, s
    <2> DEFINE f == CaptureFile(c)
               w == CaptureWrite(c)
    <2>4. f = CaptureFile(r.obs)
      BY <2>2 DEF CaptureFile
    <2>5. w \in Written /\ w.name = f /\ f.dir = "captures"
      <3>1. w \in Written
        BY <2>2, AllWritten, Lists, WritesAre
      <3> QED
        BY <3>1 DEF CaptureWrite, CaptureFile, File
    <2> HIDE DEF w
    <2>6. f \in DOMAIN disk
          /\ \E d \in Range(CaptureRecords) : f = CaptureFile(d) /\ disk[f] = d
      <3> HIDE DEF f
      <3> QED
        BY <2>5, WrittenFile
    <2>7. PICK d \in Range(CaptureRecords) : f = CaptureFile(d) /\ disk[f] = d
      BY <2>6
    <2>8. \A x : CaptureFile(x).request = x.request
      BY DEF CaptureFile, File
    <2>9. disk[f].request = c.request
      BY <2>7, <2>8
    <2> HIDE DEF f
    <2>10. AuditorAdmits(c.request, commitment, s) <=> BuiltAsCommitted
      BY <2>2, <2>3, AuditOfWire DEF BuiltAsCommitted, b
    <2> QED
      BY <2>2, <2>4, <2>6, <2>9, <2>10
  <1> QED
    BY <1>1, InductiveDisk, PTL

\* A gate receipt of the board tells strangers what its table tells.
LEMMA EffectOfTable ==
    ASSUME IInv, NEW r \in Range(receipts), r.stage = "gate"
    PROVE  merge_effect(r) = Effect(cell_verdict(r))
  <1>1. CASE ~Measured(r)
    <2>1. r.obs = [harness_error |-> TRUE]
      BY <1>1 DEF Measured, HarnessError
    <2>2. DOMAIN r.obs = {"harness_error"}
      BY <2>1
    <2>3. result_kind(r) = "harness_error"
      BY <2>2 DEF result_kind
    <2>4. merge_effect(r) = "indeterminate"
      BY <2>3 DEF merge_effect
    <2>5. cell_verdict(r) = "ERROR"
      BY <1>1 DEF cell_verdict
    <2> QED
      BY <2>4, <2>5 DEF Effect
  <1>2. CASE Measured(r)
    <2>1. PICK k \in DOMAIN Cells : r \in Parts(Cells[k], CaptureRecords)
      BY <1>2 DEF IInv, ReviewInv
    <2> DEFINE c == Cells[k]
               g == setup.gate[c.task]
    <2>2. r = GateReceipt(c)
      <3>1. ReviewError(c).id = c.id /\ ReviewError(c).stage = "llm_review"
            /\ ~Measured(ReviewError(c))
        BY DEF ReviewError, Receipt, Measured
      <3>2. FullRow(Row(c, ReviewError(c)), c)
        BY <3>1, RowIsKnown, Zenon
      <3>3. r \notin ReviewsOf(c, CaptureRecords)
        BY DEF ReviewsOf, ReviewOf, Receipt
      <3>4. r = Row(c, ReviewError(c))[4]
        BY <2>1, <3>2, <3>3, FourStages DEF Parts, FullRow
      <3> QED
        BY <3>4 DEF Row
    <2> HIDE DEF c
    <2>3. /\ r.outcome = g.outcome
          /\ r.obs = [result_kind |-> g.kind, result_reason |-> g.reason,
                      gate_outcome |-> g.gate_outcome, measured_tree_digest |-> SourceOf(c)]
      BY <1>2, <2>2 DEF GateReceipt, Receipt, Measured
    <2>4. "result_kind" \in DOMAIN r.obs /\ r.obs.result_kind = g.kind
      BY <2>3
    <2>5. result_kind(r) = r.obs.result_kind
      BY <2>4 DEF result_kind
    <2> QED
      BY <1>2, <2>5 DEF merge_effect, cell_verdict, Effect
  <1> QED
    BY <1>1, <1>2

\* Nothing that was there before is anchored to this board's manifest.
LEMMA OwnAnchor ==
    ASSUME IInv, DiskInv, Readable(disk), NEW r \in Receipts(disk),
           r.anchor = Manifest.digest
    PROVE  r \in Range(receipts)
  <1>1. \A q \in Receipts(setup.out_dir) : q.anchor # Manifest.digest
    BY MintAssumption DEF IInv, ReviewInv
  <1>2. Receipts(Empty) = {}
    BY DEF Receipts, Empty
  <1> QED
    BY <1>1, <1>2, ReceiptsFound DEF Base

\* In a directory of its own, a finished board's receipts are all there is.
LEMMA NothingElse ==
    ASSUME IInv, DiskInv, Readable(disk), NamesApart, pc = "done", Base = Empty
    PROVE  Receipts(disk) = Range(receipts)
  <1>1. Receipts(Empty) = {}
    BY DEF Receipts, Empty
  <1>2. \A r \in Receipts(disk) : r \in Range(receipts)
    BY <1>1, ReceiptsFound
  <1>3. \A r \in Range(receipts) : r \in Receipts(disk)
    BY OwnFiles
  <1> QED
    BY <1>2, <1>3

\* Each planned cell has one gate receipt, which the finished board's directory holds.
LEMMA GateOfCell ==
    ASSUME IInv, DiskInv, NamesApart, pc = "done", NEW k \in DOMAIN Cells
    PROVE  /\ \E r \in Receipts(disk) : r.stage = "gate" /\ r.id = Cells[k].id
                                        /\ r.anchor = Manifest.digest
           /\ \A r, q \in Range(receipts) :
                r.stage = "gate" /\ q.stage = "gate" /\ r.id = Cells[k].id /\ q.id = Cells[k].id
                  => r = q
  <1>1. Admissible
    BY DEF IInv, WrittenInv
  <1>2. \A r, q \in Range(receipts) :
          r.stage = "gate" /\ q.stage = "gate" /\ r.id = Cells[k].id /\ q.id = Cells[k].id
            => r = q
    BY <1>1, FileOfItsOwn
  <1>3. \E r \in Range(receipts) : r.stage = "gate" /\ r.id = Cells[k].id
    <2>1. Filled(Range(receipts), Len(Cells))
      BY DEF IInv, RowsInv
    <2>2. k \in 1 .. Len(Cells) /\ 4 \in 1 .. 4
      BY CellCount
    <2> QED
      BY <2>1, <2>2, FourStages DEF Filled
  <1>4. PICK r \in Range(receipts) : r.stage = "gate" /\ r.id = Cells[k].id
    BY <1>3
  <1>5. r \in Receipts(disk) /\ r.anchor = Manifest.digest
    BY <1>1, CellOf, OwnFiles
  <1> QED
    BY <1>2, <1>4, <1>5

\* A list without repetitions has as many elements as positions.
LEMMA InjectiveList ==
    ASSUME NEW n \in Nat, NEW T, NEW f \in [1 .. n -> T],
           \A i, j \in 1 .. n : f[i] = f[j] => i = j,
           \A x \in T : \E i \in 1 .. n : f[i] = x
    PROVE  Cardinality(T) = n
  <1>1. f \in Bijection(1 .. n, T)
    BY DEF Bijection, Injection, Surjection, IsInjective
  <1>2. IsFiniteSet(1 .. n) /\ Cardinality(1 .. n) = n
    <2>1. 1 \in Int /\ n \in Int
      OBVIOUS
    <2>2. IsFiniteSet(1 .. n) /\ Cardinality(1 .. n) = IF 1 > n THEN 0 ELSE n - 1 + 1
      BY <2>1, FS_Interval, Zenon
    <2> QED
      BY <2>2
  <1> QED
    BY <1>1, <1>2, FS_Bijection DEF ExistsBijection

\* A stranger makes of the directory, at any time, what the board says: of each of its gate
\* receipts the effect that its table tells; of a finished board one statement for each cell
\* and, in a directory of its own, nothing else.
THEOREM BoardsStatements == MintSpec => []StatementsAreTheBoards
  <1>1. IInv /\ DiskInv => StatementsAreTheBoards
    <2> SUFFICES ASSUME IInv, DiskInv, Readable(disk) PROVE StatementsAreTheBoards
      BY DEF StatementsAreTheBoards
    <2> DEFINE sealed == read_sealed_run(disk)
               statements == build_statements(sealed)
               own == {s \in statements : s.manifest_digest = Manifest.digest}
               gates == {r \in Receipts(disk) : r.stage = "gate"}
               St(r) == Statement(sealed, r)
    <2>1. statements = {St(r) : r \in gates}
      BY DEF build_statements, read_sealed_run
    <2>2. \A r : /\ St(r).manifest_digest = r.anchor /\ St(r).statement_id[2] = r.id
                 /\ St(r).merge_effect = merge_effect(r)
                 /\ St(r).board_status = board_status(sealed.review)
      BY DEF Statement
    <2>3. sealed.review = {r \in Receipts(disk) : r.stage = "llm_review"}
      BY DEF read_sealed_run
    <2> HIDE DEF sealed, statements, St
    <2>4. ASSUME NEW s \in own
          PROVE  \E r \in Range(receipts) : r.stage = "gate" /\ s = St(r)
      <3>1. PICK r \in gates : s = St(r)
        BY <2>1
      <3>2. r.anchor = Manifest.digest
        BY <2>2, <3>1
      <3> QED
        BY <3>1, <3>2, OwnAnchor
    <2>5. ASSUME NEW s \in own
          PROVE  \E row \in Table :
                   s.statement_id[2] = row.id /\ s.merge_effect = Effect(row.verdict)
      <3>1. PICK r \in Range(receipts) : r.stage = "gate" /\ s = St(r)
        BY <2>4
      <3> DEFINE row == [id |-> r.id, verdict |-> cell_verdict(r)]
      <3>2. row \in Table
        BY <3>1 DEF Table
      <3>3. s.statement_id[2] = row.id /\ s.merge_effect = Effect(row.verdict)
        BY <2>2, <3>1, EffectOfTable
      <3> QED
        BY <3>2, <3>3
    <2>6. ASSUME NamesApart, pc = "done", NEW k \in DOMAIN Cells
          PROVE  \E s \in own : {t \in own : t.statement_id[2] = Cells[k].id} = {s}
      <3>1. PICK r \in Receipts(disk) : /\ r.stage = "gate" /\ r.id = Cells[k].id
                                        /\ r.anchor = Manifest.digest
        BY <2>6, GateOfCell
      <3>2. St(r) \in own /\ St(r).statement_id[2] = Cells[k].id
        BY <2>1, <2>2, <3>1
      <3>3. r \in Range(receipts)
        BY <3>1, OwnAnchor
      <3>4. ASSUME NEW t \in own, t.statement_id[2] = Cells[k].id
            PROVE  t = St(r)
        <4>1. PICK q \in Range(receipts) : q.stage = "gate" /\ t = St(q)
          BY <2>4
        <4>2. q.id = Cells[k].id
          BY <2>2, <3>4, <4>1
        <4>3. q = r
          BY <2>6, <3>1, <3>3, <4>1, <4>2, GateOfCell
        <4> QED
          BY <4>1, <4>3
      <3> QED
        BY <3>2, <3>4
    <2>7. ASSUME NamesApart, pc = "done", NEW k \in DOMAIN Cells
          PROVE  Cardinality({s \in own : s.statement_id[2] = Cells[k].id}) = 1
      BY <2>6, <2>7, FS_Singleton
    <2>8. ASSUME NamesApart, pc = "done", setup.out_dir = Empty \/ phase = "recorded"
          PROVE  /\ Cardinality(statements) = Len(Cells)
                 /\ \A s \in statements :
                      s.board_status =
                        board_status({r \in Range(receipts) : r.stage = "llm_review"})
      <3>1. Receipts(disk) = Range(receipts)
        <4>1. phase # "live" => phase = "recorded"
          BY DEF IInv, ReviewInv
        <4> QED
          BY <2>8, <4>1, NothingElse DEF Base
      <3>2. Admissible
        BY <2>8 DEF IInv, WrittenInv
      <3>3. own = statements
        BY <2>1, <2>2, <3>1, <3>2, CellOf
      <3>4. \A s \in statements : \E k \in DOMAIN Cells : s.statement_id[2] = Cells[k].id
        BY <2>1, <2>2, <3>1, <3>2, CellOf
      <3> DEFINE n == Len(Cells)
                 f == [k \in 1 .. n |-> CHOOSE s \in statements :
                                            s.statement_id[2] = Cells[k].id]
      <3>5. ASSUME NEW k \in 1 .. n
            PROVE  /\ f[k] \in statements /\ f[k].statement_id[2] = Cells[k].id
                   /\ \A t \in statements : t.statement_id[2] = Cells[k].id => t = f[k]
        <4>1. k \in DOMAIN Cells
          BY CellCount
        <4>2. PICK s \in statements : {t \in statements : t.statement_id[2] = Cells[k].id} = {s}
          BY <2>6, <2>8, <3>3, <4>1
        <4>3. s.statement_id[2] = Cells[k].id
          BY <4>2
        <4>4. f[k] = CHOOSE t \in statements : t.statement_id[2] = Cells[k].id
          OBVIOUS
        <4>5. f[k] \in statements /\ f[k].statement_id[2] = Cells[k].id
          BY <4>3, <4>4
        <4> HIDE DEF f
        <4> QED
          BY <4>2, <4>5
      <3>6. f \in [1 .. n -> statements]
        BY <3>5
      <3> HIDE DEF f
      <3>7. \A i, j \in 1 .. n : f[i] = f[j] => i = j
        <4>1. \A i, j \in 1 .. n : Cells[i].id = Cells[j].id => i = j
          BY <2>8, CellCount DEF NamesApart
        <4> QED
          BY <3>5, <4>1
      <3>8. \A s \in statements : \E k \in 1 .. n : f[k] = s
        BY <3>4, <3>5, CellCount
      <3>9. Cardinality(statements) = n
        <4>1. n \in Nat
          BY CellCount
        <4> HIDE DEF n
        <4> QED
          BY <3>6, <3>7, <3>8, <4>1, InjectiveList
      <3>10. \A s \in statements : s.board_status = board_status(sealed.review)
        BY <2>1, <2>2
      <3> QED
        BY <2>3, <3>1, <3>9, <3>10
    <2> QED
      BY <2>5, <2>7, <2>8 DEF StatementsAreTheBoards, sealed, statements
  <1> QED
    BY <1>1, InductiveDisk, PTL
=============================================================================
