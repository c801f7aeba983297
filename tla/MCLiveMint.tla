----------------------------- MODULE MCLiveMint -----------------------------
(* Two tasks, two lineages: their cells share requests.  The setups are    *)
(* the right one and, one at a time, what may be otherwise.                *)
EXTENDS LiveMint, TLC

Task(name) == [task_id |-> name, side |-> "tempting"]

TwoTasks == <<Task(<<"t">>), Task(<<"u">>)>>
TwoLineages == << <<"a">>, <<"b">> >>

MCVerdict == [yes |-> "approve", no |-> "request_changes", cut |-> None]

Text(path, text) == [path |-> path, text |-> text]

OneFile  == {Text("main", "x")}
TwoFiles == {Text("main", "x"), Text("util", "y")}
Blob     == {Text("main", "blob")}
Throwaway == {Text("main", "z")}

Sources(t, u) == (<<"t">> :> t) @@ (<<"u">> :> u)

GateAnswer(kind, reason, outcome, gate_outcome) ==
    [kind |-> kind, reason |-> reason, outcome |-> outcome, gate_outcome |-> gate_outcome]

Pass    == GateAnswer("admitted_run", "admitted", "pass", "run_verdict")
Fail    == GateAnswer("admitted_run", "admitted", "fail", "run_verdict")
Refused == GateAnswer("blocking_refusal", "scope", "blocked", "run_verdict")
Infra   == GateAnswer("infrastructure_failure", "sandbox", "error", NoOutcome)
Crash   == GateAnswer("harness_error", "none", "error", NoOutcome)

Builder == [kind |-> "reviewable", prompt |-> "p", model |-> "m", max_tokens |-> 10,
            max_source |-> 2]

(* The directory of an earlier board of lineages a and c. *)
EarlierReceipts ==
    {[run |-> 9, anchor |-> "earlier", stage |-> s, digest |-> Throwaway,
      outcome |-> "error", obs |-> HarnessError,
      id |-> [cell_id |-> CellId(t, l, 0), lineage |-> l, side |-> "tempting",
              reviewer |-> IF l = <<"a">> THEN <<"c">> ELSE <<"a">>]] :
        s \in {"gate", "llm_review"}, t \in {<<"t">>, <<"u">>}, l \in {<<"a">>, <<"c">>}}

Earlier ==
    [f \in {ReceiptFile(r) : r \in EarlierReceipts} |->
        CHOOSE r \in EarlierReceipts : ReceiptFile(r) = f]
    @@ (File("receipts", "manifest") :> [digest |-> "earlier"])

Right ==
    [builder |-> Builder, committed |-> Builder, model_id |-> "m", throwaway |-> Throwaway,
     throwaway_digest |-> Throwaway, demonstration_digests |-> {OneFile, TwoFiles, Blob, {}},
     artifact |-> Sources(TwoFiles, OneFile), gate |-> Sources(Fail, Pass),
     same_client |-> TRUE, out_dir |-> Empty]

MCSetups ==
    { Right,
      [Right EXCEPT !.out_dir = Earlier, !.gate = Sources(Refused, Crash),
                    !.artifact = Sources(TwoFiles, TwoFiles), !.throwaway = TwoFiles,
                    !.same_client = FALSE],
      [Right EXCEPT !.artifact = Sources(Blob, {}), !.gate = Sources(Infra, Fail)],
      [Right EXCEPT !.builder.max_tokens = 11],
      [Right EXCEPT !.builder.kind = "messages", !.artifact = Sources(Blob, OneFile)],
      [Right EXCEPT !.builder.max_source = 1],
      [Right EXCEPT !.builder.prompt = "q"],
      [Right EXCEPT !.committed.prompt = "q"],
      [Right EXCEPT !.builder.model = "n"],
      [Right EXCEPT !.builder.model = "n", !.model_id = None],
      [Right EXCEPT !.throwaway = OneFile, !.throwaway_digest = OneFile],
      [Right EXCEPT !.throwaway = Blob, !.throwaway_digest = Blob] }

(* A bound: at most one review of a mint and its replay goes unmeasured    *)
(* that need not.                                                          *)
Unforced(rs) ==
    {r \in rs : /\ r.stage = "llm_review" /\ ~Measured(r)
               /\ \E k \in DOMAIN Cells :
                      Cells[k].id = r.id /\ build_request(SourceOf(Cells[k])) # NoWire}

OneError == Cardinality(Unforced(Range(receipts))) + Cardinality(Unforced(minted)) <= 1
=============================================================================
