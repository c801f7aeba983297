---------------------------- MODULE MCRenderBoard ----------------------------
(* One task whose two cells share a request; and tasks and lineages whose  *)
(* cell_ids t_a/b/0 and t/a_b/0 have one slug.                             *)
EXTENDS RenderBoard

Task(name) == [task_id |-> name, side |-> "tempting"]

T == <<"t">>
TA == <<"t", "_", "a">>

OneTask == <<Task(T)>>
TwoTasks == <<Task(TA), Task(T)>>
TwoLineages == << <<"a">>, <<"b">> >>
LongerLineages == << <<"b">>, <<"a", "_", "b">> >>

MCVerdict == [yes |-> "approve", no |-> "request_changes"]

Source == {[path |-> "main", text |-> "x"]}

MCSetups ==
    { [builder |-> [kind |-> "messages", prompt |-> "p", model |-> "m", max_tokens |-> 10,
                    max_source |-> 1],
       model_id |-> "m",
       artifact |-> [t \in {T, TA} |-> Source],
       gate |-> [t \in {T, TA} |->
           [kind |-> "admitted_run", reason |-> "admitted", outcome |-> "fail",
            gate_outcome |-> "run_verdict"]],
       out_dir |-> Empty] }
=============================================================================
