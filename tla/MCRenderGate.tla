---------------------------- MODULE MCRenderGate ----------------------------
(* Manifests: plans of up to two tasks, three lineages and two replicates; *)
(* every sublist of the cells of two lineages, alone or with one cell too  *)
(* many or out of order.  A board is filled when it has few cells.         *)
EXTENDS RenderGate

CONSTANTS e1, e2

Task(t, s) == [task_id |-> t, side |-> s]

T == <<"t">>
U == <<"u">>
TA == <<"t", "/", "a">>
A == <<"a">>
B == <<"b">>
C == <<"c">>
AB == <<"a", "/", "b">>

(* Two tasks; one, alone and twice; one without a name; two that the       *)
(* lineages b and a/b do not tell apart.                                   *)
MCTaskLists ==
    {<<Task(T, "tempting")>>, <<Task(T, "tempting"), Task(U, "clean")>>,
     <<Task(T, "tempting"), Task(T, "clean")>>, <<Task(<< >>, "clean")>>,
     <<Task(T, "tempting"), Task(TA, "clean")>>}

MCLineageLists ==
    {<<A>>, <<A, A>>, <<A, B>>, <<A, B, C>>, <<A, << >> >>, <<B, AB>>}

Usual == plan_cells(<<Task(T, "tempting"), Task(U, "clean")>>, <<A, B>>, 2)

(* A repeated run id, a repeated cell - under its cell_id and under        *)
(* another - the wrong side, a self-review, no reviewer, a replicate out   *)
(* of range.                                                               *)
Again == Cell(9, T, A, "tempting", 1, B)

Odd ==
    {Cell(2, T, A, "tempting", 0, B), Again,
     [Again EXCEPT !.id.cell_id.rep = 7],
     Cell(9, T, A, "clean", 0, B), Cell(9, T, A, "tempting", 0, A),
     Cell(9, T, A, "tempting", 0, << >>), Cell(9, T, A, "tempting", 2, B)}

MCCellLists ==
    LET InSet(S) == SelectSeq(Usual, LAMBDA c : c \in S)
        lists == {InSet(S) : S \in SUBSET {Usual[k] : k \in DOMAIN Usual}}
    IN  lists \cup {<<c>> \o l : c \in Odd, l \in lists}

(* A board of one cell. *)
OneTask == {<<Task(T, "tempting")>>}
OneCell == {<<Cell(1, T, A, "tempting", 0, B)>>}
=============================================================================
