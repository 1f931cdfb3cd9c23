----------------------------- MODULE MCFieldScene -----------------------------
(* FieldScene with two things to show and lists that grow, shrink and reorder. *)
EXTENDS FieldScene

MCLists == [blue   |-> {<<>>, <<1>>, <<2, 1>>},
            yellow |-> {<<>>, <<2>>},
            balls  |-> {<<>>, <<1, 2>>}]
=============================================================================
