----------------------- MODULE MCBootstrapTransaction -----------------------
(* Small plans for BootstrapTransaction.                                    *)
EXTENDS BootstrapTransaction, TLC

CONSTANTS p1, p2

Flat(kinds) == [kinds |-> kinds, inside |-> {}]

RemoveDirectory == [kinds |-> <<"DeleteFile", "RemoveEmptyDirectory">>, inside |-> {<<1, 2>>}]

\* Every kind, in the order the planner emits them.
MCPlans ==
  {Flat(<<"CreateFile", "ReplaceFile">>),
   Flat(<<"ReplaceFile", "CreateTree">>),
   RemoveDirectory,
   [kinds |-> <<"ReplaceFile", "DeleteFile", "RemoveEmptyDirectory">>,
    inside |-> {<<2, 3>>}]}

CreateOnly == {Flat(<<"CreateFile">>)}
ReplaceOnly == {Flat(<<"ReplaceFile">>)}
RemoveOnly == {RemoveDirectory}

Pair == {p1, p2}
One == {p1}
Symmetry == Permutations(Pair)
=============================================================================
