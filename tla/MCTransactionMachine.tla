------------------------ MODULE MCTransactionMachine ------------------------
(* Small plans for TransactionMachine: every operation kind, alone and in   *)
(* the orders the planner emits, and the plan without operations.           *)
EXTENDS TransactionMachine

Flat(kinds) == [kinds |-> kinds, inside |-> {}]

MCPlans ==
  {Flat(<<>>)}
    \cup {Flat(<<k>>) : k \in Kinds}
    \cup {Flat(<<k, l>>) : k, l \in {"CreateFile", "ReplaceFile", "DeleteFile", "CreateTree"}}
    \cup {[kinds |-> <<"ReplaceFile", "DeleteFile", "RemoveEmptyDirectory">>,
           inside |-> {<<2, 3>>}]}
=============================================================================
