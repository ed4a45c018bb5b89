------------------------------ MODULE MCPowerLoss ------------------------------
(* Every plan of up to three operations, of every kind.                       *)
EXTENDS PowerLoss

Flat(kinds) == [kinds |-> kinds, inside |-> {}]

MCPlans == {Flat(kinds) : kinds \in UNION {[1 .. n -> Kinds] : n \in 0 .. 3}}
=============================================================================
