------------------------ MODULE MCCoherentObservation ------------------------
(* A planned path that changes, one that goes (and is back after a rollback), *)
(* and one of the adopter's.                                                  *)
EXTENDS CoherentObservation

MCPlans == {[kinds |-> <<"ReplaceFile", "DeleteFile">>, inside |-> {}]}
=============================================================================
