------------------------ MODULE MCValidationRunners ------------------------
(* A monitor of three brightness values that may report no range, one      *)
(* dropped value, one change by somebody else, and what a display must be  *)
(* for the guarded writes, complete or with one thing wrong.               *)
EXTENDS ValidationRunners

Lg == [provider |-> "DCPDP13", gate |-> TRUE, product |-> "lg",
       transport |-> "DCPEXT0", external |-> TRUE]

MCDisplays ==
  {Lg, [Lg EXCEPT !.provider = "PS190", !.gate = FALSE],
   [Lg EXCEPT !.provider = "UNKNOWN", !.gate = FALSE],
   [Lg EXCEPT !.product = "benq"], [Lg EXCEPT !.transport = "DCPEXT1"]}

MCProfiled == <<"lg", "DCPEXT0">>
=============================================================================
