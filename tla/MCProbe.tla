------------------------------- MODULE MCProbe -------------------------------
(* Three addresses of which two are quick controls, a tolerance of two     *)
(* failures, and room for fewer facts than a talkative monitor has.        *)
EXTENDS Probe, TLC

MCTargets ==
  {[supported |-> TRUE, mccs |-> TRUE, profile |-> {1}],
   [supported |-> FALSE, mccs |-> FALSE, profile |-> None]}

MCDeclarations == {(1 :> {} @@ 2 :> {0})}
MCQuickControls == <<1, 2>>
=============================================================================
