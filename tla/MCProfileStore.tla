--------------------------- MODULE MCProfileStore ---------------------------
(* Profiles for a model in general and for one serial number of it, packs  *)
(* that add to each other, outrank each other or disagree, packs with one  *)
(* fault each, and stores that hold more than a file may.                  *)
EXTENDS ProfileStore, TLC

Identity(serial) == [required |-> "lg", optional |-> ("serial" :> serial)]

Control(id, address, writable, confidence) ==
  [id |-> id, method |-> "VCP", address |-> address, readable |-> TRUE,
   writable |-> writable, confidence |-> confidence,
   enums |-> IF id = "PICTURE_MODE" THEN <<[id |-> "vivid", value |-> 49]>> ELSE <<>>]

Profile(serial, confidence, controls) ==
  [identity |-> Identity(serial), confidence |-> confidence, controls |-> controls]

Pack(profiles) ==
  [whole |-> TRUE, schema |-> 1, supported |-> TRUE, profiles |-> profiles]

Picture(writable, confidence) == Control("PICTURE_MODE", 21, writable, confidence)
Bright(address, confidence) == Control("BRIGHTNESS", address, FALSE, confidence)

MCBuiltin == Pack(<<Profile(None, 5, <<Picture(TRUE, 5)>>)>>)

(* One pack observed less of the model and more of one monitor of it, one  *)
(* says otherwise of the model, and one lists two monitors.                *)
Observed == Pack(<<Profile(None, 4, <<Bright(16, 3), Picture(FALSE, 4)>>)>>)
Specific == Pack(<<Profile("A", 5, <<Bright(17, 3), Picture(FALSE, 5)>>)>>)
Otherwise == Pack(<<Profile(None, 3, <<Bright(18, 3)>>),
                    Profile("B", 5, <<Control("INPUT", 96, TRUE, 5)>>)>>)
Writes == Pack(<<Profile("A", 5, <<Picture(TRUE, 5)>>)>>)

(* A write below what was validated, an input that is not at its address,  *)
(* a control twice, an identity twice, a text that breaks off, a schema of *)
(* the future, and one profile too many.                                   *)
Faulty ==
  {Pack(<<Profile(None, 4, <<Picture(TRUE, 4)>>)>>),
   Pack(<<Profile(None, 5, <<Control("INPUT", 97, FALSE, 5)>>)>>),
   Pack(<<Profile(None, 3, <<Bright(16, 3), Bright(17, 3)>>)>>),
   Pack(<<Profile(None, 3, <<Bright(16, 3)>>), Profile(None, 3, <<Bright(16, 3)>>)>>),
   [Observed EXCEPT !.whole = FALSE], [Observed EXCEPT !.schema = 2],
   Pack([i \in 1..4 |-> Profile(i, 3, <<Bright(16, 3)>>)])}

MCPacks == {Observed, Specific, Otherwise, Writes} \cup Faulty
MCFirstFiles == {None, Observed}
MCDisplays == {Identity("A"), Identity(None)}

MCSymmetry == Permutations(Procs)
=============================================================================
