------------------------- MODULE MCMonitorKnowledge -------------------------
(* Facts about one control: two that agree and one that does not, all of   *)
(* one authority, one of a higher, one that is write-only, of a profile;   *)
(* and a fact about another control.                                       *)
EXTENDS MonitorKnowledge, TLC

Fact(id, content, readable, writable, value) ==
  [semantic_id |-> id, content |-> content, readable |-> readable,
   writable |-> writable, write_authorized |-> FALSE, value |-> value]

From(id, class, confidence, evidence) ==
  [source_id |-> id, source |-> class, confidence |-> confidence,
   evidence_id |-> evidence]

MCRoutes ==
  {[fact |-> Fact("input", "x", TRUE, TRUE, "UNSIGNED"), provenance |-> p] :
     p \in {From(1, "BUILTIN", 1, "e"), From(2, "BUILTIN", 1, "e")}}
  \cup {[fact |-> Fact("input", "y", TRUE, FALSE, "UNSIGNED"),
         provenance |-> From(3, "BUILTIN", 1, "e")],
        [fact |-> Fact("input", "y", TRUE, TRUE, "UNSUPPORTED"),
         provenance |-> From(1, "RESEARCH", 2, "e")],
        [fact |-> Fact("power", "x", FALSE, FALSE, "UNKNOWN"),
         provenance |-> From(1, "LOCAL", 3, "e")]}

MCControls ==
  {[semantic_id |-> "input", source_id |-> 2,
    control |-> [content |-> "z", readable |-> FALSE, writable |-> TRUE,
                 write_authorized |-> TRUE, source |-> "BUILTIN", confidence |-> 1]]}

MCSymmetry == Permutations(Objects)
=============================================================================
