----------------------------- MODULE MccsParser -----------------------------
(***************************************************************************)
(* The grammar of an MCCS capabilities text and what is read from it: the  *)
(* parser of core/mccs_capabilities.c, a pure function, and a definition   *)
(* of what a text declares that reads no further than one character's      *)
(* neighbours and nesting.                                                 *)
(*                                                                         *)
(* A text is a sequence of characters.  "v" stands for the three letters   *)
(* of vcp, "x" for any other letter that is no hex digit, "-" for the      *)
(* characters an identifier may go on with, and "nul" for a NUL byte.      *)
(***************************************************************************)
EXTENDS Integers, Sequences, FiniteSets

CONSTANTS
  MaxTextBytes,   \* RSS_DDC_MCCS_CAPABILITIES_MAX_BYTES
  MaxNesting,     \* RSS_DDC_MCCS_CAPABILITIES_MAX_NESTING
  MaxFeatures,    \* RSS_DDC_MCCS_CAPABILITIES_MAX_FEATURES
  MaxEnumValues   \* RSS_DDC_MCCS_CAPABILITIES_MAX_ENUM_VALUES

ASSUME ParserAssumption ==
  MaxTextBytes \in Nat /\ MaxNesting \in Nat /\ MaxFeatures \in Nat /\ MaxEnumValues \in Nat

HexDigits == {"0", "1", "A", "a"}
Hex == [c \in HexDigits |-> IF c = "0" THEN 0 ELSE IF c = "1" THEN 1 ELSE 10]
Spaces == {" "}
IdentifierStart == {"A", "a", "v", "x"}
IdentifierChar == IdentifierStart \cup {"0", "1", "-"}
Alphabet == HexDigits \cup IdentifierChar \cup Spaces \cup {"(", ")", "nul"}

Least(S) == CHOOSE i \in S : \A j \in S : i <= j

(* The first position from i on, up to the end of a range, that is not of  *)
(* these characters.                                                       *)
Past(t, i, end, chars) == Least({j \in i..end+1 : j <= end => t[j] \notin chars})

Depth(t) ==
  [i \in 0..Len(t) |-> Cardinality({j \in 1..i : t[j] = "("})
                       - Cardinality({j \in 1..i : t[j] = ")"})]

(* validate_balanced *)
Balance(t) ==
  LET d == Depth(t)
      wrong == {i \in 1..Len(t) : t[i] = "nul" \/ d[i] < 0 \/ d[i] > MaxNesting}
  IN  IF wrong # {}
      THEN IF t[Least(wrong)] = "(" THEN "CAPABILITIES_TOO_LARGE"
           ELSE "CAPABILITIES_MALFORMED"
      ELSE IF d[Len(t)] = 0 THEN "OK" ELSE "CAPABILITIES_MALFORMED"

(* matching_parenthesis, of a text whose parentheses balance. *)
Closing(t, open) ==
  LET d == Depth(t) IN Least({i \in open..Len(t) : d[i] = d[open] - 1})

-----------------------------------------------------------------------------
(* What has been read so far, RSSDDCMCCSCapabilities and the error, and    *)
(* where the reading stands.                                               *)

Bytes == 0..255
Features == [vcp_code : Bytes, enum_value_offset : Nat, enum_value_count : Nat]
Readings == [at : Nat, error : {"OK", "ARGUMENT", "CAPABILITIES_MALFORMED",
                                "CAPABILITIES_TOO_LARGE"},
             features : Seq(Features), enum_values : Seq(Bytes)]

Nothing == [at |-> 1, error |-> "OK", features |-> <<>>, enum_values |-> <<>>]
Fails(s, error) == [s EXCEPT !.error = error]
Malformed(s) == Fails(s, "CAPABILITIES_MALFORMED")
At(s, i) == [s EXCEPT !.at = i]

(* parse_exact_hex_byte: two digits, and no third. *)
IsByte(t, i, end) == Past(t, i, end, HexDigits) = i + 2
Byte(t, i) == 16 * Hex[t[i]] + Hex[t[i+1]]

SpaceOrEnd(t, i, end) == i <= end => t[i] \in Spaces
Opens(t, i, end) == i <= end /\ t[i] = "("

(* The loop of parse_enum_values, once. *)
ValueStep(t, end, s) ==
  LET i == Past(t, s.at, end, Spaces)
      added == [s EXCEPT !.at = i + 2, !.enum_values = Append(@, Byte(t, i))]
  IN  IF s.error # "OK" THEN s
      ELSE IF i > end THEN At(s, i)
      ELSE IF ~IsByte(t, i, end) THEN Malformed(s)
      ELSE IF Len(s.enum_values) = MaxEnumValues THEN Fails(s, "CAPABILITIES_TOO_LARGE")
      ELSE IF ~SpaceOrEnd(t, i + 2, end) THEN Malformed(added)
      ELSE added

(* Each step of a loop reads at least one character, or is the last. *)
ValueLoop(t, end, s) ==
  LET loop[n \in 0..Len(t)] == IF n = 0 THEN s ELSE ValueStep(t, end, loop[n-1])
  IN  loop[Len(t)]

(* A list has a value. *)
Listed(s, read) ==
  IF read.error = "OK" /\ Len(read.enum_values) = Len(s.enum_values)
  THEN Malformed(read) ELSE read

(* parse_enum_values *)
EnumValues(t, from, end, s) == Listed(s, ValueLoop(t, end, At(s, from)))

(* Mutant: a code may be declared twice. *)
MutAppendFeature(s, feature) ==
  IF Len(s.features) = MaxFeatures THEN Fails(s, "CAPABILITIES_TOO_LARGE")
  ELSE [s EXCEPT !.features = Append(@, feature)]

(* append_feature *)
AppendFeature(s, feature) ==
  IF \E i \in DOMAIN s.features : s.features[i].vcp_code = feature.vcp_code
  THEN Malformed(s)
  ELSE IF Len(s.features) = MaxFeatures THEN Fails(s, "CAPABILITIES_TOO_LARGE")
  ELSE [s EXCEPT !.features = Append(@, feature)]

(* The feature of a code and of the values read for it. *)
AddCode(code, offset, read) ==
  IF read.error # "OK" THEN read
  ELSE AppendFeature(read, [vcp_code |-> code, enum_value_offset |-> offset,
                            enum_value_count |-> Len(read.enum_values) - offset])

(* A space or the end follows a code and its list. *)
GoOn(t, end, next, read) ==
  IF read.error # "OK" THEN read
  ELSE IF ~SpaceOrEnd(t, next, end) THEN Malformed(read) ELSE At(read, next)

(* The loop of parse_vcp_section, once: a code and its list, if any. *)
CodeStep(t, end, s) ==
  LET i == Past(t, s.at, end, Spaces)
      offset == Len(s.enum_values)
  IN  IF s.error # "OK" THEN s
      ELSE IF i > end THEN At(s, i)
      ELSE IF ~IsByte(t, i, end) THEN Malformed(s)
      ELSE IF ~Opens(t, i + 2, end)
      THEN GoOn(t, end, i + 2, AddCode(Byte(t, i), offset, s))
      ELSE GoOn(t, end, Closing(t, i + 2) + 1,
             AddCode(Byte(t, i), offset, EnumValues(t, i + 3, Closing(t, i + 2) - 1, s)))

(* parse_vcp_section *)
VcpSection(t, from, end, s) ==
  LET loop[n \in 0..Len(t)] ==
        IF n = 0 THEN At(s, from) ELSE CodeStep(t, end, loop[n-1])
  IN  loop[Len(t)]

(* After a section the next may follow at once. *)
Leave(i, read) == IF read.error # "OK" THEN read ELSE At(read, i)

(* The loop of parse_top_level_sections, once: every section is named,     *)
(* only vcp is read.                                                       *)
SectionStep(t, end, s) ==
  LET i == Past(t, s.at, end, Spaces)
      name_end == Past(t, i, end, IdentifierChar)
      open == Past(t, name_end, end, Spaces)
      is_vcp == name_end = i + 1 /\ t[i] = "v"
  IN  IF s.error # "OK" THEN s
      ELSE IF i > end THEN At(s, i)
      ELSE IF t[i] \notin IdentifierStart \/ ~Opens(t, open, end) THEN Malformed(s)
      ELSE IF ~is_vcp THEN At(s, Closing(t, open) + 1)
      ELSE Leave(Closing(t, open) + 1,
                 VcpSection(t, open + 1, Closing(t, open) - 1, s))

(* parse_top_level_sections *)
Sections(t, from, end, s) ==
  LET loop[n \in 0..Len(t)] ==
        IF n = 0 THEN At(s, from) ELSE SectionStep(t, end, loop[n-1])
  IN  loop[Len(t)]

FirstChar(t) == Past(t, 1, Len(t), Spaces)
LastChar(t) ==
  CHOOSE i \in 1..Len(t) : t[i] \notin Spaces /\ \A j \in i+1..Len(t) : t[j] \in Spaces

(* rss_ddc_parse_mccs_capabilities; one pair of parentheses may enclose    *)
(* the whole text, and then nothing follows it.                            *)
ParseCapabilities(t) ==
  LET first == FirstChar(t)
      last == LastChar(t)
  IN  IF t = <<>> THEN Fails(Nothing, "ARGUMENT")
      ELSE IF Len(t) > MaxTextBytes THEN Fails(Nothing, "CAPABILITIES_TOO_LARGE")
      ELSE IF Balance(t) # "OK" THEN Fails(Nothing, Balance(t))
      ELSE IF first > Len(t) THEN Malformed(Nothing)
      ELSE IF t[first] # "(" THEN Sections(t, first, last, Nothing)
      ELSE IF Closing(t, first) # last THEN Malformed(Nothing)
      ELSE Sections(t, first + 1, last - 1, Nothing)

Accepts(t) == ParseCapabilities(t).error = "OK"

(* rss_ddc_mccs_capabilities_has_vcp, rss_ddc_mccs_capabilities_enum_values *)
HasVcp(caps, code) == \E i \in DOMAIN caps.features : caps.features[i].vcp_code = code
EnumValuesOf(caps, code) ==
  LET i == Least({j \in DOMAIN caps.features : caps.features[j].vcp_code = code})
      f == caps.features[i]
  IN  SubSeq(caps.enum_values, f.enum_value_offset + 1,
             f.enum_value_offset + f.enum_value_count)
=============================================================================
