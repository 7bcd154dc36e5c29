-------------------------- MODULE MccsCapabilities --------------------------
(***************************************************************************)
(* The retrieval and the parser together: a monitor holds a text, what the *)
(* parser accepts of it decides when a retrieval publishes.  The grammar   *)
(* is stated once more, by what stands next to what, and the parser is     *)
(* compared with it on every text that an error of one character makes of  *)
(* a monitor's.                                                            *)
(***************************************************************************)
EXTENDS MccsRetrieval, MccsParser

(* A monitor's text: its characters, and the beginnings of it that are     *)
(* texts themselves.                                                       *)
TextOf(chars, wholes) == [length |-> Len(chars), chars |-> chars, wholes |-> wholes]

-----------------------------------------------------------------------------
(* The grammar, read off the nesting of each position.                     *)

Wrapped(t) == t[FirstChar(t)] = "("

(* Where the sections are: in the one pair of parentheses that may enclose *)
(* the text.                                                               *)
Top(t) == IF Wrapped(t) THEN FirstChar(t)+1..LastChar(t)-1 ELSE FirstChar(t)..LastChar(t)

(* The nesting at which a character stands; sections stand at 0.           *)
Level(t, i) == Depth(t)[i] - (IF t[i] = "(" THEN 1 ELSE 0) - (IF Wrapped(t) THEN 1 ELSE 0)

Positions(t, level) == {i \in Top(t) : Level(t, i) = level}
IsAt(t, i, chars) == i \in 1..Len(t) /\ t[i] \in chars
NextSolid(t, i) == Past(t, i + 1, Len(t), Spaces)
LastSolid(t, i) == LET S == {j \in 1..i-1 : t[j] \notin Spaces}
                   IN IF S = {} THEN 0 ELSE CHOOSE j \in S : \A k \in S : k <= j

(* The names of the sections, and their parentheses.                       *)
SectionsAreNamed(t) ==
  \A i \in Positions(t, 0) :
    /\ t[i] \in Spaces \cup IdentifierChar \cup {"(", ")"}
    /\ t[i] = "(" => IsAt(t, LastSolid(t, i), IdentifierChar)
    /\ t[i] \in IdentifierChar =>
         /\ IsAt(t, i - 1, IdentifierChar) \/ t[i] \in IdentifierStart
         /\ IsAt(t, i + 1, IdentifierChar) \/ IsAt(t, NextSolid(t, i), {"("})

(* The positions inside a section whose whole name is vcp.                 *)
VcpPositions(t) ==
  UNION {i+1..Closing(t, i)-1 : i \in
    {j \in Positions(t, 0) :
       /\ t[j] = "(" /\ IsAt(t, LastSolid(t, j), {"v"})
       /\ ~IsAt(t, LastSolid(t, j) - 1, IdentifierChar)}}

(* Two digits to a byte, a space or a list after a code, nothing but       *)
(* bytes in a list, and no empty list.                                     *)
VcpIsWellFormed(t) ==
  \A i \in VcpPositions(t) :
    /\ t[i] \in HexDigits \cup Spaces \cup (IF Level(t, i) = 1 THEN {"(", ")"} ELSE {})
    /\ t[i] \in HexDigits => IsAt(t, i - 1, HexDigits) # IsAt(t, i + 1, HexDigits)
    /\ t[i] = "(" => IsAt(t, i - 1, HexDigits) /\ ~IsAt(t, NextSolid(t, i), {")"})
    /\ t[i] = ")" => IsAt(t, i + 1, Spaces \cup {")"})

(* The codes a text declares, each with its list of values in order: which *)
(* byte stands at which place.                                             *)
BytesAt(t, S) == {i \in S : {t[i], t[i+1]} \subseteq HexDigits}
CodePositions(t) == BytesAt(t, {i \in VcpPositions(t) : Level(t, i) = 1})
ListAt(t, i) ==
  IF IsAt(t, i + 2, {"("}) THEN BytesAt(t, i+3..Closing(t, i + 2) - 1) ELSE {}
ListOf(t, i) ==
  {<<Cardinality({k \in ListAt(t, i) : k <= j}), Byte(t, j)>> : j \in ListAt(t, i)}
Declared(t) == {<<Byte(t, i), ListOf(t, i)>> : i \in CodePositions(t)}

CodesAreDistinct(t) ==
  \A i, j \in CodePositions(t) : Byte(t, i) = Byte(t, j) => i = j
AreCounted(t) ==
  /\ Cardinality(CodePositions(t)) <= MaxFeatures
  /\ Cardinality(BytesAt(t, {i \in VcpPositions(t) : Level(t, i) = 2})) <= MaxEnumValues

IsText(t) ==
  /\ t # <<>> /\ Len(t) <= MaxTextBytes
  /\ \A i \in 1..Len(t) : t[i] # "nul" /\ Depth(t)[i] \in 0..MaxNesting
  /\ Depth(t)[Len(t)] = 0
  /\ \E i \in 1..Len(t) : t[i] \notin Spaces
  /\ Wrapped(t) => Closing(t, FirstChar(t)) = LastChar(t)
  /\ SectionsAreNamed(t) /\ VcpIsWellFormed(t)
  /\ CodesAreDistinct(t) /\ AreCounted(t)

ASSUME CharsAssumption ==
  \A x \in Texts :
    /\ x.chars \in Seq(Alphabet) /\ x.length = Len(x.chars)
    /\ x.wholes = {n \in 1..x.length : IsText(SubSeq(x.chars, 1, n))}

Read(caps) ==
  {<<f.vcp_code, {<<n, EnumValuesOf(caps, f.vcp_code)[n]>> : n \in 1..f.enum_value_count}>> :
     f \in {caps.features[i] : i \in DOMAIN caps.features}}

(* A text with one character lost, altered or added. *)
OneError(t) ==
  {SubSeq(t, 1, i-1) \o s \o SubSeq(t, i + 1, Len(t)) :
     i \in 1..Len(t), s \in {<<>>} \cup {<<c>> : c \in Alphabet}}
  \cup {Append(SubSeq(t, 1, i), c) \o SubSeq(t, i + 1, Len(t)) :
     i \in 0..Len(t), c \in Alphabet}

(* Whether the parser accepts a text, and what it reads from it.           *)
ReadRightly(t) ==
  LET caps == ParseCapabilities(t)
  IN  /\ caps.error = "OK" <=> IsText(t)
      /\ caps.error = "OK" =>
           Read(caps) = Declared(t) /\ \A d \in Declared(t) : HasVcp(caps, d[1])

(* Of a monitor's text, and of every text that one wrong, lost or extra    *)
(* character makes of it, the parser accepts exactly those that are texts  *)
(* of the grammar, and reads from them exactly the codes and the values    *)
(* they declare, whatever sections there are in whatever order.  A         *)
(* retrieval that ends early publishes a beginning only if it is a text.   *)
ParserFollowsGrammar ==
  calls = 0 =>
    /\ text.wholes = {n \in 1..text.length : Accepts(SubSeq(text.chars, 1, n))}
    /\ \A t \in {text.chars} \cup OneError(text.chars) : ReadRightly(t)
=============================================================================
