--------------------------- MODULE MccsRetrieval ---------------------------
(***************************************************************************)
(* The retrieval of a monitor's MCCS capabilities text, fragment by        *)
(* fragment: core/mccs_retrieval.c, the E3 frames of ddc/protocol.c and    *)
(* the exchange of platform/macos/providers/dp/mccs_capabilities.m.        *)
(*                                                                         *)
(* Byte i of the text is the number i, so that a collected text shows      *)
(* which bytes of the monitor's text it is made of, and in which order.    *)
(***************************************************************************)
EXTENDS Integers, Sequences

CONSTANTS
  Texts,         \* [length, wholes]: the prefixes the parser accepts, by length
  Manners,       \* how a monitor answers
  FragmentMax,   \* RSS_DDC_MCCS_FRAGMENT_TEXT_MAX_BYTES
  MaxBytes,      \* RSS_DDC_MCCS_CAPABILITIES_MAX_BYTES
  MaxRequests,   \* RSS_DDC_CAPABILITIES_MAX_REQUESTS
  OffsetMax,     \* UINT16_MAX
  MaxCalls,      \* bound on the calls
  None

ASSUME TextAssumption ==
  \A t \in Texts : t.length \in Nat /\ t.wholes \subseteq 1..t.length
ASSUME MannerAssumption == Manners \subseteq {"exact", "short", "erratic"}
ASSUME LimitAssumption ==
  /\ FragmentMax \in Nat \ {0} /\ MaxBytes \in Nat
  /\ MaxRequests \in Nat \ {0} /\ MaxCalls \in Nat
  /\ OffsetMax \in Nat /\ MaxBytes <= OffsetMax
(* A request for every full fragment, and one for the terminator. *)
ASSUME RequestAssumption == MaxBytes <= (MaxRequests - 1) * FragmentMax

VARIABLES
  text, manner,  \* what the monitor holds and how it answers
  sent,          \* the fragments it has sent so far: one may arrive again
  pc, calls,
  asked,         \* F3 requests sent in this call, up to one past the limit
  request_count, next_offset, bytes, complete,   \* RSSDDCMCCSCollector
  ret,           \* what the call returned
  capabilities   \* the caller's structure

monitor == <<text, manner, sent>>
collector == <<request_count, next_offset, bytes, complete>>
vars == <<monitor, pc, calls, asked, collector, ret, capabilities>>

Fragments == [offset : 0..OffsetMax, length : 0..FragmentMax]

TransportErrors == {"SERVICE_CONSTRUCTION", "WRITE", "READ", "SYSTEM"}
FrameErrors == {"CAPABILITIES_MALFORMED", "REPLY_CHECKSUM"}
Codes == TransportErrors \cup FrameErrors \cup
  {"OK", "ARGUMENT", "CAPABILITIES_TOO_LARGE", "CAPABILITIES_REQUEST_LIMIT",
   "CAPABILITIES_OFFSET_OVERFLOW"}
ASSUME NoneAssumption == None \notin Codes /\ None \notin Seq(Nat)

TypeOK ==
  /\ text \in Texts /\ manner \in Manners /\ sent \subseteq Fragments
  /\ pc \in {"idle", "loop", "reply", "parse", "returned"}
  /\ calls \in 0..MaxCalls /\ asked \in 0..MaxRequests + 1
  /\ request_count \in Nat /\ next_offset \in 0..OffsetMax
  /\ bytes \in Seq(Nat) /\ complete \in BOOLEAN
  /\ ret \in Codes \cup {None}
  /\ capabilities \in Seq(Nat) \cup {None}

-----------------------------------------------------------------------------
(* The monitor, and the IOAVService exchange with it. *)

Remaining(offset) == IF offset >= text.length THEN 0
                     ELSE IF text.length - offset < FragmentMax
                     THEN text.length - offset ELSE FragmentMax

(* An exact monitor fills its fragments, a short one may send less, an     *)
(* erratic one may end its text early or send an old fragment once more.   *)
Answers(offset) ==
  LET full == Remaining(offset)
      lengths == CASE manner = "exact" -> {full}
                   [] manner = "short" -> IF full = 0 THEN {0} ELSE 1..full
                   [] manner = "erratic" -> 0..full
  IN  {[offset |-> offset, length |-> n] : n \in lengths}
        \cup (IF manner = "erratic" THEN sent ELSE {})

Payload(fragment) == [i \in 1..fragment.length |-> fragment.offset + i]

-----------------------------------------------------------------------------
(* rss_ddc_retrieve_mccs_capabilities *)

Return(code) == pc' = "returned" /\ ret' = code

Begin ==
  /\ pc \in {"idle", "returned"} /\ calls < MaxCalls
  /\ calls' = calls + 1 /\ asked' = 0
  /\ request_count' = 0 /\ next_offset' = 0 /\ bytes' = <<>>
  /\ complete' = FALSE
  /\ \/ pc' = "loop" /\ ret' = None
     \/ Return("SYSTEM")
  /\ UNCHANGED <<monitor, capabilities>>

CountRequest == IF asked > MaxRequests THEN asked ELSE asked + 1

(* Mutant: the terminator's request is not counted for. *)
MutAsk ==
  /\ pc = "loop"
  /\ IF request_count + 1 >= MaxRequests
     THEN Return("CAPABILITIES_REQUEST_LIMIT") /\ UNCHANGED asked
     ELSE pc' = "reply" /\ asked' = CountRequest /\ UNCHANGED ret
  /\ UNCHANGED <<monitor, calls, collector, capabilities>>

Ask ==
  /\ pc = "loop"
  /\ IF request_count >= MaxRequests
     THEN Return("CAPABILITIES_REQUEST_LIMIT") /\ UNCHANGED asked
     ELSE pc' = "reply" /\ asked' = CountRequest /\ UNCHANGED ret
  /\ UNCHANGED <<monitor, calls, collector, capabilities>>

(* Mutant: a reply that is no fragment is asked for again. *)
MutExchangeFails ==
  /\ pc = "reply"
  /\ \/ pc' = "loop" /\ UNCHANGED ret
     \/ \E code \in TransportErrors : Return(code)
  /\ UNCHANGED <<monitor, calls, asked, collector, capabilities>>

(* Nothing in this call is tried twice. *)
ExchangeFails ==
  /\ pc = "reply"
  /\ \E code \in TransportErrors \cup FrameErrors : Return(code)
  /\ UNCHANGED <<monitor, calls, asked, collector, capabilities>>

(* Mutant: a fragment is taken for the one that was asked for. *)
MutRefusal(fragment) ==
  IF fragment.length = 0 THEN None
  ELSE IF fragment.length > MaxBytes - Len(bytes) THEN "CAPABILITIES_TOO_LARGE"
  ELSE None

(* Mutant: the bound is tested against what was collected before. *)
MutRefusalTooLate(fragment) ==
  IF fragment.offset # next_offset THEN "CAPABILITIES_MALFORMED"
  ELSE IF Len(bytes) > MaxBytes THEN "CAPABILITIES_TOO_LARGE"
  ELSE None

(* Why collector_append does not take a fragment. *)
Refusal(fragment) ==
  IF fragment.offset # next_offset THEN "CAPABILITIES_MALFORMED"
  ELSE IF fragment.length = 0 THEN None
  ELSE IF fragment.length > MaxBytes - Len(bytes) THEN "CAPABILITIES_TOO_LARGE"
  ELSE IF next_offset + fragment.length > OffsetMax
  THEN "CAPABILITIES_OFFSET_OVERFLOW"
  ELSE None

Take(fragment) ==
  /\ request_count' = request_count + 1
  /\ complete' = (fragment.length = 0)
  /\ bytes' = bytes \o Payload(fragment)
  /\ next_offset' = next_offset + fragment.length
  /\ pc' = IF fragment.length = 0 THEN "parse" ELSE "loop"

(* An offset is refused before the fragment counts as a request.           *)
Refuse(fragment) ==
  /\ Return(Refusal(fragment))
  /\ request_count' = request_count + (IF fragment.offset = next_offset THEN 1 ELSE 0)
  /\ UNCHANGED <<next_offset, bytes, complete>>

Receive ==
  /\ pc = "reply"
  /\ \E fragment \in Answers(next_offset) :
       /\ sent' = sent \cup {fragment}
       /\ IF Refusal(fragment) = None
          THEN Take(fragment) /\ UNCHANGED ret
          ELSE Refuse(fragment)
  /\ UNCHANGED <<text, manner, calls, asked, capabilities>>

(* rss_ddc_parse_mccs_capabilities, by the prefixes it accepts. *)
Parse ==
  /\ pc = "parse"
  /\ \/ /\ Len(bytes) \in text.wholes
        /\ Return("OK") /\ capabilities' = bytes
     \/ /\ \E code \in {"SYSTEM"}
                \cup (IF Len(bytes) = 0 THEN {"ARGUMENT"}
                      ELSE IF Len(bytes) \in text.wholes THEN {}
                      ELSE {"CAPABILITIES_MALFORMED", "CAPABILITIES_TOO_LARGE"}) :
             Return(code)
        /\ UNCHANGED capabilities
  /\ UNCHANGED <<monitor, calls, asked, collector>>

Init ==
  /\ text \in Texts /\ manner \in Manners /\ sent = {}
  /\ pc = "idle" /\ calls = 0 /\ asked = 0
  /\ request_count = 0 /\ next_offset = 0 /\ bytes = <<>> /\ complete = FALSE
  /\ ret = None /\ capabilities = None

Next == Begin \/ Ask \/ ExchangeFails \/ Receive \/ Parse

Spec == Init /\ [][Next]_vars

(* The library's own thread goes on; the monitor may fail every exchange.  *)
FairSpec == Spec /\ WF_vars(Ask \/ ExchangeFails \/ Receive \/ Parse)
-----------------------------------------------------------------------------
(* Properties. *)

(* However fragments are cut short, repeated or delayed, the collected text *)
(* is an unbroken beginning of the monitor's own: nothing skipped, nothing  *)
(* twice, and what the next request asks for is what comes next.            *)
CollectedInOrder ==
  /\ next_offset = Len(bytes)
  /\ bytes = [i \in 1..next_offset |-> i]

(* No monitor makes the library collect more than its bound or ask more    *)
(* often, and the request limit is reported only after that many requests. *)
RetrievalIsBounded ==
  /\ Len(bytes) <= MaxBytes /\ asked <= MaxRequests
  /\ ret = "CAPABILITIES_REQUEST_LIMIT" => asked = MaxRequests
  /\ ret # "CAPABILITIES_OFFSET_OVERFLOW"

(* The caller's structure holds a text that the parser accepted and the    *)
(* monitor ended itself; of a text in one pair of parentheses, all of it.  *)
NothingPartialIsPublished ==
  /\ ret = "OK" => complete /\ capabilities = bytes
  /\ capabilities # None =>
       /\ Len(capabilities) \in text.wholes
       /\ capabilities = [i \in 1..Len(capabilities) |-> i]

(* A monitor that fills its fragments can have a text of the full size: no *)
(* limit stands in its way, and what arrives is all of it.                 *)
FullSizeIsRetrievable ==
  manner = "exact" /\ text.length <= MaxBytes =>
    /\ complete => Len(bytes) = text.length
    /\ complete \/ ret \notin {"CAPABILITIES_REQUEST_LIMIT", "CAPABILITIES_TOO_LARGE"}

(* A call ends, whatever the monitor sends. *)
RetrievalEnds == pc \in {"loop", "reply", "parse"} ~> pc = "returned"
=============================================================================
