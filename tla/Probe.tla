-------------------------------- MODULE Probe --------------------------------
(***************************************************************************)
(* The Alien Probe: the quick scan of a few known controls and the         *)
(* extended scan of every VCP address, with the counters, the observations *)
(* and the knowledge that one probe keeps of both (core/probe.c).          *)
(***************************************************************************)
EXTENDS Integers, Sequences, FiniteSets

CONSTANTS
  Targets,        \* [supported, mccs, profile]: whom a probe may observe
  Declarations,   \* the MCCS texts: which addresses, with which listed values
  Values,         \* current values, of sixteen bits
  AddressCount,   \* RSS_DDC_PROBE_EXTENDED_ADDRESS_COUNT
  QuickControls,  \* the addresses of quick_controls
  FailureLimit,   \* RSS_DDC_PROBE_EXTENDED_TRANSPORT_FAILURE_LIMIT
  MaxFacts,       \* RSS_DDC_KNOWLEDGE_MAX_ROUTES
  None

Addresses == 0..AddressCount - 1

ASSUME CountAssumption ==
  AddressCount \in Nat \ {0} /\ FailureLimit \in Nat \ {0} /\ MaxFacts \in Nat
ASSUME QuickAssumption == QuickControls \in Seq(Addresses)
ASSUME DeclarationAssumption ==
  \A d \in Declarations : DOMAIN d \subseteq Addresses /\ \A a \in DOMAIN d : d[a] \subseteq 0..255
ASSUME ValueAssumption == Values \subseteq 0..65535

VARIABLES
  target,      \* the probe's target, or None without a probe
  ours,        \* whether a _for_display call made the probe and still runs
  pc, ret,     \* the scan that runs and the last result
  mccs,        \* the declaration the probe holds
  quick,       \* observations
  extended,    \* extended_observations
  shown,       \* what extended_diagnostics.observations points at
  quick_diagnostics, extended_diagnostics,
  failures,    \* consecutive_transport_failures
  at,          \* the number of addresses the scan has dealt with
  knowledge

scan == <<pc, at, failures>>
vars == <<target, ours, scan, ret, mccs, quick, extended, shown,
          quick_diagnostics, extended_diagnostics, knowledge>>

Errors == {"STATUS", "VCP", "MALFORMED", "TRANSPORT"}
Results == {"UNATTEMPTED", "STABLE", "VARIABLE", "PROTOCOL_REPORTED", "MALFORMED",
            "SEMANTIC_MISMATCH", "TRANSPORT_ERROR"}
Knows == {"UNKNOWN", "YES", "NO"}
Interpretations == {"UNKNOWN", "PROTOCOL_VALID", "ADVERTISED", "UNADVERTISED"}
Observations ==
  [vcp : Addresses \cup {0}, category : Results, strict_valid : BOOLEAN,
   current_value : Values \cup {0}, repeat_attempted : BOOLEAN,
   advertised : Knows, profile_known : Knows]
ExtendedObservations ==
  [observation : Observations, interpretation : Interpretations,
   enum_list_present : BOOLEAN, current_in_declared_enum : BOOLEAN]
Diagnostics ==
  [mccs_available : BOOLEAN, requested : Nat, attempted : Nat, valid : Nat,
   stable : Nat, variable : Nat, protocol_reported : Nat, malformed : Nat,
   semantic_mismatch : Nat, transport_error : Nat, advertised : Nat,
   unadvertised : Nat, aborted : BOOLEAN]
Facts == [vcp : Addresses, declared : BOOLEAN, value : Values \cup {None}]

Returns == {"OK", "SYSTEM", "UNSUPPORTED_PROVIDER", "PROFILE_CONFLICT"}

ASSUME NoneAssumption == None \notin [Addresses -> ExtendedObservations] \cup Returns

QuickLength == Len(QuickControls)

TypeOK ==
  /\ target \in Targets \cup {None} /\ ours \in BOOLEAN
  /\ pc \in {"idle", "quick", "extended"} /\ ret \in Returns \cup {None}
  /\ mccs \in Declarations \cup {None}
  /\ quick \in [1..QuickLength -> Observations]
  /\ extended \in [Addresses -> ExtendedObservations] \cup {None}
  /\ shown \in {"none", "current", "freed"}
  /\ quick_diagnostics \in Diagnostics /\ extended_diagnostics \in Diagnostics
  /\ failures \in 0..FailureLimit /\ at \in 0..AddressCount + QuickLength
  /\ \/ knowledge = None
     \/ knowledge \subseteq Facts /\ Cardinality(knowledge) <= MaxFacts

-----------------------------------------------------------------------------
(* One address: two GETs, and what they show. *)

(* A GET's reply: an error, a value (the current value; the maximum differs *)
(* where it differs), or a value for another address.                      *)
Replies == [error : Errors] \cup [error : {"OK"}, matches : BOOLEAN, value : Values]

Failed(reply) == reply.error # "OK"
Matches(reply) == ~Failed(reply) /\ reply.matches

(* Mutant: the address a reply is for is not looked at. *)
MutCategory(first, repeat) ==
  CASE first.error = "STATUS"    -> "PROTOCOL_REPORTED"
    [] first.error = "VCP"       -> "SEMANTIC_MISMATCH"
    [] first.error = "MALFORMED" -> "MALFORMED"
    [] first.error = "TRANSPORT" -> "TRANSPORT_ERROR"
    [] OTHER -> IF repeat = first THEN "STABLE" ELSE "VARIABLE"

Category(first, repeat) ==
  CASE first.error = "STATUS"    -> "PROTOCOL_REPORTED"
    [] first.error = "VCP"       -> "SEMANTIC_MISMATCH"
    [] first.error = "MALFORMED" -> "MALFORMED"
    [] first.error = "TRANSPORT" -> "TRANSPORT_ERROR"
    [] OTHER -> IF ~Matches(first) THEN "SEMANTIC_MISMATCH"
                ELSE IF repeat = first THEN "STABLE" ELSE "VARIABLE"

Advertised(available, vcp) ==
  IF ~available THEN "UNKNOWN"
  ELSE IF mccs # None /\ vcp \in DOMAIN mccs THEN "YES" ELSE "NO"

(* The routes of the target's profile have their controls' own meanings.   *)
ProfileKnown(vcp) ==
  IF target.profile = None THEN "UNKNOWN"
  ELSE IF vcp \in target.profile THEN "YES" ELSE "NO"

Observe(vcp, first, repeat, available) ==
  [vcp |-> vcp, category |-> Category(first, repeat),
   strict_valid |-> Matches(first),
   current_value |-> IF Matches(first) THEN first.value ELSE 0,
   repeat_attempted |-> Matches(first),
   advertised |-> Advertised(available, vcp),
   profile_known |-> ProfileKnown(vcp)]

Unread(vcp) ==
  [vcp |-> vcp, category |-> "UNATTEMPTED", strict_valid |-> FALSE,
   current_value |-> 0, repeat_attempted |-> FALSE, advertised |-> "UNKNOWN",
   profile_known |-> "UNKNOWN"]

Interpretation(o) ==
  IF ~o.strict_valid THEN "UNKNOWN"
  ELSE CASE o.advertised = "YES" -> "ADVERTISED"
         [] o.advertised = "NO" -> "UNADVERTISED"
         [] OTHER -> "PROTOCOL_VALID"

(* A listed value has one byte, and so has what it is compared with.       *)
Extend(o) ==
  LET listed == IF mccs # None /\ o.vcp \in DOMAIN mccs THEN mccs[o.vcp] ELSE {}
  IN  [observation |-> o, interpretation |-> Interpretation(o),
       enum_list_present |-> listed # {},
       current_in_declared_enum |-> o.current_value % 256 \in listed]

Untouched(vcp) ==
  [observation |-> Unread(vcp), interpretation |-> "UNKNOWN",
   enum_list_present |-> FALSE, current_in_declared_enum |-> FALSE]

-----------------------------------------------------------------------------
(* Counters. *)

NoCounts ==
  [mccs_available |-> FALSE, requested |-> 0, attempted |-> 0, valid |-> 0,
   stable |-> 0, variable |-> 0, protocol_reported |-> 0, malformed |-> 0,
   semantic_mismatch |-> 0, transport_error |-> 0, advertised |-> 0,
   unadvertised |-> 0, aborted |-> FALSE]

One(condition) == IF condition THEN 1 ELSE 0

(* The quick scan has no counter of its own for a mismatch.                *)
CountQuick(d, o) ==
  [d EXCEPT
     !.attempted = @ + 1,
     !.valid = @ + One(o.strict_valid),
     !.stable = @ + One(o.category = "STABLE"),
     !.variable = @ + One(o.category = "VARIABLE"),
     !.protocol_reported = @ + One(o.category = "PROTOCOL_REPORTED"),
     !.malformed = @ + One(o.category \in {"MALFORMED", "SEMANTIC_MISMATCH"}),
     !.transport_error = @ + One(o.category = "TRANSPORT_ERROR")]

(* Mutant: a reply that matches is counted as valid and as advertised. *)
MutCountExtended(d, o) ==
  [d EXCEPT
     !.attempted = @ + 1,
     !.valid = @ + One(o.strict_valid),
     !.advertised = @ + One(o.advertised = "YES"),
     !.unadvertised = @ + One(o.strict_valid /\ o.advertised = "NO")]

CountExtended(d, o) ==
  [d EXCEPT
     !.attempted = @ + 1,
     !.valid = @ + One(o.strict_valid),
     !.stable = @ + One(o.category = "STABLE"),
     !.variable = @ + One(o.category = "VARIABLE"),
     !.protocol_reported = @ + One(o.category = "PROTOCOL_REPORTED"),
     !.semantic_mismatch = @ + One(o.category = "SEMANTIC_MISMATCH"),
     !.malformed = @ + One(o.category = "MALFORMED"),
     !.transport_error = @ + One(o.category = "TRANSPORT_ERROR"),
     !.advertised = @ + One(o.strict_valid /\ o.advertised = "YES"),
     !.unadvertised = @ + One(o.strict_valid /\ o.advertised = "NO")]

-----------------------------------------------------------------------------
(* A probe's life: rss_ddc_probe_create, rss_ddc_probe_destroy and the      *)
(* _for_display calls, which destroy what a failed scan leaves.            *)

Create ==
  /\ pc = "idle" /\ target = None
  /\ target' \in Targets /\ ours' \in BOOLEAN /\ ret' = None
  /\ UNCHANGED <<scan, mccs, quick, extended, shown, quick_diagnostics,
                 extended_diagnostics, knowledge>>

Gone ==
  /\ target' = None /\ ours' = FALSE /\ mccs' = None /\ knowledge' = None
  /\ quick' = [i \in 1..QuickLength |-> Unread(0)] /\ extended' = None
  /\ shown' = "none"
  /\ quick_diagnostics' = NoCounts /\ extended_diagnostics' = NoCounts

Destroy ==
  /\ pc = "idle" /\ target # None /\ ~ours
  /\ Gone /\ ret' = None /\ UNCHANGED scan

(* load_mccs: what the probe holds and whether it is available, or no      *)
(* memory for it. Both diagnostics are written by either scan.             *)
Loads == {[held |-> None, available |-> FALSE, fails |-> FALSE]} \cup
  (IF target.mccs
   THEN {[held |-> d, available |-> TRUE, fails |-> FALSE] : d \in Declarations}
          \cup {[held |-> None, available |-> FALSE, fails |-> TRUE]}
   ELSE {})

Ends(code) == pc' = "idle" /\ at' = 0 /\ failures' = 0 /\ ret' = code

(* A scan of a _for_display probe that fails leaves no probe.              *)
Fails(code) == ours /\ Gone /\ Ends(code)

BeginQuick ==
  /\ pc = "idle" /\ target # None
  /\ \E load \in Loads :
       \/ load.fails /\ Fails("SYSTEM")
       \/ /\ ~(load.fails /\ ours)
          /\ knowledge' = None /\ mccs' = load.held
          /\ quick' = [i \in 1..QuickLength |-> Unread(0)]
          /\ quick_diagnostics' = [NoCounts EXCEPT !.mccs_available = load.available]
          /\ extended_diagnostics' =
               [extended_diagnostics EXCEPT !.mccs_available = load.available]
          /\ IF load.fails THEN Ends("SYSTEM")
             ELSE pc' = "quick" /\ at' = 0 /\ failures' = 0 /\ ret' = None
          /\ UNCHANGED <<target, ours, extended, shown>>

ExtendedRefused ==
  /\ pc = "idle" /\ target # None /\ ~target.supported
  /\ \/ Fails("UNSUPPORTED_PROVIDER")
     \/ /\ ~ours /\ Ends("UNSUPPORTED_PROVIDER")
        /\ UNCHANGED <<target, ours, mccs, quick, extended, shown,
                       quick_diagnostics, extended_diagnostics, knowledge>>

(* No memory for the observations: what was freed is still pointed at.     *)
ExtendedUnallocated ==
  /\ pc = "idle" /\ target # None /\ target.supported
  /\ \/ Fails("SYSTEM")
     \/ /\ ~ours /\ Ends("SYSTEM")
        /\ knowledge' = None /\ mccs' = None /\ extended' = None
        /\ shown' = IF shown = "current" THEN "freed" ELSE shown
        /\ UNCHANGED <<target, ours, quick, quick_diagnostics, extended_diagnostics>>

BeginExtended ==
  /\ pc = "idle" /\ target # None /\ target.supported
  /\ \E load \in Loads :
       \/ load.fails /\ Fails("SYSTEM")
       \/ /\ ~(load.fails /\ ours)
          /\ knowledge' = None /\ mccs' = load.held
          /\ extended' = [a \in Addresses |-> Untouched(0)] /\ shown' = "current"
          /\ extended_diagnostics' = [NoCounts EXCEPT !.requested = AddressCount,
                                                      !.mccs_available = load.available]
          /\ quick_diagnostics' =
               [quick_diagnostics EXCEPT !.mccs_available = load.available]
          /\ IF load.fails THEN Ends("SYSTEM")
             ELSE pc' = "extended" /\ at' = 0 /\ failures' = 0 /\ ret' = None
          /\ UNCHANGED <<target, ours, quick>>

-----------------------------------------------------------------------------
(* The scans, one address a step. *)

QuickStep ==
  /\ pc = "quick" /\ at < QuickLength
  /\ \E first, repeat \in Replies :
       LET o == Observe(QuickControls[at + 1], first, repeat,
                        quick_diagnostics.mccs_available)
       IN  /\ quick' = [quick EXCEPT ![at + 1] = o]
           /\ quick_diagnostics' = CountQuick(quick_diagnostics, o)
  /\ at' = at + 1
  /\ UNCHANGED <<target, ours, pc, failures, ret, mccs, extended, shown,
                 extended_diagnostics, knowledge>>

(* Mutant: failures are counted over the whole scan. *)
MutFailuresAfter(o) ==
  IF o.category = "TRANSPORT_ERROR" THEN failures + 1 ELSE failures

FailuresAfter(o) ==
  IF o.category = "TRANSPORT_ERROR" THEN failures + 1 ELSE 0

ExtendedStep ==
  /\ pc = "extended" /\ at < AddressCount /\ ~extended_diagnostics.aborted
  /\ \E first, repeat \in Replies :
       LET o == Observe(at, first, repeat, extended_diagnostics.mccs_available)
       IN  /\ extended' = [extended EXCEPT ![at] = Extend(o)]
           /\ failures' = FailuresAfter(o)
           /\ extended_diagnostics' =
                [CountExtended(extended_diagnostics, o)
                   EXCEPT !.aborted = FailuresAfter(o) >= FailureLimit]
  /\ at' = at + 1
  /\ UNCHANGED <<target, ours, pc, ret, mccs, quick, shown, quick_diagnostics,
                 knowledge>>

(* After the abort, the rest is marked and not read.                       *)
ExtendedSkip ==
  /\ pc = "extended" /\ at < AddressCount /\ extended_diagnostics.aborted
  /\ extended' = [extended EXCEPT ![at] = Untouched(at)]
  /\ at' = at + 1
  /\ UNCHANGED <<target, ours, pc, failures, ret, mccs, quick, shown,
                 quick_diagnostics, extended_diagnostics, knowledge>>

Seen(f) == {f[x] : x \in DOMAIN f}

(* Mutant: a fact is built of every address that was read. *)
MutFactsOf(observations) ==
  {[vcp |-> o.vcp, declared |-> FALSE, value |-> o.current_value] :
     o \in {p \in observations : p.category # "UNATTEMPTED"}}
  \cup {[vcp |-> o.vcp, declared |-> TRUE, value |-> None] :
          o \in {p \in observations : p.advertised = "YES"}}

FactsOf(observations) ==
  {[vcp |-> o.vcp, declared |-> FALSE, value |-> o.current_value] :
     o \in {p \in observations : p.strict_valid}}
  \cup {[vcp |-> o.vcp, declared |-> TRUE, value |-> None] :
          o \in {p \in observations : p.advertised = "YES"}}

(* Mutant: one fact too many is accepted. *)
MutFits(facts) == Cardinality(facts) <= MaxFacts + 1

(* monitor_knowledge.c refuses what exceeds its array.                     *)
Fits(facts) == Cardinality(facts) <= MaxFacts

(* build_knowledge_from_observations and build_extended_knowledge: all the *)
(* facts, or none when one does not fit or there is no memory.             *)
Build(observations) ==
  \/ /\ Fits(FactsOf(observations))
     /\ knowledge' = FactsOf(observations) /\ ours' = FALSE /\ Ends("OK")
     /\ UNCHANGED <<target, mccs, quick, extended, shown,
                    quick_diagnostics, extended_diagnostics>>
  \/ \E code \in {"SYSTEM"} \cup (IF Fits(FactsOf(observations)) THEN {}
                                  ELSE {"PROFILE_CONFLICT"}) :
       \/ Fails(code)
       \/ /\ ~ours /\ Ends(code)
          /\ UNCHANGED <<target, ours, mccs, quick, extended, shown, knowledge,
                         quick_diagnostics, extended_diagnostics>>

QuickEnds == pc = "quick" /\ at = QuickLength /\ Build(Seen(quick))

ExtendedEnds ==
  /\ pc = "extended" /\ at = AddressCount
  /\ Build({e.observation : e \in Seen(extended)})

Init ==
  /\ target = None /\ ours = FALSE /\ pc = "idle" /\ ret = None /\ mccs = None
  /\ quick = [i \in 1..QuickLength |-> Unread(0)] /\ extended = None
  /\ shown = "none" /\ failures = 0 /\ at = 0 /\ knowledge = None
  /\ quick_diagnostics = NoCounts /\ extended_diagnostics = NoCounts

Next ==
  \/ Create \/ Destroy \/ BeginQuick \/ ExtendedRefused \/ ExtendedUnallocated
  \/ BeginExtended \/ QuickStep \/ ExtendedStep \/ ExtendedSkip
  \/ QuickEnds \/ ExtendedEnds

Spec == Init /\ [][Next]_vars

-----------------------------------------------------------------------------
(* Properties. *)

Number(observations, categories) ==
  Cardinality({x \in DOMAIN observations : observations[x].category \in categories})

Valid == {"STABLE", "VARIABLE"}

(* The counters a report prints are those of the observations it lists, at *)
(* every moment of a scan and after any sequence of scans and failures.    *)
CountersMatchObservations ==
  /\ LET d == quick_diagnostics IN
     /\ d.valid = Number(quick, Valid) /\ d.stable = Number(quick, {"STABLE"})
     /\ d.variable = Number(quick, {"VARIABLE"})
     /\ d.malformed = Number(quick, {"MALFORMED", "SEMANTIC_MISMATCH"})
     /\ d.attempted = d.valid + d.protocol_reported + d.malformed + d.transport_error
  /\ shown = "current" =>
       LET d == extended_diagnostics
           o == [a \in Addresses |-> extended[a].observation]
           With(k) == Cardinality({a \in Addresses : o[a].strict_valid /\ o[a].advertised = k})
       IN  /\ d.valid = Number(o, Valid) /\ d.stable = Number(o, {"STABLE"})
           /\ d.variable = Number(o, {"VARIABLE"})
           /\ d.attempted = d.requested - Number(o, {"UNATTEMPTED"})
           /\ d.attempted = d.valid + d.protocol_reported + d.malformed
                              + d.semantic_mismatch + d.transport_error
           /\ d.advertised = With("YES") /\ d.unadvertised = With("NO")

(* The values read in one scan, by address.                                *)
Read(observations) ==
  {<<o.vcp, o.current_value>> : o \in {p \in observations : p.category \in Valid}}

(* What a probe knows is what one scan read, all of it and nothing of an    *)
(* earlier scan, with what the declaration it holds declares. A scan that   *)
(* runs, or that failed after it had begun, leaves no knowledge.            *)
KnowledgeIsOfOneScan ==
  /\ pc # "idle" \/ ret \in {"SYSTEM", "PROFILE_CONFLICT"} => knowledge = None
  /\ knowledge # None =>
       LET known == {<<f.vcp, f.value>> : f \in {g \in knowledge : ~g.declared}} IN
       /\ \/ known = Read(Seen(quick))
          \/ /\ extended # None
             /\ known = Read({e.observation : e \in Seen(extended)})
       /\ \A f \in knowledge : f.declared => mccs # None /\ f.vcp \in DOMAIN mccs

Storm(a) ==
  /\ a + 1 >= FailureLimit
  /\ \A b \in a + 1 - FailureLimit .. a :
       extended[b].observation.category = "TRANSPORT_ERROR"

(* The extended scan stops after exactly as many failures in a row as it   *)
(* tolerates, and what lies beyond is reported as not attempted.           *)
AbortIsExact ==
  shown = "current" =>
    LET d == extended_diagnostics IN
    /\ d.aborted <=> \E a \in Addresses : Storm(a)
    /\ d.aborted =>
         /\ Storm(d.attempted - 1)
         /\ \A a \in Addresses : a >= d.attempted =>
              extended[a].observation.category = "UNATTEMPTED"

(* docs/alien-probe.md: "observed currents are correlated against that     *)
(* declared enum set where present": a current that is said to be listed   *)
(* was observed, and is in the list.                                       *)
ListedCurrentsAreObserved ==
  pc = "extended" => \A a \in Addresses :
    extended[a].current_in_declared_enum =>
      /\ extended[a].observation.strict_valid
      /\ extended[a].observation.current_value \in mccs[a]
=============================================================================
