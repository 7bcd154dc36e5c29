----------------------------- MODULE ProbeProofs -----------------------------
(***************************************************************************)
(* That the counters, the abort and the knowledge of a probe are those of  *)
(* what it observed, for any number of addresses, any limits, targets and  *)
(* declarations, and any sequence of scans and failures.                   *)
(***************************************************************************)
EXTENDS Probe, FiniteSetTheorems, TLAPS

Extension == [Addresses -> ExtendedObservations]

(* A reply that counts was read, and only such a reply. *)
Sound(o) ==
  /\ o.strict_valid <=> o.category \in Valid
  /\ o.strict_valid => o.current_value \in Values

ObservationsOK ==
  /\ \A i \in 1..QuickLength : Sound(quick[i])
  /\ pc = "extended" => shown = "current"
  /\ shown = "current" =>
       extended \in Extension /\ \A a \in Addresses : Sound(extended[a].observation)

(* What is said to be advertised is in the declaration that the probe      *)
(* holds while it scans.                                                   *)
Declared(o) == o.advertised = "YES" => mccs # None /\ o.vcp \in DOMAIN mccs

DeclaredOK ==
  /\ pc = "quick" => \A i \in 1..QuickLength : Declared(quick[i])
  /\ pc = "extended" => \A a \in Addresses : Declared(extended[a].observation)

(* How far a scan is, and the failures it counts: the last ones in a row.  *)
Lost(a) == extended[a].observation.category = "TRANSPORT_ERROR"
Open(a) == extended[a].observation.category = "UNATTEMPTED"

QuickOK ==
  pc = "quick" =>
    /\ at <= QuickLength
    /\ \A i \in 1..QuickLength : i > at => quick[i].category = "UNATTEMPTED"

ExtendedOK ==
  pc = "extended" =>
    /\ at <= AddressCount
    /\ \A a \in Addresses : a >= at => Open(a)
    /\ ~extended_diagnostics.aborted =>
         /\ extended_diagnostics.attempted = at
         /\ failures < FailureLimit /\ failures <= at
         /\ \A b \in Addresses : at - failures <= b /\ b < at => Lost(b)
         /\ failures < at => ~Lost(at - failures - 1)

RequestedOK == shown = "current" => extended_diagnostics.requested = AddressCount

IInv ==
  /\ TypeOK /\ ObservationsOK /\ DeclaredOK /\ QuickOK /\ ExtendedOK /\ RequestedOK
  /\ CountersMatchObservations /\ AbortIsExact /\ KnowledgeIsOfOneScan

-----------------------------------------------------------------------------
(* One address. *)

LEMMA Numbers ==
  /\ AddressCount \in Nat /\ AddressCount >= 1 /\ FailureLimit \in Nat /\ FailureLimit >= 1
  /\ QuickLength \in Nat /\ IsFiniteSet(Addresses) /\ IsFiniteSet(1..QuickLength)
  /\ Cardinality(Addresses) = AddressCount /\ 0 \in Addresses
  /\ \A i \in 1..QuickLength : QuickControls[i] \in Addresses
<1>1. QuickLength \in Nat /\ \A i \in 1..QuickLength : QuickControls[i] \in Addresses
  BY QuickAssumption DEF QuickLength
<1>2. AddressCount \in Nat /\ AddressCount >= 1 /\ FailureLimit \in Nat /\ FailureLimit >= 1
  BY CountAssumption
<1>3. /\ IsFiniteSet(Addresses) /\ IsFiniteSet(1..QuickLength)
      /\ Cardinality(Addresses) = AddressCount
  BY <1>1, <1>2, FS_Interval DEF Addresses
<1> QED
  BY <1>1, <1>2, <1>3 DEF Addresses

LEMMA CategoryOfReplies ==
  ASSUME NEW first \in Replies, NEW repeat \in Replies
  PROVE  /\ Category(first, repeat) \in Results \ {"UNATTEMPTED"}
         /\ Matches(first) <=> Category(first, repeat) \in Valid
<1>1. first.error \in Errors \cup {"OK"}
  BY DEF Replies
<1>2. CASE first.error = "OK"
  BY <1>2 DEF Category, Results, Valid, Matches, Failed
<1>3. CASE first.error = "STATUS"
  BY <1>3 DEF Category, Results, Valid, Matches, Failed
<1>4. CASE first.error = "VCP"
  BY <1>4 DEF Category, Results, Valid, Matches, Failed
<1>5. CASE first.error = "MALFORMED"
  BY <1>5 DEF Category, Results, Valid, Matches, Failed
<1>6. CASE first.error = "TRANSPORT"
  BY <1>6 DEF Category, Results, Valid, Matches, Failed
<1> QED
  BY <1>1, <1>2, <1>3, <1>4, <1>5, <1>6 DEF Errors

LEMMA ObserveIsSound ==
  ASSUME NEW vcp \in Addresses, NEW first \in Replies, NEW repeat \in Replies,
         NEW available, NEW o, o = Observe(vcp, first, repeat, available)
  PROVE  /\ o \in Observations /\ o.vcp = vcp /\ Sound(o) /\ Declared(o)
         /\ o.category # "UNATTEMPTED"
<1> DEFINE value == IF Matches(first) THEN first.value ELSE 0
           matched == Matches(first)
<1>1. value \in Values \cup {0}
  BY DEF Matches, Failed, Replies, Errors
<1>2. matched \in BOOLEAN
  BY DEF Matches, Failed, Replies, Errors
<1>3. Advertised(available, vcp) \in Knows /\ ProfileKnown(vcp) \in Knows
  BY DEF Advertised, ProfileKnown, Knows
<1>4. Category(first, repeat) \in Results \ {"UNATTEMPTED"}
      /\ (matched <=> Category(first, repeat) \in Valid)
  BY CategoryOfReplies
<1>5. o = [vcp |-> vcp, category |-> Category(first, repeat),
           strict_valid |-> matched, current_value |-> value,
           repeat_attempted |-> matched, advertised |-> Advertised(available, vcp),
           profile_known |-> ProfileKnown(vcp)]
  BY DEF Observe
<1> HIDE DEF value, matched
<1>6. o \in Observations
  BY <1>1, <1>2, <1>3, <1>4, <1>5 DEF Observations
<1>7. o.vcp = vcp /\ Sound(o) /\ o.category # "UNATTEMPTED"
  <2>1. matched => value \in Values
    BY DEF matched, value, Matches, Failed, Replies, Errors
  <2> QED
    BY <1>4, <1>5, <2>1 DEF Sound
<1>8. Declared(o)
  BY <1>5 DEF Declared, Advertised
<1> QED
  BY <1>6, <1>7, <1>8

LEMMA UnreadIsSound ==
  ASSUME NEW vcp \in Addresses \cup {0}
  PROVE  /\ Unread(vcp) \in Observations /\ Sound(Unread(vcp)) /\ Declared(Unread(vcp))
         /\ Unread(vcp).category = "UNATTEMPTED" /\ ~Unread(vcp).strict_valid
BY DEF Unread, Observations, Sound, Declared, Results, Knows, Valid

LEMMA ExtendIsTyped ==
  ASSUME NEW o \in Observations
  PROVE  /\ Extend(o) \in ExtendedObservations /\ Extend(o).observation = o
<1>1. Interpretation(o) \in Interpretations
  BY DEF Interpretation, Interpretations
<1> QED
  BY <1>1 DEF Extend, ExtendedObservations

LEMMA UntouchedIsTyped ==
  ASSUME NEW vcp \in Addresses \cup {0}
  PROVE  /\ Untouched(vcp) \in ExtendedObservations
         /\ Untouched(vcp).observation = Unread(vcp)
BY UnreadIsSound DEF Untouched, ExtendedObservations, Interpretations

-----------------------------------------------------------------------------
(* Counting. *)

In(o, categories) == One(o.category \in categories)
ReadAs(o, k) == One(o.strict_valid /\ o.advertised = k)

(* g is f with one observation more, the one of x. *)
After(S, f, x, o, g) ==
  /\ IsFiniteSet(S) /\ DOMAIN f = S /\ DOMAIN g = S /\ x \in S
  /\ \A y \in S : g[y] = IF y = x THEN o ELSE f[y]
  /\ f[x].category = "UNATTEMPTED" /\ o.category # "UNATTEMPTED"

Grown(f, o, g) ==
  /\ \A categories : "UNATTEMPTED" \notin categories =>
       Number(g, categories) = Number(f, categories) + In(o, categories)
  /\ Number(g, {"UNATTEMPTED"}) = Number(f, {"UNATTEMPTED"}) - 1
  /\ \A categories : Number(f, categories) \in Nat

(* The observations of one kind after one more was made. *)
LEMMA NumberAfter ==
  ASSUME NEW S, NEW f, NEW x, NEW o, NEW g, After(S, f, x, o, g)
  PROVE  Grown(f, o, g)
<1> DEFINE Of(h, categories) == {y \in S : h[y].category \in categories}
<1>1. /\ DOMAIN f = S /\ DOMAIN g = S /\ \A y \in S : g[y] = IF y = x THEN o ELSE f[y]
      /\ IsFiniteSet(S) /\ x \in S
      /\ f[x].category = "UNATTEMPTED" /\ o.category # "UNATTEMPTED"
  BY DEF After
<1>2. \A categories : /\ Number(f, categories) = Cardinality(Of(f, categories))
                      /\ Number(g, categories) = Cardinality(Of(g, categories))
                      /\ IsFiniteSet(Of(f, categories))
  BY <1>1, FS_Subset DEF Number
<1>3. ASSUME NEW categories, "UNATTEMPTED" \notin categories
      PROVE  Number(g, categories) = Number(f, categories) + In(o, categories)
  <2>1. x \notin Of(f, categories)
    BY <1>1, <1>3
  <2>2. Of(g, categories) = IF o.category \in categories
                            THEN Of(f, categories) \cup {x} ELSE Of(f, categories)
    BY <1>1, <1>3
  <2>3. /\ Number(f, categories) = Cardinality(Of(f, categories))
        /\ Number(g, categories) = Cardinality(Of(g, categories))
        /\ IsFiniteSet(Of(f, categories))
    BY <1>2
  <2>4. Number(f, categories) \in Nat
    BY <2>3, FS_CardinalityType
  <2> HIDE DEF Of
  <2>5. CASE o.category \in categories
    <3>1. Of(g, categories) = Of(f, categories) \cup {x}
      BY <2>2, <2>5
    <3>2. Cardinality(Of(f, categories) \cup {x}) = Cardinality(Of(f, categories)) + 1
      BY <2>1, <2>3, FS_AddElement
    <3>3. Number(g, categories) = Number(f, categories) + 1
      BY <2>3, <3>1, <3>2
    <3> QED
      BY <2>5, <3>3 DEF In, One
  <2>6. CASE o.category \notin categories
    <3>1. Number(g, categories) = Number(f, categories)
      BY <2>2, <2>3, <2>6
    <3> QED
      BY <2>4, <2>6, <3>1 DEF In, One
  <2> QED
    BY <2>5, <2>6
<1>4. Number(g, {"UNATTEMPTED"}) = Number(f, {"UNATTEMPTED"}) - 1
  <2>1. x \in Of(f, {"UNATTEMPTED"})
    BY <1>1
  <2>2. Of(g, {"UNATTEMPTED"}) = Of(f, {"UNATTEMPTED"}) \ {x}
    BY <1>1
  <2>3. /\ Number(f, {"UNATTEMPTED"}) = Cardinality(Of(f, {"UNATTEMPTED"}))
        /\ Number(g, {"UNATTEMPTED"}) = Cardinality(Of(g, {"UNATTEMPTED"}))
        /\ IsFiniteSet(Of(f, {"UNATTEMPTED"}))
    BY <1>2
  <2> HIDE DEF Of
  <2> QED
    BY <2>1, <2>2, <2>3, FS_RemoveElement
<1>5. ASSUME NEW categories PROVE Number(f, categories) \in Nat
  <2>1. /\ Number(f, categories) = Cardinality(Of(f, categories))
        /\ IsFiniteSet(Of(f, categories))
    BY <1>2
  <2> HIDE DEF Of
  <2> QED
    BY <2>1, FS_CardinalityType
<1> QED
  BY <1>3, <1>4, <1>5 DEF Grown

(* Before a scan, nothing is counted. *)
LEMMA NumberBefore ==
  ASSUME NEW S, IsFiniteSet(S), NEW f, DOMAIN f = S,
         \A x \in S : f[x].category = "UNATTEMPTED"
  PROVE  /\ \A categories : "UNATTEMPTED" \notin categories => Number(f, categories) = 0
         /\ Number(f, {"UNATTEMPTED"}) = Cardinality(S)
<1>1. ASSUME NEW categories, "UNATTEMPTED" \notin categories
      PROVE  {x \in DOMAIN f : f[x].category \in categories} = {}
  BY <1>1
<1>2. {x \in DOMAIN f : f[x].category \in {"UNATTEMPTED"}} = S
  OBVIOUS
<1> QED
  BY <1>1, <1>2, FS_EmptySet DEF Number

(* What the scans add to the counters. *)
Same(d, e) ==
  /\ d.mccs_available = e.mccs_available /\ d.requested = e.requested
  /\ d.aborted = e.aborted

LEMMA QuickCounts ==
  ASSUME NEW d \in Diagnostics, NEW o \in Observations, Sound(o), NEW e, e = CountQuick(d, o)
  PROVE  /\ e \in Diagnostics /\ Same(d, e)
         /\ e.attempted = d.attempted + 1
         /\ e.valid = d.valid + In(o, Valid)
         /\ e.stable = d.stable + In(o, {"STABLE"})
         /\ e.variable = d.variable + In(o, {"VARIABLE"})
         /\ e.protocol_reported = d.protocol_reported + In(o, {"PROTOCOL_REPORTED"})
         /\ e.malformed = d.malformed + In(o, {"MALFORMED", "SEMANTIC_MISMATCH"})
         /\ e.transport_error = d.transport_error + In(o, {"TRANSPORT_ERROR"})
<1> DEFINE a == In(o, Valid)
           b == In(o, {"STABLE"})
           c == In(o, {"VARIABLE"})
           p == In(o, {"PROTOCOL_REPORTED"})
           m == In(o, {"MALFORMED", "SEMANTIC_MISMATCH"})
           t == In(o, {"TRANSPORT_ERROR"})
<1>1. a \in Nat /\ b \in Nat /\ c \in Nat /\ p \in Nat /\ m \in Nat /\ t \in Nat
  BY DEF In, ReadAs, One
<1>2. e = [d EXCEPT !.attempted = @ + 1, !.valid = @ + a, !.stable = @ + b,
                    !.variable = @ + c, !.protocol_reported = @ + p,
                    !.malformed = @ + m, !.transport_error = @ + t]
  <2>1. /\ a = One(o.strict_valid) /\ b = One(o.category = "STABLE")
        /\ c = One(o.category = "VARIABLE") /\ p = One(o.category = "PROTOCOL_REPORTED")
        /\ m = One(o.category \in {"MALFORMED", "SEMANTIC_MISMATCH"})
        /\ t = One(o.category = "TRANSPORT_ERROR")
    BY DEF In, Sound, One
  <2> HIDE DEF a, b, c, p, m, t
  <2> QED
    BY <2>1 DEF CountQuick
<1> HIDE DEF a, b, c, p, m, t
<1>3. e \in Diagnostics
  <2>1. e = [mccs_available |-> d.mccs_available,
             requested |-> d.requested, attempted |-> d.attempted + 1,
             valid |-> d.valid + a, stable |-> d.stable + b,
             variable |-> d.variable + c,
             protocol_reported |-> d.protocol_reported + p,
             malformed |-> d.malformed + m,
             semantic_mismatch |-> d.semantic_mismatch,
             transport_error |-> d.transport_error + t,
             advertised |-> d.advertised, unadvertised |-> d.unadvertised,
             aborted |-> d.aborted]
    BY <1>2 DEF Diagnostics
  <2>2. /\ d.attempted \in Nat /\ d.valid \in Nat /\ d.stable \in Nat /\ d.variable \in Nat
        /\ d.protocol_reported \in Nat /\ d.malformed \in Nat /\ d.transport_error \in Nat
    BY DEF Diagnostics
  <2>3. /\ d.requested \in Nat /\ d.semantic_mismatch \in Nat /\ d.advertised \in Nat
        /\ d.unadvertised \in Nat /\ d.mccs_available \in BOOLEAN /\ d.aborted \in BOOLEAN
    BY DEF Diagnostics
  <2> QED
    BY <1>1, <2>1, <2>2, <2>3 DEF Diagnostics
<1>4. /\ Same(d, e) /\ e.attempted = d.attempted + 1 /\ e.valid = d.valid + a
      /\ e.stable = d.stable + b /\ e.variable = d.variable + c
      /\ e.protocol_reported = d.protocol_reported + p
      /\ e.malformed = d.malformed + m /\ e.transport_error = d.transport_error + t
  BY <1>2 DEF Diagnostics, Same
<1> QED
  BY <1>3, <1>4 DEF a, b, c, p, m, t

LEMMA DiagnosticsRecord ==
  ASSUME NEW av \in BOOLEAN, NEW rq \in Nat, NEW at1 \in Nat, NEW a1 \in Nat,
         NEW b1 \in Nat, NEW c1 \in Nat, NEW p1 \in Nat, NEW m1 \in Nat, NEW s1 \in Nat,
         NEW t1 \in Nat, NEW y1 \in Nat, NEW n1 \in Nat, NEW st \in BOOLEAN
  PROVE  [mccs_available |-> av, requested |-> rq, attempted |-> at1, valid |-> a1,
          stable |-> b1, variable |-> c1, protocol_reported |-> p1, malformed |-> m1,
          semantic_mismatch |-> s1, transport_error |-> t1, advertised |-> y1,
          unadvertised |-> n1, aborted |-> st] \in Diagnostics
BY DEF Diagnostics

(* What ExtendedStep makes of the counters. *)
Counted(d, o, stop) == [CountExtended(d, o) EXCEPT !.aborted = stop]

Added(d, o, stop, e) ==
  /\ e \in Diagnostics /\ e.requested = d.requested /\ e.aborted = stop
  /\ e.mccs_available = d.mccs_available
  /\ e.attempted = d.attempted + 1
  /\ e.valid = d.valid + In(o, Valid)
  /\ e.stable = d.stable + In(o, {"STABLE"})
  /\ e.variable = d.variable + In(o, {"VARIABLE"})
  /\ e.protocol_reported = d.protocol_reported + In(o, {"PROTOCOL_REPORTED"})
  /\ e.semantic_mismatch = d.semantic_mismatch + In(o, {"SEMANTIC_MISMATCH"})
  /\ e.malformed = d.malformed + In(o, {"MALFORMED"})
  /\ e.transport_error = d.transport_error + In(o, {"TRANSPORT_ERROR"})
  /\ e.advertised = d.advertised + ReadAs(o, "YES")
  /\ e.unadvertised = d.unadvertised + ReadAs(o, "NO")

LEMMA ExtendedCounts ==
  ASSUME NEW d \in Diagnostics, NEW o \in Observations, Sound(o), NEW stop \in BOOLEAN,
         NEW e, e = Counted(d, o, stop)
  PROVE  Added(d, o, stop, e)
<1> DEFINE a == In(o, Valid)
           b == In(o, {"STABLE"})
           c == In(o, {"VARIABLE"})
           p == In(o, {"PROTOCOL_REPORTED"})
           s == In(o, {"SEMANTIC_MISMATCH"})
           m == In(o, {"MALFORMED"})
           t == In(o, {"TRANSPORT_ERROR"})
           y == ReadAs(o, "YES")
           n == ReadAs(o, "NO")
<1>1. /\ a \in Nat /\ b \in Nat /\ c \in Nat /\ p \in Nat /\ s \in Nat
      /\ m \in Nat /\ t \in Nat /\ y \in Nat /\ n \in Nat
  BY DEF In, ReadAs, One
<1>2. e = [[d EXCEPT !.attempted = @ + 1, !.valid = @ + a, !.stable = @ + b,
                     !.variable = @ + c, !.protocol_reported = @ + p,
                     !.semantic_mismatch = @ + s, !.malformed = @ + m,
                     !.transport_error = @ + t, !.advertised = @ + y,
                     !.unadvertised = @ + n] EXCEPT !.aborted = stop]
  <2>1. /\ a = One(o.strict_valid) /\ b = One(o.category = "STABLE")
        /\ c = One(o.category = "VARIABLE") /\ p = One(o.category = "PROTOCOL_REPORTED")
        /\ s = One(o.category = "SEMANTIC_MISMATCH") /\ m = One(o.category = "MALFORMED")
        /\ t = One(o.category = "TRANSPORT_ERROR")
        /\ y = One(o.strict_valid /\ o.advertised = "YES")
        /\ n = One(o.strict_valid /\ o.advertised = "NO")
    BY DEF In, ReadAs, Sound, One
  <2> HIDE DEF a, b, c, p, s, m, t, y, n
  <2> QED
    BY <2>1 DEF Counted, CountExtended
<1> HIDE DEF a, b, c, p, s, m, t, y, n
<1>3. e \in Diagnostics
  <2>1. e = [mccs_available |-> d.mccs_available,
             requested |-> d.requested, attempted |-> d.attempted + 1,
             valid |-> d.valid + a, stable |-> d.stable + b,
             variable |-> d.variable + c,
             protocol_reported |-> d.protocol_reported + p,
             malformed |-> d.malformed + m,
             semantic_mismatch |-> d.semantic_mismatch + s,
             transport_error |-> d.transport_error + t,
             advertised |-> d.advertised + y,
             unadvertised |-> d.unadvertised + n, aborted |-> stop]
    BY <1>2 DEF Diagnostics
  <2>2. /\ d.attempted \in Nat /\ d.valid \in Nat /\ d.stable \in Nat /\ d.variable \in Nat
        /\ d.protocol_reported \in Nat /\ d.semantic_mismatch \in Nat /\ d.malformed \in Nat
        /\ d.transport_error \in Nat /\ d.advertised \in Nat /\ d.unadvertised \in Nat
    BY DEF Diagnostics
  <2>3. /\ d.requested \in Nat /\ d.semantic_mismatch \in Nat /\ d.advertised \in Nat
        /\ d.unadvertised \in Nat /\ d.mccs_available \in BOOLEAN /\ d.aborted \in BOOLEAN
    BY DEF Diagnostics
  <2> QED
    <3> DEFINE at1 == d.attempted + 1
               a1 == d.valid + a
               b1 == d.stable + b
               c1 == d.variable + c
               p1 == d.protocol_reported + p
               s1 == d.semantic_mismatch + s
               m1 == d.malformed + m
               t1 == d.transport_error + t
               y1 == d.advertised + y
               n1 == d.unadvertised + n
               st == stop
               av == d.mccs_available
               rq == d.requested
    <3>1. /\ at1 \in Nat /\ a1 \in Nat /\ b1 \in Nat /\ c1 \in Nat /\ p1 \in Nat
          /\ s1 \in Nat /\ m1 \in Nat /\ t1 \in Nat /\ y1 \in Nat /\ n1 \in Nat
          /\ st \in BOOLEAN /\ av \in BOOLEAN /\ rq \in Nat
      BY <1>1, <2>2, <2>3
    <3>2. e = [mccs_available |-> av, requested |-> rq,
               attempted |-> at1, valid |-> a1, stable |-> b1, variable |-> c1,
               protocol_reported |-> p1, malformed |-> m1, semantic_mismatch |-> s1,
               transport_error |-> t1, advertised |-> y1, unadvertised |-> n1,
               aborted |-> st]
      BY <2>1
    <3> HIDE DEF at1, a1, b1, c1, p1, s1, m1, t1, y1, n1, st, av, rq
    <3> QED
      <4>1. [mccs_available |-> av, requested |-> rq,
             attempted |-> at1, valid |-> a1, stable |-> b1, variable |-> c1,
             protocol_reported |-> p1, malformed |-> m1, semantic_mismatch |-> s1,
             transport_error |-> t1, advertised |-> y1, unadvertised |-> n1,
             aborted |-> st] \in Diagnostics
        BY <3>1, DiagnosticsRecord, ZenonT(30)
      <4> QED
        BY <3>2, <4>1, Zenon
<1>4. /\ e.requested = d.requested /\ e.aborted = stop
      /\ e.mccs_available = d.mccs_available
      /\ e.attempted = d.attempted + 1 /\ e.valid = d.valid + a
      /\ e.stable = d.stable + b /\ e.variable = d.variable + c
      /\ e.protocol_reported = d.protocol_reported + p
      /\ e.semantic_mismatch = d.semantic_mismatch + s
      /\ e.malformed = d.malformed + m /\ e.transport_error = d.transport_error + t
      /\ e.advertised = d.advertised + y /\ e.unadvertised = d.unadvertised + n
  BY <1>2 DEF Diagnostics
<1> QED
  BY <1>3, <1>4 DEF Added, a, b, c, p, s, m, t, y, n

LEMMA NoCountsTyped ==
  /\ NoCounts \in Diagnostics
  /\ \A available \in BOOLEAN, d \in Diagnostics :
       [d EXCEPT !.mccs_available = available] \in Diagnostics
BY DEF NoCounts, Diagnostics

-----------------------------------------------------------------------------
(* The counters of the two scans, as relations of values. *)

QuickCounters(q, d) ==
  /\ d.valid = Number(q, Valid) /\ d.stable = Number(q, {"STABLE"})
  /\ d.variable = Number(q, {"VARIABLE"})
  /\ d.malformed = Number(q, {"MALFORMED", "SEMANTIC_MISMATCH"})
  /\ d.attempted = d.valid + d.protocol_reported + d.malformed + d.transport_error

Of(x) == [a \in Addresses |-> x[a].observation]
With(x, k) == {a \in Addresses : x[a].observation.strict_valid
                                 /\ x[a].observation.advertised = k}

ExtendedCounters(x, d) ==
  /\ d.valid = Number(Of(x), Valid) /\ d.stable = Number(Of(x), {"STABLE"})
  /\ d.variable = Number(Of(x), {"VARIABLE"})
  /\ d.attempted = d.requested - Number(Of(x), {"UNATTEMPTED"})
  /\ d.attempted = d.valid + d.protocol_reported + d.malformed
                     + d.semantic_mismatch + d.transport_error
  /\ d.advertised = Cardinality(With(x, "YES"))
  /\ d.unadvertised = Cardinality(With(x, "NO"))

Counters ==
  /\ QuickCounters(quick, quick_diagnostics)
  /\ shown = "current" => ExtendedCounters(extended, extended_diagnostics)

LEMMA CountersAre == CountersMatchObservations <=> Counters
<1>1. \A a \in Addresses : Of(extended)[a] = extended[a].observation
  BY DEF Of
<1>2. \A k : With(extended, k) =
               {a \in Addresses : Of(extended)[a].strict_valid
                                  /\ Of(extended)[a].advertised = k}
  BY <1>1 DEF With
<1> QED
  BY <1>2 DEF CountersMatchObservations, Counters, QuickCounters, ExtendedCounters, Of

LEMMA QuickCountersBegin ==
  ASSUME NEW d, d.valid = 0, d.stable = 0, d.variable = 0, d.malformed = 0,
         d.attempted = 0, d.protocol_reported = 0, d.transport_error = 0
  PROVE  QuickCounters([i \in 1..QuickLength |-> Unread(0)], d)
<1> DEFINE q == [i \in 1..QuickLength |-> Unread(0)]
<1>1. DOMAIN q = 1..QuickLength /\ \A i \in 1..QuickLength : q[i].category = "UNATTEMPTED"
  BY UnreadIsSound
<1> HIDE DEF q
<1>2. \A categories : "UNATTEMPTED" \notin categories => Number(q, categories) = 0
  BY <1>1, Numbers, NumberBefore
<1>3. /\ Number(q, Valid) = 0 /\ Number(q, {"STABLE"}) = 0 /\ Number(q, {"VARIABLE"}) = 0
      /\ Number(q, {"MALFORMED", "SEMANTIC_MISMATCH"}) = 0
  BY <1>2 DEF Valid
<1>4. QuickCounters(q, d)
  BY <1>3 DEF QuickCounters
<1> QED
  BY <1>4 DEF q

LEMMA QuickCountersStep ==
  ASSUME NEW q \in [1..QuickLength -> Observations], NEW d \in Diagnostics,
         QuickCounters(q, d), NEW i \in 1..QuickLength, q[i].category = "UNATTEMPTED",
         NEW o \in Observations, Sound(o), o.category # "UNATTEMPTED",
         NEW r, r = [q EXCEPT ![i] = o], NEW e, e = CountQuick(d, o)
  PROVE  QuickCounters(r, e)
<1>1. \A categories : "UNATTEMPTED" \notin categories =>
        Number(r, categories) = Number(q, categories) + In(o, categories)
  <2>1. After(1..QuickLength, q, i, o, r)
    BY Numbers DEF After
  <2>2. Grown(q, o, r)
    BY <2>1, NumberAfter, Zenon
  <2> QED
    BY <2>2 DEF Grown
<1>2. /\ Number(r, Valid) = Number(q, Valid) + In(o, Valid)
      /\ Number(r, {"STABLE"}) = Number(q, {"STABLE"}) + In(o, {"STABLE"})
      /\ Number(r, {"VARIABLE"}) = Number(q, {"VARIABLE"}) + In(o, {"VARIABLE"})
      /\ Number(r, {"MALFORMED", "SEMANTIC_MISMATCH"}) =
           Number(q, {"MALFORMED", "SEMANTIC_MISMATCH"})
             + In(o, {"MALFORMED", "SEMANTIC_MISMATCH"})
  BY <1>1 DEF Valid
<1>3. /\ e.attempted = d.attempted + 1
      /\ e.valid = d.valid + In(o, Valid)
      /\ e.stable = d.stable + In(o, {"STABLE"})
      /\ e.variable = d.variable + In(o, {"VARIABLE"})
      /\ e.protocol_reported = d.protocol_reported + In(o, {"PROTOCOL_REPORTED"})
      /\ e.malformed = d.malformed + In(o, {"MALFORMED", "SEMANTIC_MISMATCH"})
      /\ e.transport_error = d.transport_error + In(o, {"TRANSPORT_ERROR"})
  BY QuickCounts
<1>5. In(o, Valid) + In(o, {"PROTOCOL_REPORTED"})
        + In(o, {"MALFORMED", "SEMANTIC_MISMATCH"})
        + In(o, {"TRANSPORT_ERROR"}) = 1
  BY DEF In, One, Valid, Observations, Results
<1>6. /\ d.attempted \in Nat /\ d.valid \in Nat /\ d.protocol_reported \in Nat
      /\ d.malformed \in Nat /\ d.transport_error \in Nat
      /\ d.attempted = d.valid + d.protocol_reported + d.malformed + d.transport_error
  BY DEF Diagnostics, QuickCounters
<1>7. e.attempted = e.valid + e.protocol_reported + e.malformed + e.transport_error
  <2> DEFINE a == In(o, Valid)
             b == In(o, {"PROTOCOL_REPORTED"})
             c == In(o, {"MALFORMED", "SEMANTIC_MISMATCH"})
             t == In(o, {"TRANSPORT_ERROR"})
  <2>1. a \in Nat /\ b \in Nat /\ c \in Nat /\ t \in Nat
    BY DEF In, ReadAs, One
  <2>2. a + b + c + t = 1
    BY <1>5
  <2>3. /\ e.valid = d.valid + a /\ e.protocol_reported = d.protocol_reported + b
        /\ e.malformed = d.malformed + c /\ e.transport_error = d.transport_error + t
    BY <1>3
  <2>4. e.attempted = d.attempted + 1
    BY <1>3
  <2> DEFINE da == d.attempted
             dv == d.valid
             dp == d.protocol_reported
             dm == d.malformed
             dt == d.transport_error
  <2>5. /\ da \in Nat /\ dv \in Nat /\ dp \in Nat /\ dm \in Nat /\ dt \in Nat
        /\ da = dv + dp + dm + dt
    BY <1>6
  <2> HIDE DEF a, b, c, t, da, dv, dp, dm, dt
  <2>6. da + 1 = (dv + a) + (dp + b) + (dm + c) + (dt + t)
    BY ONLY <2>1, <2>2, <2>5
  <2> QED
    BY <2>3, <2>4, <2>6 DEF da, dv, dp, dm, dt
<1> QED
  BY <1>2, <1>3, <1>7 DEF QuickCounters

LEMMA OfIsTyped ==
  ASSUME NEW x \in Extension
  PROVE  Of(x) \in [Addresses -> Observations]
BY DEF Of, Extension, ExtendedObservations

LEMMA ExtendedCountersBegin ==
  ASSUME NEW d, d.valid = 0, d.stable = 0, d.variable = 0, d.malformed = 0,
         d.attempted = 0, d.protocol_reported = 0, d.transport_error = 0,
         d.semantic_mismatch = 0, d.advertised = 0, d.unadvertised = 0,
         d.requested = AddressCount,
         NEW x, x = [a \in Addresses |-> Untouched(0)]
  PROVE  ExtendedCounters(x, d)
<1>1. \A a \in Addresses : /\ x[a].observation.category = "UNATTEMPTED"
                           /\ ~x[a].observation.strict_valid
  BY UntouchedIsTyped, UnreadIsSound
<1>2. DOMAIN Of(x) = Addresses /\ \A a \in Addresses : Of(x)[a].category = "UNATTEMPTED"
  BY <1>1 DEF Of
<1>3. /\ \A categories : "UNATTEMPTED" \notin categories => Number(Of(x), categories) = 0
      /\ Number(Of(x), {"UNATTEMPTED"}) = AddressCount
  BY <1>2, Numbers, NumberBefore
<1>4. /\ Number(Of(x), Valid) = 0 /\ Number(Of(x), {"STABLE"}) = 0
      /\ Number(Of(x), {"VARIABLE"}) = 0
  BY <1>3 DEF Valid
<1>5. With(x, "YES") = {} /\ With(x, "NO") = {}
  BY <1>1 DEF With
<1>6. Cardinality(With(x, "YES")) = 0 /\ Cardinality(With(x, "NO")) = 0
  BY <1>5, FS_EmptySet
<1>7. d.attempted = d.requested - Number(Of(x), {"UNATTEMPTED"})
  BY <1>3, Numbers
<1>8. d.attempted = d.valid + d.protocol_reported + d.malformed
                      + d.semantic_mismatch + d.transport_error
  OBVIOUS
<1> QED
  BY <1>4, <1>6, <1>7, <1>8 DEF ExtendedCounters

LEMMA ExtendedCountersStep ==
  ASSUME NEW x \in Extension, NEW d \in Diagnostics, ExtendedCounters(x, d),
         NEW a \in Addresses, x[a].observation.category = "UNATTEMPTED",
         Sound(x[a].observation),
         NEW o \in Observations, Sound(o), o.category # "UNATTEMPTED",
         NEW stop \in BOOLEAN,
         NEW y, y = [x EXCEPT ![a] = Extend(o)],
         NEW e, e = Counted(d, o, stop)
  PROVE  ExtendedCounters(y, e)
<1>1. /\ Of(x) \in [Addresses -> Observations] /\ Of(y) = [Of(x) EXCEPT ![a] = o]
      /\ Of(x)[a].category = "UNATTEMPTED"
  <2>1. Extend(o).observation = o
    BY ExtendIsTyped
  <2>2. \A b \in Addresses : y[b].observation = IF b = a THEN o ELSE x[b].observation
    BY <2>1 DEF Extension
  <2> QED
    BY <2>2, OfIsTyped DEF Of
<1>2. /\ \A categories : "UNATTEMPTED" \notin categories =>
           Number(Of(y), categories) = Number(Of(x), categories) + In(o, categories)
      /\ Number(Of(y), {"UNATTEMPTED"}) = Number(Of(x), {"UNATTEMPTED"}) - 1
      /\ Number(Of(x), {"UNATTEMPTED"}) \in Nat
  <2>1. After(Addresses, Of(x), a, o, Of(y))
    BY <1>1, Numbers DEF After
  <2>2. Grown(Of(x), o, Of(y))
    BY <2>1, NumberAfter, Zenon
  <2> QED
    BY <2>2 DEF Grown
<1>3. /\ Number(Of(y), Valid) = Number(Of(x), Valid) + In(o, Valid)
      /\ Number(Of(y), {"STABLE"}) = Number(Of(x), {"STABLE"}) + In(o, {"STABLE"})
      /\ Number(Of(y), {"VARIABLE"}) =
           Number(Of(x), {"VARIABLE"}) + In(o, {"VARIABLE"})
  BY <1>2 DEF Valid
<1>4. /\ e.requested = d.requested
      /\ e.attempted = d.attempted + 1
      /\ e.valid = d.valid + In(o, Valid)
      /\ e.stable = d.stable + In(o, {"STABLE"})
      /\ e.variable = d.variable + In(o, {"VARIABLE"})
      /\ e.protocol_reported = d.protocol_reported + In(o, {"PROTOCOL_REPORTED"})
      /\ e.semantic_mismatch = d.semantic_mismatch + In(o, {"SEMANTIC_MISMATCH"})
      /\ e.malformed = d.malformed + In(o, {"MALFORMED"})
      /\ e.transport_error = d.transport_error + In(o, {"TRANSPORT_ERROR"})
      /\ e.advertised = d.advertised + ReadAs(o, "YES")
      /\ e.unadvertised = d.unadvertised + ReadAs(o, "NO")
  <2>1. Added(d, o, stop, e)
    BY ExtendedCounts, Zenon
  <2> QED
    BY <2>1 DEF Added
<1>6. /\ d.attempted \in Nat /\ d.valid \in Nat /\ d.protocol_reported \in Nat
      /\ d.malformed \in Nat /\ d.transport_error \in Nat /\ d.semantic_mismatch \in Nat
      /\ d.requested \in Nat
      /\ d.attempted = d.valid + d.protocol_reported + d.malformed
                         + d.semantic_mismatch + d.transport_error
      /\ d.attempted = d.requested - Number(Of(x), {"UNATTEMPTED"})
  BY DEF Diagnostics, ExtendedCounters
<1>7. e.attempted = e.valid + e.protocol_reported + e.malformed
                      + e.semantic_mismatch + e.transport_error
  <2> DEFINE v == In(o, Valid)
             p == In(o, {"PROTOCOL_REPORTED"})
             m == In(o, {"MALFORMED"})
             s == In(o, {"SEMANTIC_MISMATCH"})
             t == In(o, {"TRANSPORT_ERROR"})
  <2>1. v \in Nat /\ p \in Nat /\ m \in Nat /\ s \in Nat /\ t \in Nat
    BY DEF In, ReadAs, One
  <2>2. v + p + m + s + t = 1
    BY DEF In, One, Valid, Observations, Results
  <2>3. /\ e.valid = d.valid + v /\ e.protocol_reported = d.protocol_reported + p
        /\ e.malformed = d.malformed + m /\ e.semantic_mismatch = d.semantic_mismatch + s
        /\ e.transport_error = d.transport_error + t
    BY <1>4
  <2>4. e.attempted = d.attempted + 1
    BY <1>4
  <2> HIDE DEF v, p, m, s, t
  <2> QED
    BY ONLY <1>6, <2>1, <2>2, <2>3, <2>4
<1>8. e.attempted = e.requested - Number(Of(y), {"UNATTEMPTED"})
  <2> DEFINE before == Number(Of(x), {"UNATTEMPTED"})
             after == Number(Of(y), {"UNATTEMPTED"})
             da == d.attempted
             dr == d.requested
  <2>1. before \in Nat /\ after = before - 1
    BY <1>2
  <2>2. da \in Nat /\ dr \in Nat /\ da = dr - before
    BY <1>6
  <2>3. e.attempted = da + 1 /\ e.requested = dr
    BY <1>4
  <2> HIDE DEF before, after, da, dr
  <2>4. e.attempted = e.requested - after
    BY ONLY <2>1, <2>2, <2>3
  <2> QED
    BY <2>4 DEF after
<1>9. ASSUME NEW k
      PROVE  Cardinality(With(y, k)) =
               Cardinality(With(x, k)) + ReadAs(o, k)
  <2>1. a \notin With(x, k)
    BY DEF With, Sound, Valid
  <2>2. IsFiniteSet(With(x, k)) /\ Cardinality(With(x, k)) \in Nat
    BY Numbers, FS_Subset, FS_CardinalityType DEF With
  <2>3. \A b \in Addresses : y[b].observation = IF b = a THEN o ELSE x[b].observation
    BY ExtendIsTyped DEF Extension
  <2>4. CASE o.strict_valid /\ o.advertised = k
    <3>1. With(y, k) = With(x, k) \cup {a}
      BY <2>3, <2>4 DEF With
    <3>2. Cardinality(With(x, k) \cup {a}) = Cardinality(With(x, k)) + 1
      BY <2>1, <2>2, FS_AddElement
    <3> QED
      BY <2>4, <3>1, <3>2 DEF ReadAs, One
  <2>5. CASE ~(o.strict_valid /\ o.advertised = k)
    <3>1. With(y, k) = With(x, k)
      BY <2>1, <2>3, <2>5 DEF With
    <3> QED
      BY <2>2, <2>5, <3>1 DEF ReadAs, One
  <2> QED
    BY <2>4, <2>5
<1>10. /\ e.advertised = Cardinality(With(y, "YES"))
       /\ e.unadvertised = Cardinality(With(y, "NO"))
  <2>1. /\ d.advertised = Cardinality(With(x, "YES"))
        /\ d.unadvertised = Cardinality(With(x, "NO"))
    BY DEF ExtendedCounters
  <2>2. /\ Cardinality(With(y, "YES")) =
             Cardinality(With(x, "YES")) + ReadAs(o, "YES")
        /\ Cardinality(With(y, "NO")) =
             Cardinality(With(x, "NO")) + ReadAs(o, "NO")
    BY <1>9
  <2> QED
    BY <1>4, <2>1, <2>2
<1> QED
  BY <1>3, <1>4, <1>7, <1>8, <1>10 DEF ExtendedCounters

(* An address that is skipped counts for nothing. *)
LEMMA ExtendedCountersSkip ==
  ASSUME NEW x \in Extension, NEW d, ExtendedCounters(x, d),
         NEW a \in Addresses, x[a].observation.category = "UNATTEMPTED",
         Sound(x[a].observation),
         NEW y, y = [x EXCEPT ![a] = Untouched(a)]
  PROVE  ExtendedCounters(y, d)
<1>1. \A b \in Addresses :
        /\ y[b].observation.category = x[b].observation.category
        /\ b # a => y[b].observation = x[b].observation
  BY UntouchedIsTyped, UnreadIsSound DEF Extension
<1>2. ~y[a].observation.strict_valid /\ ~x[a].observation.strict_valid
  BY UntouchedIsTyped, UnreadIsSound DEF Extension, Sound, Valid
<1>3. \A categories : Number(Of(y), categories) = Number(Of(x), categories)
  <2> TAKE categories
  <2>1. {b \in Addresses : Of(y)[b].category \in categories} =
        {b \in Addresses : Of(x)[b].category \in categories}
    BY <1>1 DEF Of
  <2>2. DOMAIN Of(x) = Addresses /\ DOMAIN Of(y) = Addresses
    BY DEF Of
  <2> QED
    BY <2>1, <2>2 DEF Number
<1>4. \A k : With(y, k) = With(x, k)
  BY <1>1, <1>2 DEF With
<1> QED
  BY <1>3, <1>4 DEF ExtendedCounters

-----------------------------------------------------------------------------
(* A probe's life. *)

(* No probe, or one that has not scanned: nothing is held and no scan runs. *)
Blank ==
  /\ target \in Targets \cup {None} /\ ours \in BOOLEAN /\ ret \in Returns \cup {None}
  /\ at \in 0..AddressCount + QuickLength /\ failures \in 0..FailureLimit
  /\ pc = "idle" /\ mccs = None /\ knowledge = None
  /\ quick = [i \in 1..QuickLength |-> Unread(0)] /\ extended = None /\ shown = "none"
  /\ quick_diagnostics = NoCounts /\ extended_diagnostics = NoCounts

(* What KnowledgeIsOfOneScan says, as a relation of values. *)
OfScan(k, q, x, m) ==
  k # None =>
    /\ \/ {<<f.vcp, f.value>> : f \in {g \in k : ~g.declared}} = Read(Seen(q))
       \/ /\ x # None
          /\ {<<f.vcp, f.value>> : f \in {g \in k : ~g.declared}} =
               Read({e.observation : e \in Seen(x)})
    /\ \A f \in k : f.declared => m # None /\ f.vcp \in DOMAIN m

Known ==
  /\ pc # "idle" \/ ret \in {"SYSTEM", "PROFILE_CONFLICT"} => knowledge = None
  /\ OfScan(knowledge, quick, extended, mccs)

LEMMA KnownIs == KnowledgeIsOfOneScan <=> Known
BY DEF KnowledgeIsOfOneScan, Known, OfScan

LEMMA ZeroRanges == 0 \in 0..FailureLimit /\ 0 \in 0..AddressCount + QuickLength
BY Numbers

LEMMA ZeroCounts ==
  /\ NoCounts.valid = 0 /\ NoCounts.stable = 0 /\ NoCounts.variable = 0
  /\ NoCounts.malformed = 0 /\ NoCounts.attempted = 0 /\ NoCounts.protocol_reported = 0
  /\ NoCounts.transport_error = 0 /\ NoCounts.semantic_mismatch = 0
  /\ NoCounts.advertised = 0 /\ NoCounts.unadvertised = 0 /\ NoCounts.aborted = FALSE
BY DEF NoCounts

LEMMA UnreadQuick ==
  ASSUME NEW q, q = [i \in 1..QuickLength |-> Unread(0)]
  PROVE  /\ q \in [1..QuickLength -> Observations]
         /\ \A i \in 1..QuickLength :
              Sound(q[i]) /\ Declared(q[i]) /\ q[i].category = "UNATTEMPTED"
BY UnreadIsSound

LEMMA BlankInv == Blank => IInv
<1> SUFFICES ASSUME Blank PROVE IInv
  OBVIOUS
<1> USE DEF Blank
<1>1. TypeOK
  <2>1. NoCounts \in Diagnostics
    BY NoCountsTyped
  <2> QED
    BY <2>1, UnreadQuick DEF TypeOK
<1>2. ObservationsOK /\ DeclaredOK /\ QuickOK /\ ExtendedOK /\ RequestedOK /\ AbortIsExact
  BY UnreadQuick DEF ObservationsOK, DeclaredOK, QuickOK, ExtendedOK, RequestedOK, AbortIsExact
<1>3. CountersMatchObservations
  <2>1. QuickCounters(quick, quick_diagnostics)
    BY QuickCountersBegin, ZeroCounts
  <2> QED
    BY <2>1, CountersAre DEF Counters
<1>4. KnowledgeIsOfOneScan
  BY DEF KnowledgeIsOfOneScan
<1> QED
  BY <1>1, <1>2, <1>3, <1>4 DEF IInv

LEMMA InitInv == Init => IInv
<1>1. Init => Blank
  BY ZeroRanges DEF Init, Blank
<1> QED
  BY <1>1, BlankInv

LEMMA FailsInv ==
  ASSUME NEW code \in Returns, Fails(code)
  PROVE  IInv'
<1>1. Blank'
  BY ZeroRanges DEF Fails, Gone, Ends, Blank
<1> QED
  BY <1>1, BlankInv, PTL

LEMMA DestroyInv == IInv /\ Destroy => IInv'
<1> SUFFICES ASSUME IInv, Destroy PROVE IInv'
  OBVIOUS
<1>1. Blank'
  BY DEF IInv, TypeOK, Destroy, Gone, scan, Blank
<1> QED
  BY <1>1, BlankInv, PTL

LEMMA CreateInv == IInv /\ Create => IInv'
<1> SUFFICES ASSUME IInv, Create PROVE IInv'
  OBVIOUS
<1> USE DEF Create, scan
<1>1. TypeOK'
  BY DEF IInv, TypeOK
<1>2. ObservationsOK' /\ DeclaredOK' /\ QuickOK' /\ ExtendedOK' /\ RequestedOK' /\ AbortIsExact'
  BY DEF IInv, ObservationsOK, DeclaredOK, Declared, QuickOK, ExtendedOK, RequestedOK,
         AbortIsExact, Storm
<1>3. CountersMatchObservations'
  BY DEF IInv, CountersMatchObservations
<1>4. KnowledgeIsOfOneScan'
  <2>1. OfScan(knowledge, quick, extended, mccs)
    BY KnownIs DEF IInv, Known
  <2>2. OfScan(knowledge', quick', extended', mccs')
    BY <2>1
  <2>3. pc' = "idle" /\ ret' = None
    OBVIOUS
  <2>4. Known'
    BY <2>2, <2>3, NoneAssumption DEF Known, Returns
  <2> QED
    BY <2>4, KnownIs, PTL
<1> QED
  BY <1>1, <1>2, <1>3, <1>4 DEF IInv

-----------------------------------------------------------------------------
(* The scans begin. *)

(* The declaration's availability is not a counter. *)
LEMMA AvailabilityOnly ==
  ASSUME NEW d \in Diagnostics, NEW v \in BOOLEAN,
         NEW e, e = [d EXCEPT !.mccs_available = v]
  PROVE  /\ e \in Diagnostics
         /\ e.requested = d.requested /\ e.attempted = d.attempted /\ e.aborted = d.aborted
         /\ \A q : QuickCounters(q, d) => QuickCounters(q, e)
         /\ \A x : ExtendedCounters(x, d) => ExtendedCounters(x, e)
<1>1. e \in Diagnostics
  BY NoCountsTyped
<1>2. /\ e.requested = d.requested /\ e.attempted = d.attempted /\ e.aborted = d.aborted
      /\ e.valid = d.valid /\ e.stable = d.stable /\ e.variable = d.variable
      /\ e.malformed = d.malformed /\ e.protocol_reported = d.protocol_reported
      /\ e.transport_error = d.transport_error /\ e.semantic_mismatch = d.semantic_mismatch
      /\ e.advertised = d.advertised /\ e.unadvertised = d.unadvertised
  BY DEF Diagnostics
<1>3. \A q : QuickCounters(q, d) => QuickCounters(q, e)
  BY <1>2 DEF QuickCounters
<1>4. \A x : ExtendedCounters(x, d) => ExtendedCounters(x, e)
  BY <1>2 DEF ExtendedCounters
<1> QED
  BY <1>1, <1>2, <1>3, <1>4

LEMMA LoadsAre ==
  ASSUME NEW load \in Loads
  PROVE  /\ load.held \in Declarations \cup {None} /\ load.available \in BOOLEAN
         /\ load.fails \in BOOLEAN
<1>1. CASE load \in {[held |-> d, available |-> TRUE, fails |-> FALSE] : d \in Declarations}
  <2>1. PICK d \in Declarations : load = [held |-> d, available |-> TRUE, fails |-> FALSE]
    BY <1>1
  <2> QED
    BY <2>1
<1>2. CASE load = [held |-> None, available |-> FALSE, fails |-> FALSE]
  BY <1>2
<1>3. CASE load = [held |-> None, available |-> FALSE, fails |-> TRUE]
  BY <1>3
<1> QED
  BY <1>1, <1>2, <1>3 DEF Loads

LEMMA NothingKnown ==
  ASSUME knowledge' = None
  PROVE  KnowledgeIsOfOneScan'
BY DEF KnowledgeIsOfOneScan

LEMMA BeginQuickInv == IInv /\ BeginQuick => IInv'
<1> SUFFICES ASSUME IInv, BeginQuick PROVE IInv'
  OBVIOUS
<1>1. PICK load \in Loads :
        \/ load.fails /\ Fails("SYSTEM")
        \/ /\ ~(load.fails /\ ours)
           /\ knowledge' = None /\ mccs' = load.held
           /\ quick' = [i \in 1..QuickLength |-> Unread(0)]
           /\ quick_diagnostics' = [NoCounts EXCEPT !.mccs_available = load.available]
           /\ extended_diagnostics' =
                [extended_diagnostics EXCEPT !.mccs_available = load.available]
           /\ IF load.fails THEN Ends("SYSTEM")
              ELSE pc' = "quick" /\ at' = 0 /\ failures' = 0 /\ ret' = None
           /\ UNCHANGED <<target, ours, extended, shown>>
  BY DEF BeginQuick
<1>2. CASE Fails("SYSTEM")
  BY <1>2, FailsInv DEF Returns
<1>3. CASE ~Fails("SYSTEM")
  <2>1. /\ knowledge' = None /\ mccs' = load.held
        /\ quick' = [i \in 1..QuickLength |-> Unread(0)]
        /\ quick_diagnostics' = [NoCounts EXCEPT !.mccs_available = load.available]
        /\ extended_diagnostics' =
             [extended_diagnostics EXCEPT !.mccs_available = load.available]
        /\ target' = target /\ ours' = ours /\ extended' = extended /\ shown' = shown
    BY <1>1, <1>3
  <2>2. /\ pc' \in {"quick", "idle"} /\ at' = 0 /\ failures' = 0
        /\ ret' \in {"SYSTEM", None}
    BY <1>1, <1>3 DEF Ends
  <2>3. /\ load.held \in Declarations \cup {None} /\ load.available \in BOOLEAN
        /\ extended_diagnostics \in Diagnostics /\ NoCounts \in Diagnostics
    BY LoadsAre, NoCountsTyped DEF IInv, TypeOK
  <2>4. /\ quick_diagnostics' \in Diagnostics
        /\ \A q : QuickCounters(q, NoCounts) => QuickCounters(q, quick_diagnostics')
    BY <2>1, <2>3, AvailabilityOnly
  <2>5. /\ extended_diagnostics' \in Diagnostics
        /\ extended_diagnostics'.requested = extended_diagnostics.requested
        /\ extended_diagnostics'.attempted = extended_diagnostics.attempted
        /\ extended_diagnostics'.aborted = extended_diagnostics.aborted
        /\ \A x : ExtendedCounters(x, extended_diagnostics) =>
                    ExtendedCounters(x, extended_diagnostics')
    BY <2>1, <2>3, AvailabilityOnly
  <2>6. /\ quick' \in [1..QuickLength -> Observations]
        /\ \A i \in 1..QuickLength :
             Sound(quick'[i]) /\ quick'[i].category = "UNATTEMPTED"
    BY <2>1, UnreadQuick
  <2>7. TypeOK'
    BY <2>1, <2>2, <2>3, <2>4, <2>5, <2>6, ZeroRanges DEF IInv, TypeOK, Returns
  <2>8. ObservationsOK'
    BY <2>1, <2>2, <2>6 DEF IInv, ObservationsOK
  <2>9. DeclaredOK'
    <3>1. \A i \in 1..QuickLength : Declared(quick[i])'
      BY <2>1 DEF Declared, Unread
    <3> QED
      BY <2>2, <3>1 DEF DeclaredOK
  <2>10. QuickOK' /\ ExtendedOK'
    BY <2>2, <2>6, Numbers DEF QuickOK, ExtendedOK
  <2>11. RequestedOK'
    BY <2>1, <2>5 DEF IInv, RequestedOK
  <2>12. CountersMatchObservations'
    <3>1. QuickCounters(quick', quick_diagnostics')
      BY <2>1, <2>4, QuickCountersBegin, ZeroCounts
    <3>2. shown' = "current" => ExtendedCounters(extended', extended_diagnostics')
      BY <2>1, <2>5, CountersAre DEF IInv, Counters
    <3>3. Counters'
      BY <3>1, <3>2 DEF Counters
    <3> QED
      BY <3>3, CountersAre, PTL
  <2>13. AbortIsExact'
    BY <2>1, <2>5 DEF IInv, AbortIsExact, Storm
  <2> QED
    BY <2>1, <2>7, <2>8, <2>9, <2>10, <2>11, <2>12, <2>13, NothingKnown DEF IInv
<1> QED
  BY <1>2, <1>3

LEMMA ExtendedRefusedInv == IInv /\ ExtendedRefused => IInv'
<1> SUFFICES ASSUME IInv, ExtendedRefused PROVE IInv'
  OBVIOUS
<1>1. CASE Fails("UNSUPPORTED_PROVIDER")
  BY <1>1, FailsInv DEF Returns
<1>2. CASE ~Fails("UNSUPPORTED_PROVIDER")
  <2>1. /\ pc' = "idle" /\ at' = 0 /\ failures' = 0 /\ ret' = "UNSUPPORTED_PROVIDER"
        /\ UNCHANGED <<target, ours, mccs, quick, extended, shown,
                       quick_diagnostics, extended_diagnostics, knowledge>>
    BY <1>2 DEF ExtendedRefused, Ends
  <2>2. TypeOK'
    BY <2>1, ZeroRanges DEF IInv, TypeOK, Returns
  <2>3. /\ ObservationsOK' /\ DeclaredOK' /\ QuickOK' /\ ExtendedOK' /\ RequestedOK'
        /\ AbortIsExact'
    BY <2>1 DEF IInv, ObservationsOK, DeclaredOK, QuickOK, ExtendedOK, RequestedOK,
                AbortIsExact, Storm
  <2>4. CountersMatchObservations'
    BY <2>1 DEF IInv, CountersMatchObservations
  <2>5. KnowledgeIsOfOneScan'
    <3>1. OfScan(knowledge, quick, extended, mccs)
      BY KnownIs DEF IInv, Known
    <3>2. OfScan(knowledge', quick', extended', mccs')
      BY <2>1, <3>1
    <3>3. Known'
      BY <2>1, <3>2 DEF Known
    <3> QED
      BY <3>3, KnownIs, PTL
  <2> QED
    BY <2>2, <2>3, <2>4, <2>5 DEF IInv
<1> QED
  BY <1>1, <1>2

LEMMA ExtendedUnallocatedInv == IInv /\ ExtendedUnallocated => IInv'
<1> SUFFICES ASSUME IInv, ExtendedUnallocated PROVE IInv'
  OBVIOUS
<1>1. CASE Fails("SYSTEM")
  BY <1>1, FailsInv DEF Returns
<1>2. CASE ~Fails("SYSTEM")
  <2>1. /\ pc' = "idle" /\ at' = 0 /\ failures' = 0 /\ ret' = "SYSTEM"
        /\ knowledge' = None /\ mccs' = None /\ extended' = None
        /\ UNCHANGED <<target, ours, quick, quick_diagnostics, extended_diagnostics>>
    BY <1>2 DEF ExtendedUnallocated, Ends
  <2>2. shown' \in {"none", "freed"}
    BY <1>2 DEF ExtendedUnallocated, IInv, TypeOK
  <2>3. TypeOK'
    BY <2>1, <2>2, ZeroRanges DEF IInv, TypeOK, Returns
  <2>4. /\ ObservationsOK' /\ DeclaredOK' /\ QuickOK' /\ ExtendedOK' /\ RequestedOK'
        /\ AbortIsExact'
    BY <2>1, <2>2 DEF IInv, ObservationsOK, DeclaredOK, QuickOK, ExtendedOK, RequestedOK,
                      AbortIsExact
  <2>5. CountersMatchObservations'
    BY <2>1, <2>2 DEF IInv, CountersMatchObservations
  <2> QED
    BY <2>1, <2>3, <2>4, <2>5, NothingKnown DEF IInv
<1> QED
  BY <1>1, <1>2

LEMMA UntouchedAll ==
  ASSUME NEW x, x = [a \in Addresses |-> Untouched(0)]
  PROVE  /\ x \in Extension
         /\ \A a \in Addresses : /\ Sound(x[a].observation) /\ Declared(x[a].observation)
                                 /\ x[a].observation.category = "UNATTEMPTED"
<1>1. /\ Untouched(0) \in ExtendedObservations /\ Sound(Untouched(0).observation)
      /\ Declared(Untouched(0).observation)
      /\ Untouched(0).observation.category = "UNATTEMPTED"
  BY UntouchedIsTyped, UnreadIsSound
<1> QED
  BY <1>1 DEF Extension

LEMMA BeginExtendedInv == IInv /\ BeginExtended => IInv'
<1> SUFFICES ASSUME IInv, BeginExtended PROVE IInv'
  OBVIOUS
<1>1. PICK load \in Loads :
        \/ load.fails /\ Fails("SYSTEM")
        \/ /\ ~(load.fails /\ ours)
           /\ knowledge' = None /\ mccs' = load.held
           /\ extended' = [a \in Addresses |-> Untouched(0)] /\ shown' = "current"
           /\ extended_diagnostics' = [NoCounts EXCEPT !.requested = AddressCount,
                                                       !.mccs_available = load.available]
           /\ quick_diagnostics' =
                [quick_diagnostics EXCEPT !.mccs_available = load.available]
           /\ IF load.fails THEN Ends("SYSTEM")
              ELSE pc' = "extended" /\ at' = 0 /\ failures' = 0 /\ ret' = None
           /\ UNCHANGED <<target, ours, quick>>
  BY DEF BeginExtended
<1>2. CASE Fails("SYSTEM")
  BY <1>2, FailsInv DEF Returns
<1>3. CASE ~Fails("SYSTEM")
  <2>1. /\ knowledge' = None /\ mccs' = load.held
        /\ extended' = [a \in Addresses |-> Untouched(0)] /\ shown' = "current"
        /\ extended_diagnostics' = [NoCounts EXCEPT !.requested = AddressCount,
                                                    !.mccs_available = load.available]
        /\ quick_diagnostics' = [quick_diagnostics EXCEPT !.mccs_available = load.available]
        /\ target' = target /\ ours' = ours /\ quick' = quick
    BY <1>1, <1>3
  <2>2. /\ pc' \in {"extended", "idle"} /\ at' = 0 /\ failures' = 0
        /\ ret' \in {"SYSTEM", None}
    BY <1>1, <1>3 DEF Ends
  <2>3. /\ load.held \in Declarations \cup {None} /\ load.available \in BOOLEAN
        /\ quick_diagnostics \in Diagnostics /\ NoCounts \in Diagnostics
    BY LoadsAre, NoCountsTyped DEF IInv, TypeOK
  <2>4. /\ quick_diagnostics' \in Diagnostics
        /\ \A q : QuickCounters(q, quick_diagnostics) =>
                    QuickCounters(q, quick_diagnostics')
    BY <2>1, <2>3, AvailabilityOnly
  <2>5. /\ extended_diagnostics'.requested = AddressCount
        /\ extended_diagnostics'.attempted = 0
        /\ extended_diagnostics'.aborted = FALSE
        /\ extended_diagnostics'.valid = 0 /\ extended_diagnostics'.stable = 0
        /\ extended_diagnostics'.variable = 0 /\ extended_diagnostics'.malformed = 0
        /\ extended_diagnostics'.protocol_reported = 0
        /\ extended_diagnostics'.transport_error = 0
        /\ extended_diagnostics'.semantic_mismatch = 0
        /\ extended_diagnostics'.advertised = 0 /\ extended_diagnostics'.unadvertised = 0
    BY <2>1 DEF NoCounts
  <2>6. extended_diagnostics' \in Diagnostics
    <3>1. extended_diagnostics' =
            [mccs_available |-> load.available, requested |-> AddressCount,
             attempted |-> 0, valid |-> 0,
             stable |-> 0, variable |-> 0, protocol_reported |-> 0, malformed |-> 0,
             semantic_mismatch |-> 0, transport_error |-> 0, advertised |-> 0,
             unadvertised |-> 0, aborted |-> FALSE]
      BY <2>1 DEF NoCounts
    <3> QED
      BY <2>3, <3>1, Numbers DEF Diagnostics
  <2>7. /\ extended' \in Extension
        /\ \A a \in Addresses : /\ Sound(extended'[a].observation)
                                /\ extended'[a].observation.category = "UNATTEMPTED"
    BY <2>1, UntouchedAll
  <2>8. TypeOK'
    BY <2>1, <2>2, <2>3, <2>4, <2>6, <2>7, ZeroRanges DEF IInv, TypeOK, Returns, Extension
  <2>9. ObservationsOK'
    BY <2>1, <2>2, <2>7 DEF IInv, ObservationsOK
  <2>10. DeclaredOK'
    <3>1. \A a \in Addresses : extended'[a].observation.advertised = "UNKNOWN"
      BY <2>1 DEF Untouched, Unread
    <3>2. \A a \in Addresses : Declared(extended[a].observation)'
      BY <3>1 DEF Declared
    <3> QED
      BY <2>2, <3>2 DEF DeclaredOK
  <2>11. QuickOK' /\ ExtendedOK'
    <3>1. FailureLimit >= 1 /\ FailureLimit \in Nat /\ AddressCount \in Nat
      BY Numbers
    <3>2. \A b \in Addresses : ~(0 - 0 <= b /\ b < 0)
      BY <3>1 DEF Addresses
    <3> QED
      BY <2>2, <2>5, <2>7, <3>1, <3>2 DEF QuickOK, ExtendedOK, Open
  <2>12. RequestedOK'
    BY <2>5 DEF RequestedOK
  <2>13. CountersMatchObservations'
    <3>1. QuickCounters(quick', quick_diagnostics')
      BY <2>1, <2>4, CountersAre DEF IInv, Counters
    <3>2. ExtendedCounters(extended', extended_diagnostics')
      BY <2>1, <2>5, ExtendedCountersBegin
    <3>3. Counters'
      BY <3>1, <3>2 DEF Counters
    <3> QED
      BY <3>3, CountersAre, PTL
  <2>14. AbortIsExact'
    <3>1. ASSUME NEW a \in Addresses PROVE ~Storm(a)'
      <4>1. a \in a + 1 - FailureLimit .. a
        BY Numbers DEF Addresses
      <4>2. extended'[a].observation.category # "TRANSPORT_ERROR"
        BY <2>7
      <4> QED
        BY <4>1, <4>2 DEF Storm
    <3> QED
      BY <2>5, <3>1 DEF AbortIsExact
  <2> QED
    BY <2>1, <2>8, <2>9, <2>10, <2>11, <2>12, <2>13, <2>14, NothingKnown DEF IInv
<1> QED
  BY <1>2, <1>3

-----------------------------------------------------------------------------
(* The scans. *)

LEMMA QuickStepInv == IInv /\ QuickStep => IInv'
<1> SUFFICES ASSUME IInv, QuickStep PROVE IInv'
  OBVIOUS
<1>1. PICK first \in Replies, repeat \in Replies :
        /\ quick' = [quick EXCEPT ![at + 1] =
             Observe(QuickControls[at + 1], first, repeat, quick_diagnostics.mccs_available)]
        /\ quick_diagnostics' = CountQuick(quick_diagnostics,
             Observe(QuickControls[at + 1], first, repeat, quick_diagnostics.mccs_available))
  BY DEF QuickStep
<1> DEFINE i == at + 1
           o == Observe(QuickControls[i], first, repeat, quick_diagnostics.mccs_available)
<1>2. /\ pc = "quick" /\ at < QuickLength /\ at' = i /\ at \in Nat
      /\ UNCHANGED <<target, ours, pc, failures, ret, mccs, extended, shown,
                     extended_diagnostics, knowledge>>
  BY Numbers DEF QuickStep, IInv, TypeOK
<1>3. i \in 1..QuickLength
  BY <1>2, Numbers
<1>4. /\ quick' = [quick EXCEPT ![i] = o]
      /\ quick_diagnostics' = CountQuick(quick_diagnostics, o)
  BY <1>1
<1>5. /\ o \in Observations /\ Sound(o) /\ Declared(o) /\ o.category # "UNATTEMPTED"
  BY <1>3, Numbers, ObserveIsSound
<1> HIDE DEF o
<1>6. /\ quick \in [1..QuickLength -> Observations] /\ quick_diagnostics \in Diagnostics
      /\ quick[i].category = "UNATTEMPTED" /\ QuickCounters(quick, quick_diagnostics)
  <2>1. i > at
    BY <1>2
  <2> QED
    BY <1>2, <1>3, <2>1, CountersAre DEF IInv, TypeOK, QuickOK, Counters
<1>7. /\ QuickCounters(quick', quick_diagnostics') /\ quick_diagnostics' \in Diagnostics
  BY <1>3, <1>4, <1>5, <1>6, QuickCountersStep, QuickCounts
<1>8. /\ quick' \in [1..QuickLength -> Observations]
      /\ \A j \in 1..QuickLength : quick'[j] = IF j = i THEN o ELSE quick[j]
  BY <1>3, <1>4, <1>5, <1>6
<1>9. TypeOK'
  <2>1. i \in 0..AddressCount + QuickLength
    BY <1>3, Numbers
  <2> QED
    BY <1>2, <1>7, <1>8, <2>1 DEF IInv, TypeOK
<1>10. ObservationsOK'
  BY <1>2, <1>5, <1>8 DEF IInv, ObservationsOK
<1>11. DeclaredOK'
  <2>1. \A j \in 1..QuickLength : Declared(quick[j])'
    BY <1>2, <1>5, <1>8 DEF IInv, DeclaredOK, Declared
  <2> QED
    BY <1>2, <2>1 DEF DeclaredOK
<1>12. QuickOK' /\ ExtendedOK' /\ RequestedOK'
  <2>1. \A j \in 1..QuickLength : j > i => j # i /\ j > at
    BY <1>2
  <2>2. i <= QuickLength
    BY <1>3
  <2> QED
    BY <1>2, <1>8, <2>1, <2>2 DEF IInv, QuickOK, ExtendedOK, RequestedOK
<1>13. CountersMatchObservations'
  <2>1. Counters'
    BY <1>2, <1>7, CountersAre DEF IInv, Counters
  <2> QED
    BY <2>1, CountersAre, PTL
<1>14. AbortIsExact'
  BY <1>2 DEF IInv, AbortIsExact, Storm
<1>15. KnowledgeIsOfOneScan'
  BY <1>2, NothingKnown DEF IInv, KnowledgeIsOfOneScan
<1> QED
  BY <1>9, <1>10, <1>11, <1>12, <1>13, <1>14, <1>15 DEF IInv

(* Where the extended scan is, and the run of failures it has counted.     *)
LEMMA ScanIs ==
  ASSUME IInv, pc = "extended", at < AddressCount
  PROVE  /\ at \in Addresses /\ at \in Nat /\ failures \in Nat
         /\ shown = "current" /\ extended \in Extension /\ extended_diagnostics \in Diagnostics
         /\ \A a \in Addresses : Sound(extended[a].observation) /\ Declared(extended[a].observation)
         /\ \A a \in Addresses : a >= at => Open(a)
         /\ ExtendedCounters(extended, extended_diagnostics) /\ knowledge = None
<1>1. at \in Nat /\ failures \in Nat /\ extended_diagnostics \in Diagnostics
  BY Numbers DEF IInv, TypeOK
<1>2. shown = "current" /\ extended \in Extension
      /\ \A a \in Addresses : Sound(extended[a].observation)
  BY DEF IInv, ObservationsOK
<1>3. at \in Addresses
  BY <1>1, Numbers DEF Addresses
<1>4. /\ \A a \in Addresses : Declared(extended[a].observation)
      /\ \A a \in Addresses : a >= at => Open(a)
  BY DEF IInv, DeclaredOK, ExtendedOK
<1>5. ExtendedCounters(extended, extended_diagnostics)
  BY <1>2, CountersAre DEF IInv, Counters
<1>6. knowledge = None
  BY DEF IInv, KnowledgeIsOfOneScan
<1> QED
  BY <1>1, <1>2, <1>3, <1>4, <1>5, <1>6

(* The last address that was read, once one was.                           *)
LEMMA AttemptedInRange ==
  ASSUME IInv, shown = "current", Storm(extended_diagnostics.attempted - 1)
  PROVE  extended_diagnostics.attempted - 1 \in Addresses
<1> DEFINE open == Number(Of(extended), {"UNATTEMPTED"})
           attempted == extended_diagnostics.attempted
<1>1. attempted \in Nat /\ extended_diagnostics.requested = AddressCount
  BY DEF IInv, TypeOK, Diagnostics, RequestedOK
<1>2. attempted = extended_diagnostics.requested - open
  BY CountersAre DEF IInv, Counters, ExtendedCounters
<1>3. open \in Nat
  <2>1. IsFiniteSet({a \in Addresses : Of(extended)[a].category \in {"UNATTEMPTED"}})
    BY Numbers, FS_Subset
  <2>2. open = Cardinality({a \in Addresses : Of(extended)[a].category \in {"UNATTEMPTED"}})
    BY DEF Number, Of
  <2> HIDE DEF open
  <2> QED
    BY <2>1, <2>2, FS_CardinalityType
<1>4. attempted >= FailureLimit
  BY <1>1, Numbers DEF Storm
<1> HIDE DEF open, attempted
<1>5. attempted - 1 \in Addresses
  BY <1>1, <1>2, <1>3, <1>4, Numbers DEF Addresses
<1> QED
  BY <1>5 DEF attempted

LEMMA ExtendedSkipInv == IInv /\ ExtendedSkip => IInv'
<1> SUFFICES ASSUME IInv, ExtendedSkip PROVE IInv'
  OBVIOUS
<1>1. /\ pc = "extended" /\ at < AddressCount /\ extended_diagnostics.aborted
      /\ extended' = [extended EXCEPT ![at] = Untouched(at)] /\ at' = at + 1
      /\ UNCHANGED <<target, ours, pc, failures, ret, mccs, quick, shown,
                     quick_diagnostics, extended_diagnostics, knowledge>>
  BY DEF ExtendedSkip
<1>2. /\ at \in Addresses /\ at \in Nat /\ shown = "current" /\ extended \in Extension
      /\ \A a \in Addresses : Sound(extended[a].observation) /\ Declared(extended[a].observation)
      /\ \A a \in Addresses : a >= at => Open(a)
      /\ ExtendedCounters(extended, extended_diagnostics) /\ knowledge = None
  BY <1>1, ScanIs
<1>3. /\ Untouched(at) \in ExtendedObservations /\ Sound(Untouched(at).observation)
      /\ Declared(Untouched(at).observation)
      /\ Untouched(at).observation.category = "UNATTEMPTED"
  BY <1>2, UntouchedIsTyped, UnreadIsSound
<1>4. /\ extended' \in Extension
      /\ \A a \in Addresses : extended'[a] = IF a = at THEN Untouched(at) ELSE extended[a]
  BY <1>1, <1>2, <1>3 DEF Extension
<1>5. extended[at].observation.category = "UNATTEMPTED"
  BY <1>2 DEF Open
<1>6. \A a \in Addresses :
        extended'[a].observation.category = extended[a].observation.category
  BY <1>3, <1>4, <1>5
<1>7. TypeOK'
  <2>1. at + 1 \in 0..AddressCount + QuickLength
    BY <1>1, <1>2, Numbers
  <2> QED
    BY <1>1, <1>4, <2>1 DEF IInv, TypeOK, Extension
<1>8. ObservationsOK'
  BY <1>1, <1>2, <1>3, <1>4 DEF IInv, ObservationsOK
<1>9. DeclaredOK'
  <2>1. \A a \in Addresses : Declared(extended[a].observation)'
    BY <1>1, <1>2, <1>3, <1>4 DEF Declared
  <2> QED
    BY <1>1, <2>1 DEF DeclaredOK
<1>10. QuickOK' /\ RequestedOK'
  BY <1>1 DEF IInv, QuickOK, RequestedOK
<1>11. ExtendedOK'
  <2>1. at + 1 <= AddressCount
    BY <1>1, <1>2, Numbers
  <2>2. \A a \in Addresses : a >= at + 1 => a >= at
    BY <1>2 DEF Addresses
  <2>3. \A a \in Addresses : a >= at' => Open(a)'
    BY <1>1, <1>2, <1>6, <2>2 DEF Open
  <2> QED
    BY <1>1, <2>1, <2>3 DEF ExtendedOK
<1>12. CountersMatchObservations'
  <2>1. ExtendedCounters(extended', extended_diagnostics)
    BY <1>1, <1>2, <1>5, ExtendedCountersSkip
  <2>2. Counters'
    BY <1>1, <2>1, CountersAre DEF IInv, Counters
  <2> QED
    BY <2>2, CountersAre, PTL
<1>13. AbortIsExact'
  <2>1. \A a \in Addresses : Storm(a)' <=> Storm(a)
    <3> TAKE a \in Addresses
    <3>1. CASE a + 1 >= FailureLimit
      <4>1. \A b \in a + 1 - FailureLimit .. a : b \in Addresses
        BY <3>1, Numbers DEF Addresses
      <4> QED
        BY <1>6, <4>1 DEF Storm
    <3> QED
      BY <3>1 DEF Storm
  <2>2. extended_diagnostics.aborted => extended_diagnostics.attempted - 1 \in Addresses
    BY <1>1, <1>2, AttemptedInRange DEF IInv, AbortIsExact
  <2> QED
    BY <1>1, <1>2, <1>6, <2>1, <2>2 DEF IInv, AbortIsExact
<1>14. KnowledgeIsOfOneScan'
  BY <1>1, <1>2, NothingKnown
<1> QED
  BY <1>7, <1>8, <1>9, <1>10, <1>11, <1>12, <1>13, <1>14 DEF IInv

LEMMA ExtendedStepInv == IInv /\ ExtendedStep => IInv'
<1> SUFFICES ASSUME IInv, ExtendedStep PROVE IInv'
  OBVIOUS
<1> DEFINE d == extended_diagnostics
           lost(b) == extended'[b].observation.category = "TRANSPORT_ERROR"
<1>1. PICK first \in Replies, repeat \in Replies :
        /\ extended' = [extended EXCEPT ![at] =
                          Extend(Observe(at, first, repeat, d.mccs_available))]
        /\ failures' = FailuresAfter(Observe(at, first, repeat, d.mccs_available))
        /\ extended_diagnostics' =
             [CountExtended(d, Observe(at, first, repeat, d.mccs_available))
                EXCEPT !.aborted =
                  FailuresAfter(Observe(at, first, repeat, d.mccs_available)) >= FailureLimit]
  BY DEF ExtendedStep
<1> DEFINE o == Observe(at, first, repeat, d.mccs_available)
           stop == failures' >= FailureLimit
<1>2. /\ pc = "extended" /\ at < AddressCount /\ ~d.aborted /\ at' = at + 1
      /\ UNCHANGED <<target, ours, pc, ret, mccs, quick, shown, quick_diagnostics, knowledge>>
  BY DEF ExtendedStep
<1>3. /\ at \in Addresses /\ at \in Nat /\ failures \in Nat
      /\ shown = "current" /\ extended \in Extension /\ d \in Diagnostics
      /\ \A a \in Addresses : Sound(extended[a].observation) /\ Declared(extended[a].observation)
      /\ \A a \in Addresses : a >= at => Open(a)
      /\ ExtendedCounters(extended, d) /\ knowledge = None
  BY <1>2, ScanIs
<1>4. /\ o \in Observations /\ Sound(o) /\ Declared(o) /\ o.category # "UNATTEMPTED"
  BY <1>3, ObserveIsSound
<1>5. /\ extended' = [extended EXCEPT ![at] = Extend(o)]
      /\ failures' = IF o.category = "TRANSPORT_ERROR" THEN failures + 1 ELSE 0
      /\ extended_diagnostics' = Counted(d, o, stop)
  BY <1>1 DEF FailuresAfter, Counted
<1>6. stop \in BOOLEAN
  OBVIOUS
<1> HIDE DEF o, stop, d
<1>7. Extend(o) \in ExtendedObservations /\ Extend(o).observation = o
  BY <1>4, ExtendIsTyped
<1>8. /\ extended' \in Extension
      /\ \A a \in Addresses : extended'[a] = IF a = at THEN Extend(o) ELSE extended[a]
  BY <1>3, <1>5, <1>7 DEF Extension
<1>9. \A a \in Addresses :
        extended'[a].observation = IF a = at THEN o ELSE extended[a].observation
  BY <1>7, <1>8
<1>10. extended[at].observation.category = "UNATTEMPTED" /\ Sound(extended[at].observation)
  BY <1>3 DEF Open
<1>11. Added(d, o, stop, extended_diagnostics')
  BY <1>3, <1>4, <1>5, <1>6, ExtendedCounts, Zenon
<1>12. /\ extended_diagnostics' \in Diagnostics
       /\ extended_diagnostics'.requested = d.requested
       /\ extended_diagnostics'.aborted = stop
       /\ extended_diagnostics'.attempted = d.attempted + 1
  BY <1>11 DEF Added
<1>13. ExtendedCounters(extended', extended_diagnostics')
  BY <1>3, <1>4, <1>5, <1>6, <1>10, ExtendedCountersStep, ZenonT(30)
(* The run of failures. *)
<1>14. /\ d.attempted = at /\ failures < FailureLimit /\ failures <= at
       /\ \A b \in Addresses : at - failures <= b /\ b < at => Lost(b)
       /\ failures < at => ~Lost(at - failures - 1)
  BY <1>2 DEF IInv, ExtendedOK, d
<1>15. \A b \in Addresses : lost(b) <=> IF b = at THEN o.category = "TRANSPORT_ERROR"
                                         ELSE Lost(b)
  BY <1>9 DEF Lost
<1>16. \A a \in Addresses : a >= at + 1 => Open(a)'
  <2>1. \A a \in Addresses : a >= at + 1 => a >= at /\ a # at
    BY <1>3 DEF Addresses
  <2> QED
    BY <1>3, <1>9, <2>1 DEF Open
<1>17. /\ failures' \in Nat /\ failures' <= at + 1 /\ failures' <= FailureLimit
       /\ \A b \in Addresses : at + 1 - failures' <= b /\ b < at + 1 => lost(b)
       /\ failures' < at + 1 => ~lost(at + 1 - failures' - 1)
  <2>1. CASE o.category = "TRANSPORT_ERROR"
    <3>1. failures' = failures + 1
      BY <1>5, <2>1
    <3>2. failures' \in Nat /\ failures' <= at + 1 /\ failures' <= FailureLimit
      BY <1>3, <1>14, <3>1, Numbers
    <3>3. \A b \in Addresses : at + 1 - failures' <= b /\ b < at + 1 => lost(b)
      <4>1. \A b \in Addresses : at + 1 - failures' <= b /\ b < at + 1 =>
              b = at \/ (at - failures <= b /\ b < at)
        BY <1>3, <3>1 DEF Addresses
      <4> QED
        BY <1>14, <1>15, <2>1, <4>1
    <3>4. ASSUME failures' < at + 1 PROVE ~lost(at + 1 - failures' - 1)
      <4>1. /\ failures < at /\ at - failures - 1 \in Addresses /\ at - failures - 1 # at
            /\ at + 1 - failures' - 1 = at - failures - 1
        BY <1>3, <3>1, <3>4, Numbers DEF Addresses
      <4>2. ~Lost(at - failures - 1)
        BY <1>14, <4>1
      <4>3. (at + 1 - failures' - 1) \in Addresses
        BY <4>1
      <4> QED
        BY <1>9, <4>1, <4>2, <4>3 DEF Lost
    <3> QED
      BY <3>2, <3>3, <3>4
  <2>2. CASE o.category # "TRANSPORT_ERROR"
    <3>1. failures' = 0
      BY <1>5, <2>2
    <3>2. failures' \in Nat /\ failures' <= at + 1 /\ failures' <= FailureLimit
      BY <1>3, <3>1, Numbers
    <3>3. \A b \in Addresses : ~(at + 1 - failures' <= b /\ b < at + 1)
      BY <1>3, <3>1 DEF Addresses
    <3>4. at + 1 - failures' - 1 = at
      BY <1>3, <3>1
    <3>5. ~lost(at + 1 - failures' - 1)
      BY <1>3, <1>9, <2>2, <3>4 DEF Lost
    <3> QED
      BY <3>2, <3>3, <3>5
  <2> QED
    BY <2>1, <2>2
(* What the abort is about. *)
<1>18. \A a \in Addresses : Storm(a)' <=> a = at /\ stop
  <2> DEFINE run(x, a) == \A b \in a + 1 - FailureLimit .. a :
                            x[b].observation.category = "TRANSPORT_ERROR"
  <2>1. \A a \in Addresses : ~Storm(a)
    BY <1>2, <1>3 DEF IInv, AbortIsExact, d
  <2>2. ASSUME NEW a \in Addresses, a < at PROVE ~Storm(a)'
    <3>1. CASE a + 1 >= FailureLimit
      <4>1. \A b \in a + 1 - FailureLimit .. a : b \in Addresses /\ b # at
        BY <1>3, <2>2, <3>1, Numbers DEF Addresses
      <4> QED
        BY <1>9, <2>1, <4>1 DEF Storm
    <3> QED
      BY <3>1 DEF Storm
  <2>3. ASSUME NEW a \in Addresses, a > at PROVE ~Storm(a)'
    <3>1. extended'[a].observation.category = "UNATTEMPTED"
      BY <1>3, <1>16, <2>3 DEF Open, Addresses
    <3>2. a \in a + 1 - FailureLimit .. a
      BY Numbers DEF Addresses
    <3> QED
      BY <3>1, <3>2 DEF Storm
  <2>4. ASSUME stop PROVE at + 1 >= FailureLimit /\ run(extended', at)
    <3>1. failures' = FailureLimit
      BY <1>17, <2>4, Numbers DEF stop
    <3>2. at + 1 >= FailureLimit
      BY <1>3, <1>17, <3>1
    <3>3. \A b \in at + 1 - FailureLimit .. at :
            b \in Addresses /\ at + 1 - failures' <= b /\ b < at + 1
      BY <1>3, <3>1, <3>2, Numbers DEF Addresses
    <3> QED
      BY <1>17, <3>2, <3>3
  <2>5. ASSUME ~stop, at + 1 >= FailureLimit PROVE ~run(extended', at)
    <3>1. failures' < FailureLimit
      BY <1>17, <2>5, Numbers DEF stop
    <3> DEFINE k == failures'
    <3>5. k \in Nat /\ k < FailureLimit /\ at \in Nat /\ at + 1 >= FailureLimit
          /\ FailureLimit \in Nat
      BY <1>3, <1>17, <2>5, <3>1, Numbers
    <3> HIDE DEF k
    <3>6. k < at + 1 /\ at + 1 - k - 1 \in at + 1 - FailureLimit .. at
      BY ONLY <3>5
    <3>2. failures' < at + 1
      BY <3>6 DEF k
    <3>3. at + 1 - failures' - 1 \in at + 1 - FailureLimit .. at
      BY <3>6 DEF k
    <3>4. ~lost(at + 1 - failures' - 1)
      BY <1>17, <3>2
    <3> QED
      BY <3>3, <3>4
  <2>6. ASSUME NEW a \in Addresses, a = at PROVE Storm(a)' <=> stop
    <3>1. CASE stop
      BY <2>4, <2>6, <3>1 DEF Storm
    <3>2. CASE ~stop
      BY <2>5, <2>6, <3>2 DEF Storm
    <3> QED
      BY <3>1, <3>2
  <2> TAKE a \in Addresses
  <2>7. a < at \/ a = at \/ a > at
    BY <1>3 DEF Addresses
  <2>8. CASE a = at
    BY <2>6, <2>8
  <2>9. CASE a # at
    <3>1. ~Storm(a)'
      BY <2>2, <2>3, <2>7, <2>9
    <3> QED
      BY <2>9, <3>1
  <2> QED
    BY <2>8, <2>9
<1>19. TypeOK'
  <2>1. at + 1 \in 0..AddressCount + QuickLength
    BY <1>2, <1>3, Numbers
  <2>2. failures' \in 0..FailureLimit
    BY <1>17, Numbers
  <2> QED
    BY <1>2, <1>8, <1>12, <2>1, <2>2 DEF IInv, TypeOK, Extension
<1>20. ObservationsOK'
  BY <1>2, <1>3, <1>4, <1>8, <1>9 DEF IInv, ObservationsOK
<1>21. DeclaredOK'
  <2>1. \A a \in Addresses : Declared(extended[a].observation)'
    BY <1>2, <1>3, <1>4, <1>9 DEF Declared
  <2> QED
    BY <1>2, <2>1 DEF DeclaredOK
<1>22. QuickOK' /\ RequestedOK'
  BY <1>2, <1>12 DEF IInv, QuickOK, RequestedOK, d
<1>23. ExtendedOK'
  <2>1. at' = at + 1 /\ at + 1 <= AddressCount
    BY <1>2, <1>3, Numbers
  <2>2. \A a \in Addresses : a >= at' => Open(a)'
    BY <1>2, <1>16
  <2>3. ASSUME ~stop
        PROVE  /\ extended_diagnostics'.attempted = at'
               /\ failures' < FailureLimit /\ failures' <= at'
               /\ \A b \in Addresses : at' - failures' <= b /\ b < at' => Lost(b)'
               /\ failures' < at' =>
                    extended'[at' - failures' - 1].observation.category # "TRANSPORT_ERROR"
    <3>1. failures' < FailureLimit
      BY <1>17, <2>3, Numbers DEF stop
    <3>2. extended_diagnostics'.attempted = at'
      BY <1>12, <1>14, <2>1
    <3>3. /\ failures' <= at'
          /\ \A b \in Addresses : at' - failures' <= b /\ b < at' => Lost(b)'
      <4>1. failures' <= at'
        BY <1>17, <2>1
      <4>2. ASSUME NEW b \in Addresses, at' - failures' <= b, b < at' PROVE Lost(b)'
        <5>1. at + 1 - failures' <= b /\ b < at + 1
          <6> DEFINE k == failures'
                     n == at'
          <6>1. /\ k \in Nat /\ at \in Nat /\ b \in Int /\ n = at + 1
                /\ n - k <= b /\ b < n
            <7>1. k \in Nat
              BY <1>17
            <7>2. at \in Nat
              BY <1>3
            <7>3. b \in Int
              BY Numbers DEF Addresses
            <7>4. n = at + 1
              BY <2>1
            <7>5. n - k <= b
              BY <4>2
            <7>6. b < n
              BY <4>2
            <7> QED
              BY ONLY <7>1, <7>2, <7>3, <7>4, <7>5, <7>6
          <6> HIDE DEF k, n
          <6>2. at + 1 - k <= b /\ b < at + 1
            BY ONLY <6>1
          <6> QED
            BY <6>2 DEF k
        <5>2. lost(b)
          BY <1>17, <5>1
        <5> QED
          BY <5>2 DEF Lost
      <4> QED
        BY <4>1, <4>2
    <3>4. failures' < at' =>
            extended'[at' - failures' - 1].observation.category # "TRANSPORT_ERROR"
      BY <1>3, <1>17, <2>1, Numbers DEF Addresses
    <3> QED
      BY <3>1, <3>2, <3>3, <3>4
  <2> QED
    BY <1>12, <2>1, <2>2, <2>3 DEF ExtendedOK, Lost
<1>24. CountersMatchObservations'
  <2>1. Counters'
    BY <1>2, <1>13, CountersAre DEF IInv, Counters
  <2> QED
    BY <2>1, CountersAre, PTL
<1>25. AbortIsExact'
  <2>1. extended_diagnostics'.aborted <=> \E a \in Addresses : Storm(a)'
    BY <1>3, <1>12, <1>18
  <2>2. ASSUME stop
        PROVE  /\ \E a \in Addresses : a = extended_diagnostics'.attempted - 1 /\ Storm(a)'
               /\ \A a \in Addresses : a >= extended_diagnostics'.attempted =>
                    extended'[a].observation.category = "UNATTEMPTED"
    <3>1. extended_diagnostics'.attempted = at + 1 /\ at = at + 1 - 1
      BY <1>3, <1>12, <1>14
    <3> QED
      BY <1>3, <1>16, <1>18, <2>2, <3>1 DEF Open
  <2> QED
    BY <1>12, <2>1, <2>2 DEF AbortIsExact, Storm
<1>26. KnowledgeIsOfOneScan'
  BY <1>2, <1>3, NothingKnown
<1> QED
  BY <1>19, <1>20, <1>21, <1>22, <1>23, <1>24, <1>25, <1>26 DEF IInv

-----------------------------------------------------------------------------
(* The scans end. *)

(* The facts of a set of observations are what was read and is declared.   *)
LEMMA FactsAre ==
  ASSUME NEW observations \in SUBSET Observations, NEW k, k = FactsOf(observations),
         \A o \in observations : Sound(o)
  PROVE  /\ k \subseteq Facts
         /\ {<<f.vcp, f.value>> : f \in {g \in k : ~g.declared}} = Read(observations)
         /\ \A f \in k : f.declared =>
              \E o \in observations : o.advertised = "YES" /\ o.vcp = f.vcp
<1> DEFINE read(o) == [vcp |-> o.vcp, declared |-> FALSE, value |-> o.current_value]
           declared(o) == [vcp |-> o.vcp, declared |-> TRUE, value |-> None]
           R == {o \in observations : o.strict_valid}
           D == {o \in observations : o.advertised = "YES"}
<1>1. k = {read(o) : o \in R} \cup {declared(o) : o \in D}
  BY DEF FactsOf
<1>2. \A o \in observations : o.vcp \in Addresses
  BY Numbers DEF Observations
<1>3. \A o \in R : o.current_value \in Values
  BY DEF Sound
<1>4. \A o \in R : read(o) \in Facts
  BY <1>2, <1>3 DEF Facts
<1>5. \A o \in D : declared(o) \in Facts
  BY <1>2 DEF Facts
<1>6. k \subseteq Facts
  BY <1>1, <1>4, <1>5
<1>7. {g \in k : ~g.declared} = {read(o) : o \in R}
  BY <1>1
<1>8. {<<f.vcp, f.value>> : f \in {read(o) : o \in R}} = {<<o.vcp, o.current_value>> : o \in R}
  <2>1. \A o \in R : <<read(o).vcp, read(o).value>> = <<o.vcp, o.current_value>>
    OBVIOUS
  <2> HIDE DEF read, R
  <2> QED
    BY <2>1
<1>9. R = {o \in observations : o.category \in Valid}
  BY DEF Sound
<1>10. {<<f.vcp, f.value>> : f \in {g \in k : ~g.declared}} = Read(observations)
  BY <1>7, <1>8, <1>9 DEF Read
<1>11. \A f \in k : f.declared =>
         \E o \in observations : o.advertised = "YES" /\ o.vcp = f.vcp
  <2> TAKE f \in k
  <2>1. CASE f \in {read(o) : o \in R}
    BY <2>1
  <2>2. CASE f \in {declared(o) : o \in D}
    BY <2>2
  <2> QED
    BY <1>1, <2>1, <2>2
<1> QED
  BY <1>6, <1>10, <1>11

LEMMA BuildInv ==
  ASSUME IInv, NEW observations \in SUBSET Observations, Build(observations),
         pc \in {"quick", "extended"},
         \A o \in observations : Sound(o) /\ Declared(o),
         \/ observations = Seen(quick)
         \/ extended # None /\ observations = {e.observation : e \in Seen(extended)}
  PROVE  IInv'
<1>1. CASE /\ Fits(FactsOf(observations))
           /\ knowledge' = FactsOf(observations) /\ ours' = FALSE /\ Ends("OK")
           /\ UNCHANGED <<target, mccs, quick, extended, shown,
                          quick_diagnostics, extended_diagnostics>>
  <2>1. /\ pc' = "idle" /\ at' = 0 /\ failures' = 0 /\ ret' = "OK" /\ ours' = FALSE
        /\ UNCHANGED <<target, mccs, quick, extended, shown,
                       quick_diagnostics, extended_diagnostics>>
    BY <1>1 DEF Ends
  <2>2. /\ knowledge' \subseteq Facts
        /\ {<<f.vcp, f.value>> : f \in {g \in knowledge' : ~g.declared}} = Read(observations)
        /\ \A f \in knowledge' : f.declared =>
             \E o \in observations : o.advertised = "YES" /\ o.vcp = f.vcp
    BY <1>1, FactsAre
  <2>3. Cardinality(knowledge') <= MaxFacts
    BY <1>1 DEF Fits
  <2>4. TypeOK'
    BY <2>1, <2>2, <2>3, ZeroRanges DEF IInv, TypeOK, Returns
  <2>5. /\ ObservationsOK' /\ DeclaredOK' /\ QuickOK' /\ ExtendedOK' /\ RequestedOK'
        /\ AbortIsExact'
    BY <2>1 DEF IInv, ObservationsOK, DeclaredOK, QuickOK, ExtendedOK, RequestedOK,
                AbortIsExact, Storm
  <2>6. CountersMatchObservations'
    BY <2>1 DEF IInv, CountersMatchObservations
  <2>7. KnowledgeIsOfOneScan'
    <3>1. \A f \in knowledge' : f.declared => mccs # None /\ f.vcp \in DOMAIN mccs
      BY <2>2 DEF Declared
    <3>2. OfScan(knowledge', quick, extended, mccs)
      BY <2>2, <3>1 DEF OfScan
    <3>3. OfScan(knowledge', quick', extended', mccs')
      BY <2>1, <3>2
    <3>4. Known'
      BY <2>1, <3>3 DEF Known
    <3> QED
      BY <3>4, KnownIs, PTL
  <2> QED
    BY <2>4, <2>5, <2>6, <2>7 DEF IInv
<1>2. ASSUME NEW code \in {"SYSTEM", "PROFILE_CONFLICT"}, ~ours, Ends(code),
             UNCHANGED <<target, ours, mccs, quick, extended, shown, knowledge,
                         quick_diagnostics, extended_diagnostics>>
      PROVE  IInv'
  <2>1. /\ pc' = "idle" /\ at' = 0 /\ failures' = 0 /\ ret' = code
        /\ UNCHANGED <<target, ours, mccs, quick, extended, shown, knowledge,
                       quick_diagnostics, extended_diagnostics>>
    BY <1>2 DEF Ends
  <2>2. knowledge = None
    BY DEF IInv, KnowledgeIsOfOneScan
  <2>3. TypeOK'
    BY <2>1, ZeroRanges DEF IInv, TypeOK, Returns
  <2>4. /\ ObservationsOK' /\ DeclaredOK' /\ QuickOK' /\ ExtendedOK' /\ RequestedOK'
        /\ AbortIsExact'
    BY <2>1 DEF IInv, ObservationsOK, DeclaredOK, QuickOK, ExtendedOK, RequestedOK,
                AbortIsExact, Storm
  <2>5. CountersMatchObservations'
    BY <2>1 DEF IInv, CountersMatchObservations
  <2> QED
    BY <2>1, <2>2, <2>3, <2>4, <2>5, NothingKnown DEF IInv
<1>3. ASSUME NEW code \in {"SYSTEM", "PROFILE_CONFLICT"}, Fails(code)
      PROVE  IInv'
  BY <1>3, FailsInv DEF Returns
<1> QED
  BY <1>1, <1>2, <1>3 DEF Build

LEMMA QuickEndsInv == IInv /\ QuickEnds => IInv'
<1> SUFFICES ASSUME IInv, QuickEnds PROVE IInv'
  OBVIOUS
<1>1. pc = "quick" /\ Build(Seen(quick))
  BY DEF QuickEnds
<1>2. \A i \in 1..QuickLength :
        quick[i] \in Observations /\ Sound(quick[i]) /\ Declared(quick[i])
  BY <1>1 DEF IInv, TypeOK, ObservationsOK, DeclaredOK
<1>3. \A o \in Seen(quick) : o \in Observations /\ Sound(o) /\ Declared(o)
  BY <1>2 DEF Seen, IInv, TypeOK
<1> QED
  BY <1>1, <1>3, BuildInv

LEMMA ExtendedEndsInv == IInv /\ ExtendedEnds => IInv'
<1> SUFFICES ASSUME IInv, ExtendedEnds PROVE IInv'
  OBVIOUS
<1> DEFINE observations == {e.observation : e \in Seen(extended)}
<1>1. pc = "extended" /\ Build(observations)
  BY DEF ExtendedEnds
<1>2. /\ extended \in Extension
      /\ \A a \in Addresses : /\ extended[a].observation \in Observations
                              /\ Sound(extended[a].observation)
                              /\ Declared(extended[a].observation)
  BY <1>1 DEF IInv, ObservationsOK, DeclaredOK, Extension, ExtendedObservations
<1>3. extended # None
  BY <1>2, NoneAssumption DEF Extension
<1>4. \A o \in observations : o \in Observations /\ Sound(o) /\ Declared(o)
  BY <1>2 DEF Seen, Extension
<1> QED
  BY <1>1, <1>3, <1>4, BuildInv

-----------------------------------------------------------------------------
(* The theorems. *)

LEMMA StepInv == IInv /\ [Next]_vars => IInv'
<1> SUFFICES ASSUME IInv, [Next]_vars PROVE IInv'
  OBVIOUS
<1>1. CASE Next
  BY <1>1, CreateInv, DestroyInv, BeginQuickInv, ExtendedRefusedInv, ExtendedUnallocatedInv,
     BeginExtendedInv, QuickStepInv, ExtendedStepInv, ExtendedSkipInv, QuickEndsInv,
     ExtendedEndsInv DEF Next
<1>2. CASE UNCHANGED vars
  <2>1. UNCHANGED <<target, ours, pc, at, failures, ret, mccs, quick, extended, shown,
                    quick_diagnostics, extended_diagnostics, knowledge>>
    BY <1>2 DEF vars, scan
  <2>2. TypeOK'
    BY <2>1 DEF IInv, TypeOK
  <2>3. ObservationsOK' /\ QuickOK' /\ ExtendedOK' /\ RequestedOK' /\ AbortIsExact'
    BY <2>1 DEF IInv, ObservationsOK, QuickOK, ExtendedOK, Open, Lost, RequestedOK,
                AbortIsExact, Storm
  <2>4. DeclaredOK'
    BY <2>1 DEF IInv, DeclaredOK, Declared
  <2>5. CountersMatchObservations'
    BY <2>1 DEF IInv, CountersMatchObservations
  <2>6. KnowledgeIsOfOneScan'
    <3>1. OfScan(knowledge, quick, extended, mccs)
      BY KnownIs DEF IInv, Known
    <3>2. OfScan(knowledge', quick', extended', mccs')
      BY <2>1, <3>1
    <3>3. Known'
      BY <2>1, <3>2, KnownIs DEF IInv, Known
    <3> QED
      BY <3>3, KnownIs, PTL
  <2> QED
    BY <2>2, <2>3, <2>4, <2>5, <2>6 DEF IInv
<1> QED
  BY <1>1, <1>2

(* What every state of a probe satisfies: its parts are typed, a counted   *)
(* reply was read, and the run of failures is the one the scan saw last.   *)
THEOREM Invariance == Spec => []IInv
<1> QED
  BY InitInv, StepInv, PTL DEF Spec

(* The probe's fields have their types, and knowledge fits its array.      *)
THEOREM TypeCorrect == Spec => []TypeOK
<1>1. IInv => TypeOK
  BY DEF IInv
<1> QED
  BY <1>1, Invariance, PTL

(* The counters of either scan are those of the observations it holds, at  *)
(* every moment and after any sequence of scans and failures.              *)
THEOREM CountersAgree == Spec => []CountersMatchObservations
<1>1. IInv => CountersMatchObservations
  BY DEF IInv
<1> QED
  BY <1>1, Invariance, PTL

(* What a probe knows is what one scan read and what it holds declares.    *)
THEOREM KnowledgeAgrees == Spec => []KnowledgeIsOfOneScan
<1>1. IInv => KnowledgeIsOfOneScan
  BY DEF IInv
<1> QED
  BY <1>1, Invariance, PTL

(* The extended scan stops after exactly as many failures in a row as it   *)
(* tolerates, and reports nothing read beyond.                             *)
THEOREM AbortsExactly == Spec => []AbortIsExact
<1>1. IInv => AbortIsExact
  BY DEF IInv
<1> QED
  BY <1>1, Invariance, PTL
=============================================================================
