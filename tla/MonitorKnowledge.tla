-------------------------- MODULE MonitorKnowledge --------------------------
(***************************************************************************)
(* Monitor knowledge: facts about the routes by which a monitor may be     *)
(* controlled, kept with their provenance, merged, and resolved to the     *)
(* route that is preferred for reading and for writing                     *)
(* (core/monitor_knowledge.c).                                             *)
(*                                                                         *)
(* The loops of merge and resolve are modelled one route at a time, with   *)
(* their accumulators as variables.                                        *)
(***************************************************************************)
EXTENDS Integers, Sequences, FiniteSets

CONSTANTS
  Objects,    \* the knowledge objects a caller may hold
  Routes,     \* RSSDDCKnowledgeRoute: [fact, provenance], the valid ones
  Controls,   \* [semantic_id, source_id, control] given as profile controls
  MaxRoutes,  \* RSS_DDC_KNOWLEDGE_MAX_ROUTES
  MaxSources, \* bound on the sources of one resolution
  None

Sources == {"LOCAL", "VALIDATED_PACK", "BUILTIN", "RESEARCH"}
Values == {"UNKNOWN", "UNSIGNED", "STRING", "UNSUPPORTED"}
Confidences == 0..5

(* What route_equivalent compares, in the parts that resolution reads and  *)
(* one, the content, for the rest of it.                                   *)
IsFact(f) ==
  /\ DOMAIN f = {"semantic_id", "content", "readable", "writable",
                 "write_authorized", "value"}
  /\ f.readable \in BOOLEAN /\ f.writable \in BOOLEAN
  /\ f.write_authorized \in BOOLEAN /\ f.value \in Values

(* source_id stands for its place in the order of strcmp, evidence_id for   *)
(* the evidence and the class of the fact.                                 *)
IsProvenance(p) ==
  /\ DOMAIN p = {"source_id", "source", "confidence", "evidence_id"}
  /\ p.source_id \in Nat /\ p.source \in Sources /\ p.confidence \in Confidences

(* rss_ddc_monitor_knowledge_add_profile_control's route *)
RouteOf(c) ==
  [fact |->
     [semantic_id |-> c.semantic_id, content |-> c.control.content,
      readable |-> c.control.readable, writable |-> c.control.writable,
      write_authorized |-> c.control.write_authorized, value |-> "UNKNOWN"],
   provenance |->
     [source_id |-> c.source_id, source |-> c.control.source,
      confidence |-> c.control.confidence, evidence_id |-> "none"]]

Facts == Routes \cup {RouteOf(c) : c \in Controls}
SemanticIds == {r.fact.semantic_id : r \in Facts}

ASSUME RouteAssumption ==
  \A r \in Facts : IsFact(r.fact) /\ IsProvenance(r.provenance)
ASSUME BoundAssumption == MaxRoutes \in Nat \ {0} /\ MaxSources \in Nat \ {0}
ASSUME NoneAssumption == None \notin Seq(Facts) /\ None \notin Facts

VARIABLES
  knowledge,           \* what each object holds: its routes, in order
  pc, ret,
  sources, semantic,   \* the arguments of the call
  source, index,       \* where its loop stands
  result,              \* merge: the object under construction
  merged,              \* the caller's *merged
  candidates, read, write, state,   \* resolve: the view under construction
  resolution           \* the caller's *resolution

call == <<sources, semantic, source, index>>
view == <<candidates, read, write, state>>
vars == <<knowledge, pc, ret, call, result, merged, view, resolution>>

States == {"UNRESOLVED", "RESOLVED", "CONFLICT"}
Views == [candidates : Seq(Facts), read : Facts \cup {None},
          write : Facts \cup {None}, state : States]
Returns == {"OK", "ARGUMENT", "SYSTEM", "PROFILE_CONFLICT", "NOT_FOUND"}

TypeOK ==
  /\ knowledge \in [Objects -> Seq(Facts) \cup {None}]
  /\ pc \in {"idle", "merging", "resolving", "merged", "resolved"}
  /\ ret \in Returns \cup {None}
  /\ sources \in Seq(Objects) /\ semantic \in SemanticIds \cup {None}
  /\ source \in Nat \ {0} /\ index \in Nat \ {0}
  /\ result \in Seq(Facts) /\ merged \in Seq(Facts) \cup {None}
  /\ candidates \in Seq(Facts) /\ Len(candidates) <= MaxRoutes /\ state \in States
  /\ read \in Facts \cup {None} /\ write \in Facts \cup {None}
  /\ resolution \in Views \cup {None}

Elements(s) == {s[i] : i \in 1..Len(s)}

-----------------------------------------------------------------------------
(* rss_ddc_monitor_knowledge_add_route: what an object holds afterwards,   *)
(* and the result.                                                         *)

Equivalent(first, second) == first.fact = second.fact
Identical(first, second) == first = second

(* Mutant: a fact from another source counts as a repetition. *)
MutHolds(routes, route) == \E i \in 1..Len(routes) : Equivalent(routes[i], route)

(* Mutant: only the last fact is compared. *)
MutHoldsLast(routes, route) == Len(routes) > 0 /\ Identical(routes[Len(routes)], route)

Holds(routes, route) == \E i \in 1..Len(routes) : Identical(routes[i], route)

Addition(routes, route) ==
  IF Holds(routes, route) THEN routes
  ELSE IF Len(routes) = MaxRoutes THEN None
  ELSE Append(routes, route)

Idle == pc = "idle"

Create(o) ==
  /\ Idle /\ knowledge[o] = None
  /\ knowledge' = [knowledge EXCEPT ![o] = <<>>]
  /\ ret' = None
  /\ UNCHANGED <<pc, call, result, merged, view, resolution>>

Destroy(o) ==
  /\ Idle /\ knowledge[o] # None
  /\ knowledge' = [knowledge EXCEPT ![o] = None]
  /\ ret' = None
  /\ UNCHANGED <<pc, call, result, merged, view, resolution>>

AddRoute(o, route) ==
  /\ Idle /\ knowledge[o] # None
  /\ IF Addition(knowledge[o], route) = None
     THEN ret' = "PROFILE_CONFLICT" /\ UNCHANGED knowledge
     ELSE /\ ret' = "OK"
          /\ knowledge' = [knowledge EXCEPT ![o] = Addition(knowledge[o], route)]
  /\ UNCHANGED <<pc, call, result, merged, view, resolution>>

AddProfileControl(o, c) == AddRoute(o, RouteOf(c))

(* A NULL object, a route that is not valid, a text that does not fit.     *)
AddRejected ==
  /\ Idle
  /\ ret' \in {"ARGUMENT", "SYSTEM"}
  /\ UNCHANGED <<knowledge, pc, call, result, merged, view, resolution>>

-----------------------------------------------------------------------------
(* rss_ddc_monitor_knowledge_merge *)

Merge(first, second) ==
  /\ Idle /\ knowledge[first] # None /\ knowledge[second] # None
  /\ sources' = <<first, second>> /\ source' = 1 /\ index' = 1
  /\ result' = <<>> /\ merged' = None
  /\ \/ pc' = "merging" /\ ret' = None
     \/ pc' = "merged" /\ ret' = "SYSTEM"
  /\ UNCHANGED <<knowledge, semantic, view, resolution>>

Here == knowledge[sources[source]]

(* Mutant: the second source is read from where the first one ended. *)
MutNextSource ==
  /\ source' = source + 1
  /\ UNCHANGED <<knowledge, pc, ret, sources, semantic, index, result, merged,
                 view, resolution>>

NextSource ==
  /\ source' = source + 1 /\ index' = 1
  /\ UNCHANGED <<knowledge, pc, ret, sources, semantic, result, merged, view,
                 resolution>>

MergeRoute ==
  /\ pc = "merging" /\ source <= Len(sources)
  /\ IF index > Len(Here) THEN NextSource
     ELSE LET sum == Addition(result, Here[index]) IN
       /\ IF sum = None
          THEN pc' = "merged" /\ ret' = "PROFILE_CONFLICT" /\ result' = <<>>
          ELSE result' = sum /\ UNCHANGED <<pc, ret>>
       /\ index' = index + 1
       /\ UNCHANGED <<knowledge, sources, semantic, source, merged, view, resolution>>

MergeEnds ==
  /\ pc = "merging" /\ source > Len(sources)
  /\ pc' = "merged" /\ ret' = "OK" /\ merged' = result
  /\ UNCHANGED <<knowledge, call, result, view, resolution>>

-----------------------------------------------------------------------------
(* rss_ddc_monitor_knowledge_resolve *)

SourceRank(class) == CASE class = "LOCAL" -> 4 [] class = "VALIDATED_PACK" -> 3
                       [] class = "BUILTIN" -> 2 [] class = "RESEARCH" -> 1

Authority(route) ==
  route.provenance.confidence * 8 + SourceRank(route.provenance.source)

(* Mutant: the source class outranks the confidence. *)
MutPreferred(candidate, selected) ==
  IF selected = None
     \/ SourceRank(candidate.provenance.source) > SourceRank(selected.provenance.source)
  THEN candidate
  ELSE selected

(* select_route's choice. *)
Preferred(candidate, selected) ==
  IF \/ selected = None
     \/ Authority(candidate) > Authority(selected)
     \/ /\ Authority(candidate) = Authority(selected)
        /\ Equivalent(candidate, selected)
        /\ candidate.provenance.source_id < selected.provenance.source_id
  THEN candidate ELSE selected

(* Mutant: the lower authority of two counts too. *)
MutDisagrees(candidate, selected) ==
  selected # None /\ ~Equivalent(candidate, selected)

(* select_route's conflict. *)
Disagrees(candidate, selected) ==
  /\ selected # None /\ Authority(candidate) = Authority(selected)
  /\ ~Equivalent(candidate, selected)

Resolve(arguments, id) ==
  /\ Idle
  /\ sources' = arguments /\ semantic' = id /\ source' = 1 /\ index' = 1
  /\ candidates' = <<>> /\ read' = None /\ write' = None /\ state' = "UNRESOLVED"
  /\ resolution' = None
  /\ \/ pc' = "resolving" /\ ret' = None
     \/ pc' = "resolved" /\ ret' = "SYSTEM"
  /\ UNCHANGED <<knowledge, result, merged>>

Fails(code) ==
  /\ pc' = "resolved" /\ ret' = code
  /\ UNCHANGED <<knowledge, call, result, merged, view, resolution>>

Readable(route) == route.fact.readable
Writable(route) == route.fact.writable /\ route.fact.value # "UNSUPPORTED"

Consider(route) ==
  /\ candidates' = Append(candidates, route)
  /\ read' = IF Readable(route) THEN Preferred(route, read) ELSE read
  /\ write' = IF Writable(route) THEN Preferred(route, write) ELSE write
  /\ state' = IF \/ Readable(route) /\ Disagrees(route, read)
                 \/ Writable(route) /\ Disagrees(route, write)
              THEN "CONFLICT" ELSE state

(* Mutant: one candidate too many. *)
MutViewIsFull == Len(candidates) > MaxRoutes

ViewIsFull == Len(candidates) = MaxRoutes

ResolveRoute ==
  /\ pc = "resolving" /\ source <= Len(sources)
  /\ IF Here = None THEN Fails("ARGUMENT")
     ELSE IF index > Len(Here) THEN NextSource
     ELSE IF Here[index].fact.semantic_id = semantic /\ ViewIsFull
     THEN Fails("PROFILE_CONFLICT")
     ELSE /\ IF Here[index].fact.semantic_id = semantic
             THEN Consider(Here[index]) ELSE UNCHANGED view
          /\ index' = index + 1
          /\ UNCHANGED <<knowledge, pc, ret, sources, semantic, source, result,
                         merged, resolution>>

(* The state and the preferred routes that the caller is shown. *)
Published ==
  IF state = "CONFLICT"
  THEN [candidates |-> candidates, read |-> None, write |-> None, state |-> state]
  ELSE [candidates |-> candidates, read |-> read, write |-> write,
        state |-> IF read # None \/ write # None THEN "RESOLVED" ELSE state]

ResolveEnds ==
  /\ pc = "resolving" /\ source > Len(sources)
  /\ IF candidates = <<>>
     THEN Fails("NOT_FOUND")
     ELSE /\ pc' = "resolved" /\ ret' = "OK" /\ resolution' = Published
          /\ UNCHANGED <<knowledge, call, result, merged, view>>

(* The caller is done with the merged object or with the resolution.       *)
Release ==
  /\ pc \in {"merged", "resolved"}
  /\ pc' = "idle" /\ ret' = None /\ merged' = None /\ resolution' = None
  /\ sources' = <<>> /\ semantic' = None /\ source' = 1 /\ index' = 1
  /\ result' = <<>> /\ candidates' = <<>> /\ read' = None /\ write' = None
  /\ state' = "UNRESOLVED"
  /\ UNCHANGED knowledge

Init ==
  /\ knowledge = [o \in Objects |-> None]
  /\ pc = "idle" /\ ret = None /\ merged = None /\ resolution = None
  /\ sources = <<>> /\ semantic = None /\ source = 1 /\ index = 1
  /\ result = <<>> /\ candidates = <<>> /\ read = None /\ write = None
  /\ state = "UNRESOLVED"

Arguments == UNION {[1..n -> Objects] : n \in 1..MaxSources}

Next ==
  \/ \E o \in Objects : Create(o) \/ Destroy(o)
  \/ \E o \in Objects, r \in Routes : AddRoute(o, r)
  \/ \E o \in Objects, c \in Controls : AddProfileControl(o, c)
  \/ \E first, second \in Objects : Merge(first, second)
  \/ \E arguments \in Arguments, id \in SemanticIds : Resolve(arguments, id)
  \/ AddRejected \/ MergeRoute \/ MergeEnds \/ ResolveRoute \/ ResolveEnds \/ Release

Spec == Init /\ [][Next]_vars

-----------------------------------------------------------------------------
(* Properties. *)

Distinct(s) == \A i, j \in 1..Len(s) : i # j => s[i] # s[j]

(* No object holds more than its capacity or one fact twice, whether it    *)
(* was filled by hand, from a profile or by a merge.                       *)
FactsAreBoundedAndDistinct ==
  \A s \in {knowledge[o] : o \in Objects} \cup {merged, result} :
    s # None => Len(s) <= MaxRoutes /\ Distinct(s)

(* A merge is the union of both objects with every provenance, or nothing; *)
(* and nothing only when memory or the capacity does not suffice for it.   *)
MergeIsAllOrNothing ==
  pc = "merged" =>
    LET both == Elements(knowledge[sources[1]]) \cup Elements(knowledge[sources[2]])
    IN  /\ ret = "OK" => merged # None /\ Elements(merged) = both
        /\ ret # "OK" => merged = None
        /\ ret = "PROFILE_CONFLICT" => Cardinality(both) > MaxRoutes

Readables(all) == {r \in Elements(all) : Readable(r)}
Writables(all) == {r \in Elements(all) : Writable(r)}

Best(route, some) ==
  /\ route \in some
  /\ \A r \in some : \/ Authority(r) < Authority(route)
                     \/ Authority(r) = Authority(route) /\ Equivalent(r, route)

Clash(some) ==
  \E r, s \in some : Authority(r) = Authority(s) /\ ~Equivalent(r, s)

(* A preferred route has the highest authority of all that would do, and   *)
(* all of that authority say the same of it; so writing is authorized only *)
(* when every writable route of the highest authority is authorized.       *)
PreferredIsMostTrusted ==
  resolution # None =>
    /\ resolution.read # None =>
         Best(resolution.read, Readables(resolution.candidates))
    /\ resolution.write # None =>
         Best(resolution.write, Writables(resolution.candidates))

(* A conflict is reported, and nothing preferred, only when two routes of  *)
(* equal authority that both could be read, or written, say different      *)
(* things; otherwise a route is preferred wherever one would do.           *)
ConflictIsReal ==
  resolution # None =>
    LET readable == Readables(resolution.candidates)
        writable == Writables(resolution.candidates)
    IN  IF resolution.state = "CONFLICT"
        THEN /\ Clash(readable) \/ Clash(writable)
             /\ resolution.read = None /\ resolution.write = None
        ELSE /\ resolution.read = None <=> readable = {}
             /\ resolution.write = None <=> writable = {}
             /\ resolution.state = "UNRESOLVED" <=> readable \cup writable = {}

(* The view of a control has every fact of every source about it, and no   *)
(* other; without any there is no view.                                    *)
ViewIsComplete ==
  pc = "resolved" =>
    LET About == {r \in UNION {Elements(knowledge[sources[i]]) :
                    i \in {j \in 1..Len(sources) : knowledge[sources[j]] # None}} :
                    r.fact.semantic_id = semantic}
    IN  /\ ret = "OK" => Elements(resolution.candidates) = About
        /\ ret # "OK" => resolution = None
        /\ ret = "NOT_FOUND" => About = {}

(* docs/monitor-knowledge.md:65: "A lower-authority alternative remains a   *)
(* candidate but cannot replace a higher-authority route." So a route above *)
(* all others is preferred for whatever it can do.                          *)
HighestAuthorityIsPreferred ==
  resolution # None =>
    LET all == Elements(resolution.candidates) IN
    \A r \in all : (\A s \in all \ {r} : Authority(s) < Authority(r)) =>
      /\ Readable(r) => resolution.read = r
      /\ Writable(r) => resolution.write = r
=============================================================================
