----------------------- MODULE MonitorKnowledgeProofs -----------------------
(***************************************************************************)
(* That knowledge stays bounded and free of repetitions, and that what a   *)
(* resolution shows is sound, for any facts, any number of objects and     *)
(* sources, and any capacity.                                              *)
(***************************************************************************)
EXTENDS MonitorKnowledge, SequenceTheorems, FunctionTheorems,
        FiniteSetTheorems, TLAPS

Small(s) == Len(s) <= MaxRoutes /\ Distinct(s)

(* A merge that runs has two objects to read.                              *)
MergingOK ==
  pc = "merging" => \A i \in 1..Len(sources) : knowledge[sources[i]] # None

(* What is selected so far is of the highest authority so far, and as long *)
(* as there is no conflict, all of that authority agree with it.           *)
Chosen(selected, some, clashed) ==
  IF selected = None THEN some = {}
  ELSE /\ selected \in some
       /\ \A r \in some :
            \/ Authority(r) < Authority(selected)
            \/ /\ Authority(r) = Authority(selected)
               /\ clashed \/ Equivalent(r, selected)

ViewOK ==
  /\ Chosen(read, Readables(candidates), state = "CONFLICT")
  /\ Chosen(write, Writables(candidates), state = "CONFLICT")
  /\ state # "RESOLVED"
  /\ state = "CONFLICT" =>
       Clash(Readables(candidates)) \/ Clash(Writables(candidates))

IInv ==
  /\ TypeOK /\ MergingOK /\ FactsAreBoundedAndDistinct /\ ViewOK
  /\ PreferredIsMostTrusted /\ ConflictIsReal

-----------------------------------------------------------------------------
(* Facts and authorities.                                                  *)

LEMMA AuthorityIsANumber == \A r \in Facts : Authority(r) \in Nat
<1> SUFFICES ASSUME NEW r \in Facts PROVE Authority(r) \in Nat
  OBVIOUS
<1>1. r.provenance.confidence \in Nat
  BY RouteAssumption DEF IsProvenance, Confidences
<1>2. r.provenance.source \in Sources
  BY RouteAssumption DEF IsProvenance
<1>3. SourceRank(r.provenance.source) \in Nat
  BY <1>2 DEF Sources, SourceRank
<1> QED
  BY <1>1, <1>3 DEF Authority

LEMMA ElementsOfAppend ==
  ASSUME NEW s \in Seq(Facts), NEW r \in Facts
  PROVE  /\ Append(s, r) \in Seq(Facts) /\ Len(Append(s, r)) = Len(s) + 1
         /\ Elements(Append(s, r)) = Elements(s) \cup {r}
<1>1. /\ Append(s, r) \in Seq(Facts) /\ Len(Append(s, r)) = Len(s) + 1
      /\ \A i \in 1..Len(s) : Append(s, r)[i] = s[i]
      /\ Append(s, r)[Len(s) + 1] = r
  BY AppendProperties
<1>2. Len(s) \in Nat
  BY LenProperties
<1>3. Elements(Append(s, r)) \subseteq Elements(s) \cup {r}
  <2> SUFFICES ASSUME NEW i \in 1..(Len(s) + 1)
               PROVE  Append(s, r)[i] \in Elements(s) \cup {r}
    BY <1>1 DEF Elements
  <2>1. CASE i = Len(s) + 1
    BY <1>1, <2>1
  <2>2. CASE i \in 1..Len(s)
    BY <1>1, <2>2 DEF Elements
  <2> QED
    BY <1>2, <2>1, <2>2
<1>4. Elements(s) \cup {r} \subseteq Elements(Append(s, r))
  <2>1. r \in Elements(Append(s, r))
    <3>1. Len(s) + 1 \in 1..Len(Append(s, r))
      BY <1>1, <1>2
    <3> QED
      BY <1>1, <3>1 DEF Elements
  <2>2. ASSUME NEW i \in 1..Len(s) PROVE s[i] \in Elements(Append(s, r))
    <3>1. i \in 1..Len(Append(s, r)) /\ Append(s, r)[i] = s[i]
      BY <1>1, <1>2
    <3> QED
      BY <3>1 DEF Elements
  <2> QED
    BY <2>1, <2>2 DEF Elements
<1> QED
  BY <1>1, <1>3, <1>4

LEMMA ElementsAreFacts ==
  ASSUME NEW s \in Seq(Facts)
  PROVE  Elements(s) \subseteq Facts
BY ElementOfSeq DEF Elements

(* rss_ddc_monitor_knowledge_add_route keeps an object small.              *)
LEMMA AdditionIsSmall ==
  ASSUME NEW s \in Seq(Facts), Small(s), NEW r \in Facts,
         Addition(s, r) # None
  PROVE  Addition(s, r) \in Seq(Facts) /\ Small(Addition(s, r))
<1>1. CASE Holds(s, r)
  BY <1>1 DEF Addition
<1>2. CASE ~Holds(s, r)
  <2>1. Addition(s, r) = Append(s, r) /\ Len(s) # MaxRoutes
    BY <1>2 DEF Addition
  <2>2. /\ Append(s, r) \in Seq(Facts) /\ Len(Append(s, r)) = Len(s) + 1
        /\ \A i \in 1..Len(s) : Append(s, r)[i] = s[i]
        /\ Append(s, r)[Len(s) + 1] = r /\ Len(s) \in Nat
    BY AppendProperties, LenProperties
  <2>3. Len(Append(s, r)) <= MaxRoutes
    BY <2>1, <2>2, BoundAssumption DEF Small
  <2>4. ASSUME NEW i \in 1..(Len(s) + 1), NEW j \in 1..(Len(s) + 1), i # j
        PROVE  Append(s, r)[i] # Append(s, r)[j]
    <3>1. CASE i \in 1..Len(s) /\ j \in 1..Len(s)
      BY <2>2, <2>4, <3>1 DEF Small, Distinct
    <3>2. CASE i = Len(s) + 1 /\ j \in 1..Len(s)
      BY <1>2, <2>2, <3>2 DEF Holds, Identical
    <3>3. CASE j = Len(s) + 1 /\ i \in 1..Len(s)
      BY <1>2, <2>2, <3>3 DEF Holds, Identical
    <3> QED
      BY <2>2, <2>4, <3>1, <3>2, <3>3
  <2> QED
    BY <2>1, <2>2, <2>3, <2>4 DEF Small, Distinct
<1> QED
  BY <1>1, <1>2

(* select_route keeps what is selected the best of what was seen.          *)
LEMMA SelectionStaysBest ==
  ASSUME NEW r \in Facts, NEW selected \in Facts \cup {None},
         NEW some \in SUBSET Facts, NEW before \in BOOLEAN, NEW after \in BOOLEAN,
         Chosen(selected, some, before),
         before => after, Disagrees(r, selected) => after
  PROVE  Chosen(Preferred(r, selected), some \cup {r}, after)
<1>0. r # None /\ Authority(r) \in Nat /\ \A s \in some : Authority(s) \in Nat
  BY AuthorityIsANumber, NoneAssumption
<1>1. CASE selected = None
  BY <1>0, <1>1 DEF Chosen, Preferred, Equivalent
<1>2. CASE selected # None
  <2>1. selected \in some /\ Authority(selected) \in Nat
    BY <1>0, <1>2 DEF Chosen
  <2>2. CASE Preferred(r, selected) = selected
    <3>1. Authority(r) <= Authority(selected)
      BY <1>0, <1>2, <2>1, <2>2 DEF Preferred
    <3>2. Authority(r) = Authority(selected) => after \/ Equivalent(r, selected)
      BY <1>2 DEF Disagrees
    <3> QED
      BY <1>0, <1>2, <2>1, <2>2, <3>1, <3>2 DEF Chosen
  <2>3. CASE Preferred(r, selected) = r
    <3>1. \/ Authority(r) > Authority(selected)
          \/ Authority(r) = Authority(selected) /\ Equivalent(r, selected)
          \/ r = selected
      BY <1>2, <2>3 DEF Preferred
    <3>2. \A s \in some : \/ Authority(s) < Authority(r)
                          \/ /\ Authority(s) = Authority(r)
                             /\ after \/ Equivalent(s, r)
      BY <1>0, <1>2, <2>1, <3>1 DEF Chosen, Equivalent
    <3> QED
      BY <1>0, <2>3, <3>2 DEF Chosen, Equivalent
  <2> QED
    BY <2>2, <2>3 DEF Preferred
<1> QED
  BY <1>1, <1>2

-----------------------------------------------------------------------------
(* What each step does to the parts of the invariant.                      *)

ResultOK == ViewOK /\ PreferredIsMostTrusted /\ ConflictIsReal

LEMMA QuietStep ==
  ASSUME ResultOK, UNCHANGED <<view, resolution>>
  PROVE  ResultOK'
<1>1. /\ candidates' = candidates /\ read' = read /\ write' = write
      /\ state' = state /\ resolution' = resolution
  BY DEF view
<1>2. ViewOK'
  BY <1>1 DEF ResultOK, ViewOK
<1>3. PreferredIsMostTrusted'
  BY <1>1 DEF ResultOK, PreferredIsMostTrusted
<1>4. ConflictIsReal'
  BY <1>1 DEF ResultOK, ConflictIsReal
<1> QED
  BY <1>2, <1>3, <1>4 DEF ResultOK

LEMMA HereIsFacts ==
  ASSUME TypeOK, source <= Len(sources)
  PROVE  /\ sources[source] \in Objects /\ Here \in Seq(Facts) \cup {None}
         /\ Here # None => \A i \in 1..Len(Here) : Here[i] \in Facts
<1>1. source \in 1..Len(sources) /\ sources \in Seq(Objects)
  BY LenProperties DEF TypeOK
<1>2. sources[source] \in Objects
  BY <1>1, ElementOfSeq
<1> QED
  BY <1>2, ElementOfSeq DEF TypeOK, Here

LEMMA ConsiderIsSound ==
  ASSUME TypeOK, ViewOK, NEW r \in Facts, Consider(r)
  PROVE  ViewOK'
<1> DEFINE clash == state = "CONFLICT"
           clashed == state' = "CONFLICT"
<1>0. clash \in BOOLEAN /\ clashed \in BOOLEAN
  OBVIOUS
<1>1. /\ candidates' \in Seq(Facts) /\ Elements(candidates') = Elements(candidates) \cup {r}
      /\ Elements(candidates) \subseteq Facts
  BY ElementsOfAppend, ElementsAreFacts DEF TypeOK, Consider
<1>2. /\ Readables(candidates') =
           Readables(candidates) \cup (IF Readable(r) THEN {r} ELSE {})
      /\ Writables(candidates') =
           Writables(candidates) \cup (IF Writable(r) THEN {r} ELSE {})
  BY <1>1 DEF Readables, Writables
<1>3. /\ clash => clashed
      /\ Readable(r) /\ Disagrees(r, read) => clashed
      /\ Writable(r) /\ Disagrees(r, write) => clashed
      /\ state' \in {state, "CONFLICT"}
  BY DEF Consider
<1>4. Readables(candidates) \subseteq Facts /\ Writables(candidates) \subseteq Facts
  BY <1>1 DEF Readables, Writables
<1>5. Chosen(read', Readables(candidates'), clashed)
  <2>1. Chosen(read, Readables(candidates), clash)
    BY DEF ViewOK
  <2>2. CASE Readable(r)
    <3>1. read' = Preferred(r, read) /\ read \in Facts \cup {None}
      BY <2>2 DEF Consider, TypeOK
    <3> HIDE DEF clash, clashed
    <3>2. Chosen(Preferred(r, read), Readables(candidates) \cup {r}, clashed)
      BY <1>0, <1>3, <1>4, <2>1, <2>2, <3>1, SelectionStaysBest
    <3> QED
      BY <1>2, <2>2, <3>1, <3>2
  <2>3. CASE ~Readable(r)
    BY <1>2, <1>3, <2>1, <2>3 DEF Consider, Chosen
  <2> QED
    BY <2>2, <2>3
<1>6. Chosen(write', Writables(candidates'), clashed)
  <2>1. Chosen(write, Writables(candidates), clash)
    BY DEF ViewOK
  <2>2. CASE Writable(r)
    <3>1. write' = Preferred(r, write) /\ write \in Facts \cup {None}
      BY <2>2 DEF Consider, TypeOK
    <3> HIDE DEF clash, clashed
    <3>2. Chosen(Preferred(r, write), Writables(candidates) \cup {r}, clashed)
      BY <1>0, <1>3, <1>4, <2>1, <2>2, <3>1, SelectionStaysBest
    <3> QED
      BY <1>2, <2>2, <3>1, <3>2
  <2>3. CASE ~Writable(r)
    BY <1>2, <1>3, <2>1, <2>3 DEF Consider, Chosen
  <2> QED
    BY <2>2, <2>3
<1>7. clashed => Clash(Readables(candidates')) \/ Clash(Writables(candidates'))
  <2>1. CASE clash
    BY <1>2, <2>1 DEF ViewOK, Clash
  <2>2. CASE Readable(r) /\ Disagrees(r, read)
    <3>1. read # None /\ Authority(r) = Authority(read) /\ ~Equivalent(r, read)
      BY <2>2 DEF Disagrees
    <3>2. read \in Readables(candidates') /\ r \in Readables(candidates')
      BY <1>2, <2>2, <3>1 DEF ViewOK, Chosen
    <3> QED
      BY <3>1, <3>2 DEF Clash
  <2>3. CASE Writable(r) /\ Disagrees(r, write)
    <3>1. write # None /\ Authority(r) = Authority(write) /\ ~Equivalent(r, write)
      BY <2>3 DEF Disagrees
    <3>2. write \in Writables(candidates') /\ r \in Writables(candidates')
      BY <1>2, <2>3, <3>1 DEF ViewOK, Chosen
    <3> QED
      BY <3>1, <3>2 DEF Clash
  <2> QED
    BY <2>1, <2>2, <2>3 DEF Consider
<1> QED
  BY <1>3, <1>5, <1>6, <1>7 DEF ViewOK

LEMMA PublishedIsSound ==
  ASSUME TypeOK, ViewOK, resolution' = Published
  PROVE  PreferredIsMostTrusted' /\ ConflictIsReal' /\ resolution' \in Views
<1>1. resolution' \in Views
  BY DEF TypeOK, Published, Views, States
<1>2. resolution'.candidates = candidates
  BY DEF Published
<1>3. CASE state = "CONFLICT"
  <2>1. resolution'.read = None /\ resolution'.write = None
        /\ resolution'.state = "CONFLICT"
    BY <1>3 DEF Published
  <2>2. Clash(Readables(candidates)) \/ Clash(Writables(candidates))
    BY <1>3 DEF ViewOK
  <2> QED
    BY <1>1, <1>2, <2>1, <2>2 DEF PreferredIsMostTrusted, ConflictIsReal
<1>4. CASE state # "CONFLICT"
  <2>1. /\ resolution'.read = read /\ resolution'.write = write
        /\ resolution'.state = IF read # None \/ write # None THEN "RESOLVED" ELSE state
    BY <1>4 DEF Published
  <2>2. /\ read = None <=> Readables(candidates) = {}
        /\ write = None <=> Writables(candidates) = {}
        /\ read # None => Best(read, Readables(candidates))
        /\ write # None => Best(write, Writables(candidates))
    BY <1>4 DEF ViewOK, Chosen, Best
  <2>3. state = "UNRESOLVED"
    BY <1>4 DEF ViewOK, TypeOK, States
  <2>4. PreferredIsMostTrusted'
    BY <1>2, <2>1, <2>2 DEF PreferredIsMostTrusted
  <2>5. ConflictIsReal'
    BY <1>2, <2>1, <2>2, <2>3 DEF ConflictIsReal
  <2> QED
    BY <1>1, <2>4, <2>5
<1> QED
  BY <1>3, <1>4

-----------------------------------------------------------------------------
LEMMA SequencesOfObjects ==
  /\ <<>> \in Seq(Facts) /\ <<>> \in Seq(Objects) /\ Len(<<>>) = 0
  /\ Elements(<<>>) = {} /\ Small(<<>>) /\ Arguments \subseteq Seq(Objects)
<1>1. <<>> \in Seq(Facts) /\ <<>> \in Seq(Objects) /\ Len(<<>>) = 0
  BY EmptySeq
<1>2. Elements(<<>>) = {} /\ Small(<<>>)
  BY <1>1, BoundAssumption DEF Elements, Small, Distinct
<1>3. ASSUME NEW n \in 1..MaxSources, NEW a \in [1..n -> Objects]
      PROVE  a \in Seq(Objects)
  BY BoundAssumption
<1> QED
  BY <1>1, <1>2, <1>3 DEF Arguments

(* The lemma's two parts: what holds of an empty view, and of no view.     *)
LEMMA EmptyView ==
  ASSUME candidates = <<>>, read = None, write = None, state = "UNRESOLVED",
         resolution = None
  PROVE  ResultOK
BY SequencesOfObjects DEF ResultOK, ViewOK, PreferredIsMostTrusted, ConflictIsReal,
   Chosen, Readables, Writables

LEMMA InitInv == Init => IInv
<1> SUFFICES ASSUME Init PROVE IInv
  OBVIOUS
<1>1. TypeOK
  BY SequencesOfObjects, BoundAssumption DEF Init, TypeOK, States
<1>2. MergingOK
  BY DEF Init, MergingOK
<1>3. FactsAreBoundedAndDistinct
  BY SequencesOfObjects DEF Init, FactsAreBoundedAndDistinct, Small
<1>4. ResultOK
  BY EmptyView DEF Init
<1> QED
  BY <1>1, <1>2, <1>3, <1>4 DEF IInv, ResultOK

LEMMA ObjectChanges ==
  ASSUME IInv, NEW o \in Objects, Idle, NEW new \in Seq(Facts) \cup {None},
         new # None => Small(new), knowledge' = [knowledge EXCEPT ![o] = new],
         ret' \in Returns \cup {None},
         UNCHANGED <<pc, call, result, merged, view, resolution>>
  PROVE  IInv'
<1>1. TypeOK'
  BY DEF IInv, TypeOK, call, view
<1>2. MergingOK'
  BY DEF MergingOK, Idle
<1>3. FactsAreBoundedAndDistinct'
  <2>1. \A p \in Objects : knowledge'[p] = IF p = o THEN new ELSE knowledge[p]
    BY DEF IInv, TypeOK
  <2> QED
    BY <2>1 DEF IInv, FactsAreBoundedAndDistinct, Small
<1>4. ResultOK'
  BY QuietStep DEF IInv, ResultOK
<1> QED
  BY <1>1, <1>2, <1>3, <1>4 DEF IInv, ResultOK

LEMMA AddInv ==
  ASSUME IInv, NEW o \in Objects, NEW r \in Facts, AddRoute(o, r)
  PROVE  IInv'
<1>1. knowledge[o] \in Seq(Facts) /\ Small(knowledge[o])
  BY DEF AddRoute, IInv, TypeOK, FactsAreBoundedAndDistinct, Small
<1>2. CASE Addition(knowledge[o], r) = None
  <2>1. ret' \in Returns /\ knowledge' = knowledge
    BY <1>2 DEF AddRoute, Returns
  <2>2. knowledge' = [knowledge EXCEPT ![o] = knowledge[o]]
    BY <2>1 DEF IInv, TypeOK
  <2> QED
    BY <1>1, <2>1, <2>2, ObjectChanges DEF AddRoute
<1>3. CASE Addition(knowledge[o], r) # None
  <2>1. Addition(knowledge[o], r) \in Seq(Facts) /\ Small(Addition(knowledge[o], r))
    BY <1>1, <1>3, AdditionIsSmall
  <2>2. ret' \in Returns
        /\ knowledge' = [knowledge EXCEPT ![o] = Addition(knowledge[o], r)]
    BY <1>3 DEF AddRoute, Returns
  <2> QED
    BY <2>1, <2>2, ObjectChanges DEF AddRoute
<1> QED
  BY <1>2, <1>3

LEMMA NextSourceInv ==
  ASSUME IInv, NextSource
  PROVE  IInv'
<1>1. TypeOK'
  BY DEF IInv, TypeOK, NextSource, view
<1>2. MergingOK' /\ FactsAreBoundedAndDistinct'
  BY DEF IInv, MergingOK, FactsAreBoundedAndDistinct, NextSource
<1>3. ResultOK'
  BY QuietStep DEF IInv, ResultOK, NextSource
<1> QED
  BY <1>1, <1>2, <1>3 DEF IInv, ResultOK

LEMMA FailsInv ==
  ASSUME IInv, NEW code \in Returns, Fails(code)
  PROVE  IInv'
<1>1. TypeOK'
  BY DEF IInv, TypeOK, Fails, call, view
<1>2. MergingOK' /\ FactsAreBoundedAndDistinct'
  BY DEF IInv, MergingOK, FactsAreBoundedAndDistinct, Fails
<1>3. ResultOK'
  BY QuietStep DEF IInv, ResultOK, Fails
<1> QED
  BY <1>1, <1>2, <1>3 DEF IInv, ResultOK

LEMMA MergeInv ==
  ASSUME IInv, NEW first \in Objects, NEW second \in Objects, Merge(first, second)
  PROVE  IInv'
<1>1. <<first, second>> \in Seq(Objects)
  OBVIOUS
<1>2. TypeOK'
  BY <1>1, SequencesOfObjects DEF IInv, TypeOK, Merge, view, Returns
<1>3. MergingOK'
  BY DEF MergingOK, Merge
<1>4. FactsAreBoundedAndDistinct'
  BY SequencesOfObjects DEF IInv, FactsAreBoundedAndDistinct, Merge, Small
<1>5. ResultOK'
  BY QuietStep DEF IInv, ResultOK, Merge
<1> QED
  BY <1>2, <1>3, <1>4, <1>5 DEF IInv, ResultOK

LEMMA MergeRouteInv ==
  ASSUME IInv, MergeRoute
  PROVE  IInv'
<1>1. CASE index > Len(Here)
  BY <1>1, NextSourceInv DEF MergeRoute
<1>2. CASE ~(index > Len(Here))
  <2> DEFINE sum == Addition(result, Here[index])
  <2>0. source \in 1..Len(sources) /\ index \in Nat /\ index >= 1
    BY LenProperties DEF MergeRoute, IInv, TypeOK
  <2>1. Here # None /\ Here \in Seq(Facts)
    BY <2>0, HereIsFacts DEF MergeRoute, IInv, MergingOK, Here
  <2>2. Here[index] \in Facts
    BY <1>2, <2>0, <2>1, LenProperties, HereIsFacts DEF MergeRoute, IInv
  <2>3. sum # None => sum \in Seq(Facts) /\ Small(sum)
    BY <2>2, NoneAssumption, AdditionIsSmall
    DEF IInv, TypeOK, FactsAreBoundedAndDistinct, Small
  <2>4. /\ result' \in Seq(Facts) /\ Small(result')
        /\ pc' \in {"merging", "merged"} /\ ret' \in Returns \cup {None}
        /\ index' = index + 1
        /\ UNCHANGED <<knowledge, sources, semantic, source, merged, view, resolution>>
    BY <1>2, <2>3, SequencesOfObjects DEF MergeRoute, IInv, TypeOK, Returns
  <2>5. TypeOK'
    BY <2>0, <2>4 DEF IInv, TypeOK, view
  <2>6. MergingOK' /\ FactsAreBoundedAndDistinct'
    BY <2>4 DEF IInv, MergingOK, FactsAreBoundedAndDistinct, MergeRoute, Small
  <2>7. ResultOK'
    BY <2>4, QuietStep DEF IInv, ResultOK
  <2> QED
    BY <2>5, <2>6, <2>7 DEF IInv, ResultOK
<1> QED
  BY <1>1, <1>2

LEMMA MergeEndsInv ==
  ASSUME IInv, MergeEnds
  PROVE  IInv'
<1>1. TypeOK'
  BY DEF IInv, TypeOK, MergeEnds, call, view, Returns
<1>2. MergingOK' /\ FactsAreBoundedAndDistinct'
  BY DEF IInv, MergingOK, FactsAreBoundedAndDistinct, MergeEnds
<1>3. ResultOK'
  BY QuietStep DEF IInv, ResultOK, MergeEnds
<1> QED
  BY <1>1, <1>2, <1>3 DEF IInv, ResultOK

LEMMA ResolveInv ==
  ASSUME IInv, NEW a \in Arguments, NEW id \in SemanticIds, Resolve(a, id)
  PROVE  IInv'
<1>1. TypeOK'
  BY SequencesOfObjects, BoundAssumption
  DEF IInv, TypeOK, Resolve, Returns, States
<1>2. MergingOK' /\ FactsAreBoundedAndDistinct'
  BY DEF IInv, MergingOK, FactsAreBoundedAndDistinct, Resolve
<1>3. ResultOK'
  BY SequencesOfObjects DEF Resolve, ResultOK, ViewOK, PreferredIsMostTrusted,
     ConflictIsReal, Chosen, Readables, Writables
<1> QED
  BY <1>1, <1>2, <1>3 DEF IInv, ResultOK

LEMMA ResolveRouteInv ==
  ASSUME IInv, ResolveRoute
  PROVE  IInv'
<1>1. CASE Here = None
  BY <1>1, FailsInv DEF ResolveRoute, Returns
<1>2. CASE Here # None /\ index > Len(Here)
  BY <1>2, NextSourceInv DEF ResolveRoute
<1>3. CASE /\ Here # None /\ ~(index > Len(Here))
           /\ Here[index].fact.semantic_id = semantic /\ ViewIsFull
  BY <1>3, FailsInv DEF ResolveRoute, Returns
<1>4. CASE /\ Here # None /\ ~(index > Len(Here))
           /\ ~(Here[index].fact.semantic_id = semantic /\ ViewIsFull)
  <2>1. /\ index' = index + 1 /\ index \in Nat /\ index >= 1
        /\ UNCHANGED <<knowledge, pc, ret, sources, semantic, source, result,
                       merged, resolution>>
        /\ pc = "resolving"
        /\ IF Here[index].fact.semantic_id = semantic
           THEN Consider(Here[index]) ELSE UNCHANGED view
    BY <1>4 DEF ResolveRoute, IInv, TypeOK
  <2>2. MergingOK' /\ FactsAreBoundedAndDistinct'
    BY <2>1 DEF IInv, MergingOK, FactsAreBoundedAndDistinct
  <2>3. CASE UNCHANGED view
    <3>1. TypeOK'
      BY <2>1, <2>3 DEF IInv, TypeOK, view
    <3>2. ResultOK'
      BY <2>1, <2>3, QuietStep DEF IInv, ResultOK
    <3> QED
      BY <2>2, <3>1, <3>2 DEF IInv, ResultOK
  <2>4. CASE Here[index].fact.semantic_id = semantic
    <3>1. Here[index] \in Facts /\ Consider(Here[index])
      <4>1. Here \in Seq(Facts) /\ \A i \in 1..Len(Here) : Here[i] \in Facts
        BY <1>4, HereIsFacts DEF ResolveRoute, IInv
      <4> QED
        BY <1>4, <2>1, <2>4, <4>1, LenProperties
    <3>2. candidates' \in Seq(Facts) /\ Len(candidates') <= MaxRoutes
      <4>1. candidates' \in Seq(Facts) /\ Len(candidates') = Len(candidates) + 1
        BY <3>1, ElementsOfAppend DEF IInv, TypeOK, Consider
      <4>2. Len(candidates) # MaxRoutes /\ Len(candidates) <= MaxRoutes
            /\ Len(candidates) \in Nat
        BY <1>4, <2>4, LenProperties DEF IInv, TypeOK, ViewIsFull
      <4> QED
        BY <4>1, <4>2, BoundAssumption
    <3>3. read' \in Facts \cup {None} /\ write' \in Facts \cup {None}
          /\ state' \in States
      BY <3>1 DEF IInv, TypeOK, Consider, Preferred, States
    <3>4. TypeOK'
      BY <2>1, <3>2, <3>3 DEF IInv, TypeOK
    <3>5. ViewOK'
      BY <3>1, ConsiderIsSound DEF IInv
    <3>6. PreferredIsMostTrusted' /\ ConflictIsReal'
      BY <2>1 DEF IInv, PreferredIsMostTrusted, ConflictIsReal
    <3> QED
      BY <2>2, <3>4, <3>5, <3>6 DEF IInv
  <2> QED
    BY <2>1, <2>3, <2>4
<1> QED
  BY <1>1, <1>2, <1>3, <1>4

LEMMA ResolveEndsInv ==
  ASSUME IInv, ResolveEnds
  PROVE  IInv'
<1>1. CASE candidates = <<>>
  BY <1>1, FailsInv DEF ResolveEnds, Returns
<1>2. CASE candidates # <<>>
  <2>1. /\ pc' = "resolved" /\ ret' = "OK" /\ resolution' = Published
        /\ UNCHANGED <<knowledge, call, result, merged, view>>
    BY <1>2 DEF ResolveEnds
  <2>2. PreferredIsMostTrusted' /\ ConflictIsReal' /\ resolution' \in Views
    BY <2>1, PublishedIsSound DEF IInv
  <2>3. TypeOK'
    BY <2>1, <2>2 DEF IInv, TypeOK, call, view, Returns
  <2>4. MergingOK' /\ FactsAreBoundedAndDistinct'
    BY <2>1 DEF IInv, MergingOK, FactsAreBoundedAndDistinct
  <2>5. ViewOK'
    BY <2>1 DEF IInv, ViewOK, view
  <2> QED
    BY <2>2, <2>3, <2>4, <2>5 DEF IInv
<1> QED
  BY <1>1, <1>2

LEMMA ReleaseInv ==
  ASSUME IInv, Release
  PROVE  IInv'
<1>1. TypeOK'
  BY SequencesOfObjects, BoundAssumption DEF IInv, TypeOK, Release, States
<1>2. MergingOK' /\ FactsAreBoundedAndDistinct'
  BY SequencesOfObjects
  DEF IInv, MergingOK, FactsAreBoundedAndDistinct, Release, Small
<1>3. ResultOK'
  BY SequencesOfObjects DEF Release, ResultOK, ViewOK, PreferredIsMostTrusted,
     ConflictIsReal, Chosen, Readables, Writables
<1> QED
  BY <1>1, <1>2, <1>3 DEF IInv, ResultOK

LEMMA StutterInv ==
  ASSUME IInv, UNCHANGED <<knowledge, pc, call, result, merged, view, resolution>>,
         ret' \in Returns \cup {None}
  PROVE  IInv'
<1>1. TypeOK'
  BY DEF IInv, TypeOK, call, view
<1>2. MergingOK' /\ FactsAreBoundedAndDistinct'
  BY DEF IInv, MergingOK, FactsAreBoundedAndDistinct, call
<1>3. ResultOK'
  BY QuietStep DEF IInv, ResultOK
<1> QED
  BY <1>1, <1>2, <1>3 DEF IInv, ResultOK

LEMMA StepInv == IInv /\ [Next]_vars => IInv'
<1> SUFFICES ASSUME IInv, [Next]_vars PROVE IInv'
  OBVIOUS
<1>1. ASSUME NEW o \in Objects, Create(o) PROVE IInv'
  BY <1>1, ObjectChanges, SequencesOfObjects DEF Create
<1>2. ASSUME NEW o \in Objects, Destroy(o) PROVE IInv'
  BY <1>2, ObjectChanges DEF Destroy
<1>3. ASSUME NEW o \in Objects, NEW r \in Routes, AddRoute(o, r) PROVE IInv'
  BY <1>3, AddInv DEF Facts
<1>4. ASSUME NEW o \in Objects, NEW c \in Controls, AddProfileControl(o, c)
      PROVE  IInv'
  BY <1>4, AddInv DEF AddProfileControl, Facts
<1>5. CASE AddRejected
  BY <1>5, StutterInv DEF AddRejected, Returns
<1>6. CASE UNCHANGED vars
  <2>1. ret' \in Returns \cup {None}
    BY <1>6 DEF IInv, TypeOK, vars
  <2> QED
    BY <1>6, <2>1, StutterInv DEF vars
<1> QED
  BY <1>1, <1>2, <1>3, <1>4, <1>5, <1>6, MergeInv, MergeRouteInv, MergeEndsInv,
     ResolveInv, ResolveRouteInv, ResolveEndsInv, ReleaseInv DEF Next

-----------------------------------------------------------------------------
(* What the loops of merge and resolve have passed: all of the sources     *)
(* before the current one, and the current one up to the current route.    *)

Held(i) == Elements(knowledge[sources[i]])
HeldBefore(n) == UNION {Held(i) : i \in 1..(n - 1)}
Begun == IF source <= Len(sources) /\ Here # None
         THEN {Here[i] : i \in 1..(index - 1)} ELSE {}
Covered == HeldBefore(source) \cup Begun
About(some) == {r \in some : r.fact.semantic_id = semantic}

LoopOK ==
  /\ source <= Len(sources) + 1
  /\ \A i \in 1..(source - 1) : knowledge[sources[i]] # None
  /\ source <= Len(sources) /\ Here # None => index <= Len(Here) + 1

MergeCovers ==
  pc = "merging" =>
    /\ LoopOK /\ Len(sources) = 2 /\ merged = None
    /\ Elements(result) = Covered

ViewCovers ==
  pc = "resolving" =>
    /\ LoopOK /\ resolution = None
    /\ Elements(candidates) = About(Covered)

CInv == MergeCovers /\ ViewCovers /\ MergeIsAllOrNothing /\ ViewIsComplete

LEMMA LoopBegins ==
  ASSUME IInv, source' = 1, index' = 1, sources' \in Seq(Objects),
         knowledge' = knowledge
  PROVE  LoopOK' /\ Covered' = {}
<1>1. Len(sources') \in Nat
  BY LenProperties
<1>2. HeldBefore(source)' = {} /\ Begun' = {}
  BY DEF HeldBefore, Begun
<1>3. ASSUME source' <= Len(sources'), Here' # None
      PROVE  index' <= Len(Here') + 1
  <2>1. sources'[source'] \in Objects
    BY <1>1, <1>3, ElementOfSeq
  <2>2. Here' \in Seq(Facts)
    BY <1>3, <2>1 DEF IInv, TypeOK, Here
  <2> QED
    BY <2>2, LenProperties
<1> QED
  BY <1>1, <1>2, <1>3 DEF LoopOK, Covered

LEMMA LoopLeavesSource ==
  ASSUME IInv, LoopOK, source <= Len(sources), Here # None, index > Len(Here),
         NextSource
  PROVE  LoopOK' /\ Covered' = Covered
<1>1. /\ source \in Nat /\ source >= 1 /\ index \in Nat /\ Len(sources) \in Nat
      /\ Here \in Seq(Facts) /\ Len(Here) \in Nat
  BY HereIsFacts, LenProperties DEF IInv, TypeOK
<1>2. index = Len(Here) + 1
  BY <1>1 DEF LoopOK
<1>3. /\ source' = source + 1 /\ index' = 1
      /\ knowledge' = knowledge /\ sources' = sources
  BY DEF NextSource
<1>4. Begun = Held(source)
  BY <1>1, <1>2 DEF Begun, Held, Elements, Here
<1>5. Begun' = {}
  BY <1>3 DEF Begun
<1>6. HeldBefore(source)' = HeldBefore(source) \cup Held(source)
  <2>1. 1..(source' - 1) = 1..(source - 1) \cup {source}
    BY <1>1, <1>3
  <2>2. \A i : Held(i)' = Held(i)
    BY <1>3 DEF Held
  <2> QED
    BY <2>1, <2>2 DEF HeldBefore
<1>7. LoopOK'
  <2>1. \A i \in 1..(source' - 1) : knowledge'[sources'[i]] # None
    BY <1>1, <1>3 DEF LoopOK, Here
  <2>2. ASSUME source' <= Len(sources'), Here' # None
        PROVE  index' <= Len(Here') + 1
    <3>1. sources'[source'] \in Objects
      BY <1>1, <1>3, <2>2, ElementOfSeq DEF IInv, TypeOK
    <3>2. Here' \in Seq(Facts)
      BY <1>3, <2>2, <3>1 DEF IInv, TypeOK, Here
    <3> QED
      BY <1>3, <3>2, LenProperties
  <2> QED
    BY <1>1, <1>3, <2>1, <2>2 DEF LoopOK
<1> QED
  BY <1>4, <1>5, <1>6, <1>7 DEF Covered

LEMMA LoopAdvances ==
  ASSUME IInv, LoopOK, source <= Len(sources), Here # None, ~(index > Len(Here)),
         index' = index + 1, UNCHANGED <<knowledge, sources, source>>
  PROVE  LoopOK' /\ Covered' = Covered \cup {Here[index]} /\ Here[index] \in Facts
<1>1. /\ source \in Nat /\ source >= 1 /\ index \in Nat /\ index >= 1
      /\ Len(sources) \in Nat /\ Here \in Seq(Facts) /\ Len(Here) \in Nat
  BY HereIsFacts, LenProperties DEF IInv, TypeOK
<1>2. Here' = Here
  BY DEF Here
<1>3. 1..(index' - 1) = 1..(index - 1) \cup {index}
  BY <1>1
<1>4. Begun' = Begun \cup {Here[index]}
  BY <1>2, <1>3 DEF Begun
<1>5. HeldBefore(source)' = HeldBefore(source)
  BY DEF HeldBefore, Held
<1>6. LoopOK'
  BY <1>1, <1>2 DEF LoopOK
<1>7. Here[index] \in Facts
  BY <1>1, ElementOfSeq
<1> QED
  BY <1>4, <1>5, <1>6, <1>7 DEF Covered

LEMMA LoopEnds ==
  ASSUME IInv, LoopOK, source > Len(sources)
  PROVE  /\ \A i \in 1..Len(sources) : knowledge[sources[i]] # None
         /\ Covered = UNION {Held(i) : i \in 1..Len(sources)}
<1>1. source \in Nat /\ Len(sources) \in Nat
  BY LenProperties DEF IInv, TypeOK
<1>2. source - 1 = Len(sources)
  BY <1>1 DEF LoopOK
<1>3. Begun = {}
  BY <1>1 DEF Begun
<1> QED
  BY <1>2, <1>3 DEF LoopOK, Covered, HeldBefore

LEMMA DistinctCount ==
  ASSUME NEW s \in Seq(Facts), Distinct(s)
  PROVE  IsFiniteSet(Elements(s)) /\ Cardinality(Elements(s)) = Len(s)
<1> DEFINE f == [i \in 1..Len(s) |-> s[i]]
<1>1. Len(s) \in Nat
  BY LenProperties
<1>2. IsFiniteSet(1..Len(s)) /\ Cardinality(1..Len(s)) = Len(s)
  BY <1>1, FS_Interval
<1>3. f \in Bijection(1..Len(s), Elements(s))
  <2>1. f \in [1..Len(s) -> Elements(s)]
    BY DEF Elements
  <2>2. \A i, j \in 1..Len(s) : f[i] = f[j] => i = j
    BY DEF Distinct
  <2>3. \A r \in Elements(s) : \E i \in 1..Len(s) : f[i] = r
    BY DEF Elements
  <2> QED
    BY <2>1, <2>2, <2>3, Fun_IsBij
<1>4. ExistsBijection(1..Len(s), Elements(s))
  BY <1>3 DEF ExistsBijection
<1> QED
  BY <1>2, <1>4, FS_Bijection

(* A route that finds no room is one more than the capacity.               *)
LEMMA NoRoomCount ==
  ASSUME NEW s \in Seq(Facts), Small(s), NEW r \in Facts, Addition(s, r) = None,
         NEW both, IsFiniteSet(both), Elements(s) \cup {r} \subseteq both
  PROVE  Cardinality(both) > MaxRoutes
<1>1. ~Holds(s, r) /\ Len(s) = MaxRoutes
  <2>1. Append(s, r) # None /\ s # None
    BY NoneAssumption, AppendProperties
  <2> QED
    BY <2>1 DEF Addition
<1>2. r \notin Elements(s)
  BY <1>1 DEF Holds, Identical, Elements
<1>3. IsFiniteSet(Elements(s)) /\ Cardinality(Elements(s)) = MaxRoutes
  BY <1>1, DistinctCount DEF Small
<1>4. Cardinality(Elements(s) \cup {r}) = MaxRoutes + 1
  BY <1>2, <1>3, FS_AddElement
<1>5. Cardinality(Elements(s) \cup {r}) <= Cardinality(both)
  BY FS_Subset
<1>6. Cardinality(both) \in Nat
  BY FS_CardinalityType
<1> QED
  BY <1>4, <1>5, <1>6, BoundAssumption

LEMMA TwoObjects ==
  ASSUME IInv, Len(sources) = 2, \A i \in 1..2 : knowledge[sources[i]] # None
  PROVE  /\ UNION {Held(i) : i \in 1..Len(sources)} = Held(1) \cup Held(2)
         /\ IsFiniteSet(Held(1) \cup Held(2))
<1>1. 1..Len(sources) = {1, 2}
  OBVIOUS
<1>2. ASSUME NEW i \in {1, 2} PROVE IsFiniteSet(Held(i))
  <2>1. sources[i] \in Objects
    BY <1>1, ElementOfSeq DEF IInv, TypeOK
  <2>2. knowledge[sources[i]] \in Seq(Facts) /\ Distinct(knowledge[sources[i]])
    BY <2>1 DEF IInv, TypeOK, FactsAreBoundedAndDistinct
  <2> QED
    BY <2>2, DistinctCount DEF Held
<1>3. IsFiniteSet(Held(1)) /\ IsFiniteSet(Held(2))
  BY <1>2
<1> QED
  BY <1>1, <1>3, FS_Union

LEMMA InitCovers == Init => CInv
BY DEF Init, CInv, MergeCovers, ViewCovers, MergeIsAllOrNothing, ViewIsComplete

(* While the caller does not wait for merge or resolve, nothing is owed.   *)
LEMMA IdleCovers ==
  ASSUME pc' = "idle"
  PROVE  CInv'
BY DEF CInv, MergeCovers, ViewCovers, MergeIsAllOrNothing, ViewIsComplete

LEMMA MergeBeginsCovers ==
  ASSUME IInv, NEW first \in Objects, NEW second \in Objects, Merge(first, second)
  PROVE  CInv'
<1>1. /\ sources' = <<first, second>> /\ source' = 1 /\ index' = 1
      /\ knowledge' = knowledge /\ merged' = None /\ result' = <<>>
      /\ \/ pc' = "merging"
         \/ pc' = "merged" /\ ret' = "SYSTEM"
  BY DEF Merge
<1>2. sources' \in Seq(Objects) /\ Len(sources') = 2
  BY <1>1
<1>3. LoopOK' /\ Covered' = {}
  BY <1>1, <1>2, LoopBegins
<1>4. MergeCovers'
  BY <1>1, <1>2, <1>3, SequencesOfObjects DEF MergeCovers
<1> QED
  BY <1>1, <1>4 DEF CInv, ViewCovers, MergeIsAllOrNothing, ViewIsComplete

LEMMA MergeRouteCovers ==
  ASSUME IInv, CInv, MergeRoute
  PROVE  CInv'
<1>1. /\ pc = "merging" /\ source <= Len(sources) /\ LoopOK
      /\ Len(sources) = 2 /\ merged = None /\ Elements(result) = Covered
  BY DEF MergeRoute, CInv, MergeCovers
<1>2. source \in 1..Len(sources) /\ Here # None
  BY <1>1, LenProperties DEF IInv, TypeOK, MergingOK, Here
<1>3. CASE index > Len(Here)
  <2>1. NextSource
    BY <1>3 DEF MergeRoute
  <2>2. LoopOK' /\ Covered' = Covered
    BY <1>1, <1>2, <1>3, <2>1, LoopLeavesSource
  <2>3. MergeCovers'
    BY <1>1, <2>1, <2>2 DEF MergeCovers, NextSource
  <2> QED
    BY <1>1, <2>1, <2>3
    DEF CInv, ViewCovers, MergeIsAllOrNothing, ViewIsComplete, NextSource
<1>4. CASE ~(index > Len(Here))
  <2> DEFINE r == Here[index]
  <2>1. /\ index' = index + 1
        /\ UNCHANGED <<knowledge, sources, semantic, source, merged, view, resolution>>
    BY <1>4 DEF MergeRoute
  <2>2. LoopOK' /\ Covered' = Covered \cup {r} /\ r \in Facts
    BY <1>1, <1>2, <1>4, <2>1, LoopAdvances
  <2>3. result \in Seq(Facts) /\ Small(result) /\ result # None
    BY NoneAssumption DEF IInv, TypeOK, FactsAreBoundedAndDistinct, Small
  <2>4. CASE Addition(result, r) # None
    <3>1. result' = Addition(result, r) /\ pc' = pc
      BY <1>4, <2>4 DEF MergeRoute
    <3>2. Elements(result') = Elements(result) \cup {r}
      <4>1. CASE Holds(result, r)
        BY <3>1, <4>1 DEF Addition, Holds, Identical, Elements
      <4>2. CASE ~Holds(result, r)
        <5>1. result' = Append(result, r)
          BY <2>4, <3>1, <4>2 DEF Addition
        <5> QED
          BY <2>2, <2>3, <5>1, ElementsOfAppend
      <4> QED
        BY <4>1, <4>2
    <3>3. MergeCovers'
      BY <1>1, <2>1, <2>2, <3>1, <3>2 DEF MergeCovers
    <3> QED
      BY <1>1, <3>1, <3>3
      DEF CInv, ViewCovers, MergeIsAllOrNothing, ViewIsComplete
  <2>5. CASE Addition(result, r) = None
    <3>1. pc' = "merged" /\ ret' = "PROFILE_CONFLICT"
      BY <1>4, <2>5 DEF MergeRoute
    <3> DEFINE both == Held(1) \cup Held(2)
    <3>2. \A i \in 1..2 : knowledge[sources[i]] # None
      BY <1>1 DEF IInv, MergingOK
    <3>3. IsFiniteSet(both)
      BY <1>1, <3>2, TwoObjects
    <3>4. Covered \cup {r} \subseteq both
      <4>1. source = 1 \/ source = 2
        BY <1>1, <1>2
      <4>2. HeldBefore(source) \subseteq both
        BY <4>1 DEF HeldBefore
      <4>3. index \in Nat /\ index >= 1 /\ Len(Here) \in Nat
        BY <1>1, <1>2, HereIsFacts, LenProperties DEF IInv, TypeOK
      <4>4. Begun \cup {r} \subseteq Held(source)
        BY <1>4, <4>3 DEF Begun, Held, Here, Elements
      <4> QED
        BY <4>1, <4>2, <4>4 DEF Covered
    <3>5. Cardinality(both) > MaxRoutes
      BY <1>1, <2>2, <2>3, <2>5, <3>3, <3>4, NoRoomCount
    <3>6. MergeIsAllOrNothing'
      BY <1>1, <2>1, <3>1, <3>5 DEF MergeIsAllOrNothing, Held
    <3> QED
      BY <3>1, <3>6 DEF CInv, MergeCovers, ViewCovers, ViewIsComplete
  <2> QED
    BY <2>4, <2>5
<1> QED
  BY <1>3, <1>4

LEMMA MergeEndsCovers ==
  ASSUME IInv, CInv, MergeEnds
  PROVE  CInv'
<1>1. /\ pc = "merging" /\ source > Len(sources) /\ LoopOK /\ Len(sources) = 2
      /\ Elements(result) = Covered
      /\ pc' = "merged" /\ ret' = "OK" /\ merged' = result
      /\ knowledge' = knowledge /\ sources' = sources
  BY DEF MergeEnds, CInv, MergeCovers, call
<1>2. \A i \in 1..2 : knowledge[sources[i]] # None
  BY <1>1, LoopEnds
<1>3. Elements(result) = Held(1) \cup Held(2)
  BY <1>1, <1>2, LoopEnds, TwoObjects
<1>4. merged' # None
  BY <1>1, NoneAssumption DEF IInv, TypeOK
<1>5. MergeIsAllOrNothing'
  BY <1>1, <1>3, <1>4 DEF MergeIsAllOrNothing, Held
<1> QED
  BY <1>1, <1>5 DEF CInv, MergeCovers, ViewCovers, ViewIsComplete

LEMMA ResolveBeginsCovers ==
  ASSUME IInv, NEW a \in Arguments, NEW id \in SemanticIds, Resolve(a, id)
  PROVE  CInv'
<1>1. /\ sources' = a /\ source' = 1 /\ index' = 1
      /\ knowledge' = knowledge /\ resolution' = None /\ candidates' = <<>>
      /\ \/ pc' = "resolving"
         \/ pc' = "resolved" /\ ret' = "SYSTEM"
  BY DEF Resolve
<1>2. LoopOK' /\ Covered' = {}
  BY <1>1, LoopBegins, SequencesOfObjects
<1>3. ViewCovers'
  BY <1>1, <1>2, SequencesOfObjects DEF ViewCovers, About
<1> QED
  BY <1>1, <1>3 DEF CInv, MergeCovers, MergeIsAllOrNothing, ViewIsComplete

(* A resolution that fails with a code that says nothing of the facts.     *)
LEMMA FailsCovers ==
  ASSUME CInv, pc = "resolving", NEW code, code \notin {"OK", "NOT_FOUND"}, Fails(code)
  PROVE  CInv'
BY DEF Fails, CInv, MergeCovers, ViewCovers, MergeIsAllOrNothing, ViewIsComplete

LEMMA ResolveRouteCovers ==
  ASSUME IInv, CInv, ResolveRoute
  PROVE  CInv'
<1>1. /\ pc = "resolving" /\ source <= Len(sources) /\ LoopOK
      /\ resolution = None /\ Elements(candidates) = About(Covered)
  BY DEF ResolveRoute, CInv, ViewCovers
<1>2. CASE Here = None
  BY <1>1, <1>2, FailsCovers DEF ResolveRoute
<1>3. CASE Here # None /\ index > Len(Here)
  <2>1. NextSource
    BY <1>3 DEF ResolveRoute
  <2>2. LoopOK' /\ Covered' = Covered
    BY <1>1, <1>3, <2>1, LoopLeavesSource
  <2>3. ViewCovers'
    BY <1>1, <2>1, <2>2 DEF ViewCovers, NextSource, view, About
  <2> QED
    BY <1>1, <2>1, <2>3
    DEF CInv, MergeCovers, MergeIsAllOrNothing, ViewIsComplete, NextSource
<1>4. CASE /\ Here # None /\ ~(index > Len(Here))
           /\ Here[index].fact.semantic_id = semantic /\ ViewIsFull
  BY <1>1, <1>4, FailsCovers DEF ResolveRoute
<1>5. CASE /\ Here # None /\ ~(index > Len(Here))
           /\ ~(Here[index].fact.semantic_id = semantic /\ ViewIsFull)
  <2>1. /\ index' = index + 1
        /\ UNCHANGED <<knowledge, pc, ret, sources, semantic, source, result,
                       merged, resolution>>
        /\ IF Here[index].fact.semantic_id = semantic
           THEN Consider(Here[index]) ELSE UNCHANGED view
    BY <1>5 DEF ResolveRoute
  <2>2. /\ LoopOK' /\ Covered' = Covered \cup {Here[index]}
        /\ Here[index] \in Facts
    BY <1>1, <1>5, <2>1, LoopAdvances
  <2>3. About(Covered)' = About(Covered) \cup About({Here[index]})
    BY <2>1, <2>2 DEF About
  <2>4. Elements(candidates') = Elements(candidates) \cup About({Here[index]})
    <3>1. CASE Here[index].fact.semantic_id = semantic
      <4>1. candidates' = Append(candidates, Here[index])
        BY <2>1, <3>1 DEF Consider
      <4>2. About({Here[index]}) = {Here[index]}
        BY <3>1 DEF About
      <4> QED
        BY <2>2, <4>1, <4>2, ElementsOfAppend DEF IInv, TypeOK
    <3>2. CASE Here[index].fact.semantic_id # semantic
      BY <2>1, <3>2 DEF view, About
    <3> QED
      BY <3>1, <3>2
  <2>5. ViewCovers'
    BY <1>1, <2>1, <2>2, <2>3, <2>4 DEF ViewCovers
  <2> QED
    BY <1>1, <2>1, <2>5
    DEF CInv, MergeCovers, MergeIsAllOrNothing, ViewIsComplete
<1> QED
  BY <1>2, <1>3, <1>4, <1>5

LEMMA ResolveEndsCovers ==
  ASSUME IInv, CInv, ResolveEnds
  PROVE  CInv'
<1>1. /\ pc = "resolving" /\ source > Len(sources) /\ LoopOK
      /\ resolution = None /\ Elements(candidates) = About(Covered)
      /\ pc' = "resolved"
      /\ UNCHANGED <<knowledge, sources, semantic>>
  BY DEF ResolveEnds, Fails, CInv, ViewCovers, call
<1> DEFINE all == UNION {Elements(knowledge[sources[i]]) :
                    i \in {j \in 1..Len(sources) : knowledge[sources[j]] # None}}
<1>2. Elements(candidates) = About(all)
  BY <1>1, LoopEnds DEF Held
<1>3. CASE candidates = <<>>
  <2>1. ret' = "NOT_FOUND" /\ resolution' = None
    BY <1>1, <1>3 DEF ResolveEnds, Fails
  <2>2. About(all) = {}
    BY <1>2, <1>3, SequencesOfObjects
  <2>3. ViewIsComplete'
    BY <1>1, <2>1, <2>2 DEF ViewIsComplete, About
  <2> QED
    BY <1>1, <2>3 DEF CInv, MergeCovers, ViewCovers, MergeIsAllOrNothing
<1>4. CASE candidates # <<>>
  <2>1. ret' = "OK" /\ resolution'.candidates = candidates
    BY <1>4 DEF ResolveEnds, Published
  <2>2. ViewIsComplete'
    BY <1>1, <1>2, <2>1 DEF ViewIsComplete, About
  <2> QED
    BY <1>1, <2>2 DEF CInv, MergeCovers, ViewCovers, MergeIsAllOrNothing
<1> QED
  BY <1>3, <1>4

LEMMA StutterCovers ==
  ASSUME CInv, UNCHANGED vars
  PROVE  CInv'
<1>1. /\ knowledge' = knowledge /\ pc' = pc /\ ret' = ret /\ sources' = sources
      /\ semantic' = semantic /\ source' = source /\ index' = index
      /\ result' = result /\ merged' = merged /\ candidates' = candidates
      /\ resolution' = resolution
  BY DEF vars, call, view
<1>2. Covered' = Covered /\ LoopOK' = LoopOK
  BY <1>1 DEF Covered, HeldBefore, Held, Begun, Here, LoopOK
<1>3. MergeCovers' /\ ViewCovers'
  BY <1>1, <1>2 DEF CInv, MergeCovers, ViewCovers, About
<1>4. MergeIsAllOrNothing' /\ ViewIsComplete'
  BY <1>1 DEF CInv, MergeIsAllOrNothing, ViewIsComplete
<1> QED
  BY <1>3, <1>4 DEF CInv

LEMMA StepCovers == IInv /\ CInv /\ [Next]_vars => CInv'
<1> SUFFICES ASSUME IInv, CInv, [Next]_vars PROVE CInv'
  OBVIOUS
<1>1. ASSUME NEW o \in Objects, Create(o) \/ Destroy(o) PROVE CInv'
  BY <1>1, IdleCovers DEF Create, Destroy, Idle
<1>2. ASSUME NEW o \in Objects, NEW r \in Routes, AddRoute(o, r) PROVE CInv'
  BY <1>2, IdleCovers DEF AddRoute, Idle
<1>3. ASSUME NEW o \in Objects, NEW c \in Controls, AddProfileControl(o, c)
      PROVE  CInv'
  BY <1>3, IdleCovers DEF AddProfileControl, AddRoute, Idle
<1>4. CASE AddRejected
  BY <1>4, IdleCovers DEF AddRejected, Idle
<1>5. CASE Release
  BY <1>5, IdleCovers DEF Release
<1> QED
  BY <1>1, <1>2, <1>3, <1>4, <1>5, MergeBeginsCovers, MergeRouteCovers,
     MergeEndsCovers, ResolveBeginsCovers, ResolveRouteCovers, ResolveEndsCovers,
     StutterCovers DEF Next

-----------------------------------------------------------------------------
THEOREM Invariance == Spec => []IInv
<1> QED
  BY InitInv, StepInv, PTL DEF Spec

(* Type correctness: in particular the two arrays of a fixed size, of an   *)
(* object's routes and of a view's candidates, are never written past.     *)
THEOREM TypeCorrect == Spec => []TypeOK
<1>1. IInv => TypeOK
  BY DEF IInv
<1> QED
  BY <1>1, Invariance, PTL

(* add_route, add_profile_control and merge never store a fact twice or    *)
(* more facts than an object has room for.                                 *)
THEOREM KnowledgeIsBounded == Spec => []FactsAreBoundedAndDistinct
<1>1. IInv => FactsAreBoundedAndDistinct
  BY DEF IInv
<1> QED
  BY <1>1, Invariance, PTL

(* resolve's running choice is the most trusted of all candidates, in      *)
(* whatever order the sources present them.                                *)
THEOREM PreferenceIsSound == Spec => []PreferredIsMostTrusted
<1>1. IInv => PreferredIsMostTrusted
  BY DEF IInv
<1> QED
  BY <1>1, Invariance, PTL

(* resolve reports a conflict only of two routes that do disagree, and     *)
(* without one leaves nothing unresolved that could be.                    *)
THEOREM ConflictsAreReal == Spec => []ConflictIsReal
<1>1. IInv => ConflictIsReal
  BY DEF IInv
<1> QED
  BY <1>1, Invariance, PTL

THEOREM Coverage == Spec => []CInv
<1> QED
  BY InitCovers, StepCovers, Invariance, PTL DEF Spec

(* merge loses no fact and no provenance of either object, and refuses     *)
(* for lack of room only when there is none, whatever the two share.       *)
THEOREM MergeLosesNothing == Spec => []MergeIsAllOrNothing
<1>1. CInv => MergeIsAllOrNothing
  BY DEF CInv
<1> QED
  BY <1>1, Coverage, PTL

(* resolve shows every fact of every source about the control, and no      *)
(* other, and says that there is none only when there is none.             *)
THEOREM ViewsAreComplete == Spec => []ViewIsComplete
<1>1. CInv => ViewIsComplete
  BY DEF CInv
<1> QED
  BY <1>1, Coverage, PTL
=============================================================================
