-------------------------- MODULE MccsParserProofs --------------------------
(***************************************************************************)
(* That the parser of MccsParser accepts exactly the texts of the grammar  *)
(* of MccsCapabilities and reads from them what they declare: every text,  *)
(* of any length, and every size of the tables.                            *)
(***************************************************************************)
EXTENDS MccsCapabilities, TLAPS, WellFoundedInduction, FiniteSetTheorems, SequenceTheorems

-----------------------------------------------------------------------------
(* Least elements, loops and sets of positions. *)

Before == {r \in Nat \X Nat : r[1] < r[2]}

LEMMA LeastIsLeast ==
  ASSUME NEW S \in SUBSET Nat, S # {}
  PROVE  Least(S) \in S /\ \A j \in S : Least(S) <= j
<1>1. IsWellFoundedOn(Before, Nat)
  BY NatLessThanWellFounded DEF OpToRel, Before
<1>2. PICK i \in S : \A j \in S : <<j, i>> \notin Before
  BY <1>1, WFMin
<1>3. \A j \in Nat : <<j, i>> \in Before <=> j < i
  BY DEF Before
<1>4. \A j \in S : i <= j
  <2> SUFFICES ASSUME NEW j \in S PROVE i <= j
    OBVIOUS
  <2>1. i \in Nat /\ j \in Nat /\ ~(j < i)
    BY <1>2, <1>3
  <2> QED BY <2>1
<1> QED BY <1>4 DEF Least

(* Induction up to a bound, over a set of numbers. *)
LEMMA Induct ==
  ASSUME NEW N \in Nat, NEW G, 0 \in G, \A n \in 1..N : n - 1 \in G => n \in G
  PROVE  \A n \in 0..N : n \in G
<1> DEFINE bad == {n \in 0..N : n \notin G}
<1>1. CASE bad = {}
  BY <1>1
<1>2. CASE bad # {}
  <2>1. Least(bad) \in bad /\ \A j \in bad : Least(bad) <= j
    <3>1. bad \in SUBSET Nat
      OBVIOUS
    <3> HIDE DEF bad
    <3> QED BY <1>2, <3>1, LeastIsLeast
  <2> DEFINE m == Least(bad)
  <2> HIDE DEF m
  <2>2. m \in 0..N /\ m \notin G /\ \A j \in bad : m <= j
    BY <2>1 DEF m
  <2>3. m \in 1..N /\ m - 1 \in 0..N
    BY <2>2
  <2>4. m - 1 \in G
    BY <2>2, <2>3
  <2> QED BY <2>2, <2>3, <2>4
<1> QED BY <1>1, <1>2

IsRun(w, S, f, a, N) == w \in [0..N -> S] /\ w[0] = a /\ \A n \in 1..N : w[n] = f[w[n-1]]

(* A loop whose step keeps a set of states has a value after any number of *)
(* steps.                                                                  *)
LEMMA LoopRuns ==
  ASSUME NEW S, NEW f \in [S -> S], NEW a \in S, NEW N \in Nat
  PROVE  \E w : IsRun(w, S, f, a, N)
<1> DEFINE Runs(m) == \E w \in [0..m -> S] : w[0] = a /\ \A n \in 1..m : w[n] = f[w[n-1]]
           G == {m \in Nat : Runs(m)}
<1>1. 0 \in G
  <2> DEFINE w == [n \in 0..0 |-> a]
  <2>1. w \in [0..0 -> S] /\ w[0] = a /\ 1..0 = {}
    OBVIOUS
  <2>2. \A n \in 1..0 : w[n] = f[w[n-1]]
    BY <2>1
  <2> HIDE DEF w
  <2>3. Runs(0)
    BY <2>1, <2>2
  <2> QED BY <2>3
<1>2. ASSUME NEW m \in 1..N, m - 1 \in G PROVE m \in G
  <2>1. PICK w \in [0..m-1 -> S] : w[0] = a /\ \A n \in 1..m-1 : w[n] = f[w[n-1]]
    BY <1>2
  <2>2. w[m-1] \in S
    BY <2>1
  <2> DEFINE v == [n \in 0..m |-> IF n = m THEN f[w[m-1]] ELSE w[n]]
  <2>3. v \in [0..m -> S] /\ v[0] = a
    BY <2>1, <2>2
  <2>4. ASSUME NEW n \in 1..m PROVE v[n] = f[v[n-1]]
    <3>1. CASE n = m
      BY <3>1
    <3>2. CASE n # m
      <4>1. n \in 1..m-1 /\ v[n] = w[n] /\ v[n-1] = w[n-1]
        BY <3>2
      <4> QED BY <2>1, <4>1
    <3> QED BY <3>1, <3>2
  <2> HIDE DEF v
  <2>5. Runs(m)
    BY <2>3, <2>4
  <2> QED BY <2>5
<1> HIDE DEF G
<1>3. N \in G
  BY <1>1, <1>2, Induct
<1> QED BY <1>3 DEF G, IsRun

(* What moves on with each step unless it is done has done so when there   *)
(* were as many steps as places.                                           *)
LEMMA LoopEnds ==
  ASSUME NEW S, NEW f \in [S -> S], NEW a \in S, NEW N \in Nat, NEW hi \in Nat,
         NEW D \in SUBSET S, hi + 1 <= a.at + N,
         \A s \in S : s.at \in Nat /\ s.at <= hi + 1 /\ (s.at = hi + 1 => s \in D),
         \A s \in D : f[s] \in D,
         \A s \in S \ D : f[s] \in D \/ f[s].at > s.at,
         NEW w, w[0] = a, \A n \in 1..N : w[n-1] \in S => w[n] = f[w[n-1]]
  PROVE  w[N] \in D
<1> DEFINE G == {n \in 0..N : w[n] \in S /\ (w[n] \in D \/ w[n].at >= a.at + n)}
<1>1. 0 \in G
  OBVIOUS
<1>2. ASSUME NEW n \in 1..N, n - 1 \in G PROVE n \in G
  <2>1. w[n-1] \in S /\ w[n] = f[w[n-1]] /\ w[n] \in S
    BY <1>2
  <2>2. CASE w[n-1] \in D
    BY <2>1, <2>2
  <2>3. CASE w[n-1] \notin D
    <3>1. w[n-1].at >= a.at + (n - 1) /\ w[n-1].at \in Nat /\ w[n].at \in Nat /\ a.at \in Nat
      BY <1>2, <2>1, <2>3
    <3>2. w[n] \in D \/ w[n].at > w[n-1].at
      BY <2>1, <2>3
    <3> QED BY <2>1, <3>1, <3>2
  <2> QED BY <2>2, <2>3
<1>3. N \in G
  <2> HIDE DEF G
  <2> QED BY <1>1, <1>2, Induct
<1>4. w[N] \in S /\ (w[N] \in D \/ w[N].at >= a.at + N)
  BY <1>3
<1>5. w[N].at \in Nat /\ w[N].at <= hi + 1 /\ a.at \in Nat
  BY <1>4
<1>6. w[N].at >= a.at + N => w[N].at = hi + 1
  BY <1>5
<1> QED BY <1>4, <1>6

(* Past stops at the first character of another kind. *)
LEMMA PastIs ==
  ASSUME NEW t, NEW i \in Nat, NEW end \in Nat, i <= end + 1, NEW chars
  PROVE  /\ Past(t, i, end, chars) \in i..end+1
         /\ \A j \in i..Past(t, i, end, chars)-1 : t[j] \in chars
         /\ Past(t, i, end, chars) <= end => t[Past(t, i, end, chars)] \notin chars
<1> DEFINE S == {j \in i..end+1 : j <= end => t[j] \notin chars}
<1>1. end + 1 \in S /\ S \in SUBSET Nat
  OBVIOUS
<1>2. Least(S) \in S /\ \A j \in S : Least(S) <= j
  <2> HIDE DEF S
  <2> QED BY <1>1, LeastIsLeast
<1> DEFINE p == Past(t, i, end, chars)
<1>3. p = Least(S)
  BY DEF Past
<1> HIDE DEF p
<1>4. p \in i..end+1 /\ (p <= end => t[p] \notin chars) /\ \A j \in S : p <= j
  BY <1>2, <1>3
<1>5. ASSUME NEW j \in i..p-1 PROVE t[j] \in chars
  <2>1. j \in i..end+1 /\ j <= end /\ ~(p <= j)
    BY <1>4
  <2> QED BY <1>4, <2>1
<1> QED BY <1>4, <1>5 DEF p

LEMMA PlacesAreFinite ==
  ASSUME NEW S \in SUBSET Nat, NEW n \in Nat, \A i \in S : i <= n
  PROVE  IsFiniteSet(S) /\ Cardinality(S) \in Nat
  BY FS_BoundedSetOfNaturals, FS_CardinalityType

(* One position more, after all others: the places of the others remain.   *)
LEMMA OnePlaceMore ==
  ASSUME NEW S \in SUBSET Nat, NEW i \in Nat, \A j \in S : j < i
  PROVE  /\ IsFiniteSet(S) /\ Cardinality(S) \in Nat
         /\ IsFiniteSet(S \cup {i}) /\ Cardinality(S \cup {i}) = Cardinality(S) + 1
         /\ \A j \in S : {k \in S \cup {i} : k <= j} = {k \in S : k <= j}
         /\ {k \in S \cup {i} : k <= i} = S \cup {i}
<1>1. IsFiniteSet(S) /\ Cardinality(S) \in Nat
  <2>1. \A j \in S : j <= i
    OBVIOUS
  <2> QED BY <2>1, PlacesAreFinite
<1>2. i \notin S
  OBVIOUS
<1>3. IsFiniteSet(S \cup {i}) /\ Cardinality(S \cup {i}) = Cardinality(S) + 1
  BY <1>1, <1>2, FS_AddElement
<1>4. \A j \in S : {k \in S \cup {i} : k <= j} = {k \in S : k <= j}
  OBVIOUS
<1>5. {k \in S \cup {i} : k <= i} = S \cup {i}
  <2>1. \A k \in S \cup {i} : k \in Nat /\ k <= i
    OBVIOUS
  <2> QED BY <2>1
<1> QED BY <1>1, <1>3, <1>4, <1>5
-----------------------------------------------------------------------------
(* Parentheses. *)

Shift(c) == IF c = "(" THEN 1 ELSE IF c = ")" THEN -1 ELSE 0

LEMMA DepthSteps ==
  ASSUME NEW t \in Seq(Alphabet)
  PROVE  /\ Depth(t)[0] = 0
         /\ \A i \in 0..Len(t) : Depth(t)[i] \in Int
         /\ \A i \in 1..Len(t) : Depth(t)[i] = Depth(t)[i-1] + Shift(t[i])
<1> DEFINE Of(c, i) == {j \in 1..i : t[j] = c}
<1>1. Len(t) \in Nat
  OBVIOUS
<1>2. ASSUME NEW i \in 0..Len(t), NEW c PROVE IsFiniteSet(Of(c, i)) /\ Cardinality(Of(c, i)) \in Nat
  <2>1. Of(c, i) \in SUBSET Nat /\ i \in Nat /\ \A j \in Of(c, i) : j <= i
    OBVIOUS
  <2> HIDE DEF Of
  <2> QED BY <2>1, PlacesAreFinite
<1>3. \A i \in 0..Len(t) : Depth(t)[i] = Cardinality(Of("(", i)) - Cardinality(Of(")", i))
  BY DEF Depth
<1>4. ASSUME NEW i \in 1..Len(t), NEW c
      PROVE  Cardinality(Of(c, i)) = Cardinality(Of(c, i-1)) + (IF t[i] = c THEN 1 ELSE 0)
  <2>1. i - 1 \in 0..Len(t) /\ i \notin Of(c, i-1)
    OBVIOUS
  <2>2. Of(c, i) = IF t[i] = c THEN Of(c, i-1) \cup {i} ELSE Of(c, i-1)
    <3>1. 1..i = 1..i-1 \cup {i}
      OBVIOUS
    <3> QED BY <3>1
  <2>3. IsFiniteSet(Of(c, i-1)) /\ Cardinality(Of(c, i-1)) \in Nat
    BY <1>2, <2>1
  <2> HIDE DEF Of
  <2>4. CASE t[i] = c
    BY <2>1, <2>2, <2>3, <2>4, FS_AddElement
  <2>5. CASE t[i] # c
    BY <2>2, <2>3, <2>5
  <2> QED BY <2>4, <2>5
<1>5. Depth(t)[0] = 0
  <2>1. Of("(", 0) = {} /\ Of(")", 0) = {}
    OBVIOUS
  <2>2. Cardinality(Of("(", 0)) = 0 /\ Cardinality(Of(")", 0)) = 0
    BY <2>1, FS_EmptySet
  <2>3. Depth(t)[0] = Cardinality(Of("(", 0)) - Cardinality(Of(")", 0))
    BY <1>1, <1>3
  <2> HIDE DEF Of
  <2> QED BY <2>2, <2>3
<1>6. ASSUME NEW i \in 0..Len(t) PROVE Depth(t)[i] \in Int
  <2>1. Cardinality(Of("(", i)) \in Nat /\ Cardinality(Of(")", i)) \in Nat
    BY <1>2
  <2>2. Depth(t)[i] = Cardinality(Of("(", i)) - Cardinality(Of(")", i))
    BY <1>3
  <2> HIDE DEF Of
  <2> QED BY <2>1, <2>2
<1>7. ASSUME NEW i \in 1..Len(t) PROVE Depth(t)[i] = Depth(t)[i-1] + Shift(t[i])
  <2>1. i \in 0..Len(t) /\ i - 1 \in 0..Len(t)
    OBVIOUS
  <2>2. Depth(t)[i] = Cardinality(Of("(", i)) - Cardinality(Of(")", i))
        /\ Depth(t)[i-1] = Cardinality(Of("(", i-1)) - Cardinality(Of(")", i-1))
    BY <1>3, <2>1
  <2>3. /\ Cardinality(Of("(", i)) = Cardinality(Of("(", i-1)) + (IF t[i] = "(" THEN 1 ELSE 0)
        /\ Cardinality(Of(")", i)) = Cardinality(Of(")", i-1)) + (IF t[i] = ")" THEN 1 ELSE 0)
    BY <1>4
  <2>4. Cardinality(Of("(", i-1)) \in Nat /\ Cardinality(Of(")", i-1)) \in Nat
    BY <1>2, <2>1
  <2> HIDE DEF Of
  <2> QED BY <2>2, <2>3, <2>4 DEF Shift
<1> QED BY <1>5, <1>6, <1>7

Balanced(t) ==
  /\ \A i \in 1..Len(t) : t[i] # "nul" /\ Depth(t)[i] \in 0..MaxNesting
  /\ Depth(t)[Len(t)] = 0

LEMMA BalanceIs ==
  ASSUME NEW t \in Seq(Alphabet)
  PROVE  Balance(t) = "OK" <=> Balanced(t)
<1> DEFINE wrong == {i \in 1..Len(t) : t[i] = "nul" \/ Depth(t)[i] < 0 \/ Depth(t)[i] > MaxNesting}
<1>1. wrong = {} <=> \A i \in 1..Len(t) : t[i] # "nul" /\ Depth(t)[i] \in 0..MaxNesting
  <2>1. ASSUME NEW i \in 1..Len(t)
        PROVE  i \notin wrong <=> t[i] # "nul" /\ Depth(t)[i] \in 0..MaxNesting
    <3>1. i \in 0..Len(t) /\ MaxNesting \in Nat
      BY ParserAssumption
    <3>2. Depth(t)[i] \in Int
      BY <3>1, DepthSteps
    <3> QED BY <3>1, <3>2
  <2>2. wrong = {} <=> \A i \in 1..Len(t) : i \notin wrong
    OBVIOUS
  <2> HIDE DEF wrong
  <2> QED BY <2>1, <2>2
<1>2. Balance(t) = IF wrong # {}
                   THEN IF t[Least(wrong)] = "(" THEN "CAPABILITIES_TOO_LARGE"
                        ELSE "CAPABILITIES_MALFORMED"
                   ELSE IF Depth(t)[Len(t)] = 0 THEN "OK" ELSE "CAPABILITIES_MALFORMED"
  BY DEF Balance
<1> HIDE DEF wrong
<1> QED BY <1>1, <1>2 DEF Balanced

(* Where a parenthesis closes, and that the nesting stays inside until it  *)
(* does.                                                                   *)
LEMMA ClosingIs ==
  ASSUME NEW t \in Seq(Alphabet), Balanced(t), NEW open \in 1..Len(t), t[open] = "("
  PROVE  /\ Closing(t, open) \in open+1..Len(t) /\ t[Closing(t, open)] = ")"
         /\ Depth(t)[Closing(t, open)] = Depth(t)[open] - 1
         /\ \A j \in open..Closing(t, open)-1 : Depth(t)[j] >= Depth(t)[open]
<1> DEFINE d == Depth(t)
           below == {i \in open..Len(t) : d[i] < d[open]}
           S == {i \in open..Len(t) : d[i] = d[open] - 1}
           b == Least(below)
           c == Closing(t, open)
<1>1. /\ Len(t) \in Nat /\ open \in Nat /\ d[Len(t)] = 0 /\ d[open - 1] >= 0
      /\ d[open] = d[open - 1] + 1
      /\ \A i \in 1..Len(t) : d[i] \in Int /\ d[i - 1] \in Int /\ d[i] = d[i-1] + Shift(t[i])
  <2>1. \A i \in 1..Len(t) : i \in 0..Len(t) /\ i - 1 \in 0..Len(t)
    OBVIOUS
  <2>2. \A i \in 1..Len(t) : d[i] \in Int /\ d[i - 1] \in Int /\ d[i] = d[i-1] + Shift(t[i])
    BY <2>1, DepthSteps
  <2>3. d[open - 1] >= 0
    BY DepthSteps, ParserAssumption DEF Balanced
  <2> QED BY <2>2, <2>3 DEF Balanced, Shift
<1>2. Len(t) \in below
  BY <1>1
<1>3. b \in below /\ \A i \in below : b <= i
  <2>1. below \in SUBSET Nat /\ below # {}
    BY <1>2
  <2> HIDE DEF below
  <2> QED BY <2>1, LeastIsLeast
<1> HIDE DEF b
<1>4. b \in open+1..Len(t) /\ \A j \in open..b-1 : d[j] >= d[open]
  <2>1. b \in open..Len(t) /\ d[b] < d[open] /\ \A i \in below : b <= i
    BY <1>3
  <2>2. b # open
    BY <1>1, <2>1
  <2>3. ASSUME NEW j \in open..b-1 PROVE d[j] >= d[open]
    <3>1. j \in open..Len(t) /\ ~(b <= j) /\ j \in 1..Len(t)
      BY <2>1
    <3>2. ~(d[j] < d[open])
      BY <2>1, <3>1
    <3>3. d[j] \in Int /\ d[open] \in Int
      BY <1>1, <3>1
    <3> QED BY <3>2, <3>3
  <2> QED BY <2>1, <2>2, <2>3
<1>5. d[b] = d[open] - 1 /\ t[b] = ")"
  <2>1. d[b] < d[open] /\ b \in 1..Len(t) /\ b - 1 \in open..b-1
    BY <1>3, <1>4
  <2>2. d[b-1] >= d[open] /\ d[b] = d[b-1] + Shift(t[b])
    BY <1>1, <1>4, <2>1
  <2>3. d[b] \in Int /\ d[b-1] \in Int /\ d[open] \in Int
    BY <1>1, <2>1
  <2> HIDE DEF d
  <2> QED BY <2>1, <2>2, <2>3 DEF Shift
<1>6. c = b
  <2>1. b \in S /\ S \in SUBSET Nat
    BY <1>4, <1>5
  <2>2. c = Least(S)
    BY DEF Closing
  <2>3. Least(S) \in S /\ \A j \in S : Least(S) <= j
    <3> HIDE DEF S
    <3> QED BY <2>1, LeastIsLeast
  <2>4. \A j \in S : j \in below
    BY <1>1
  <2>5. b <= Least(S) /\ Least(S) <= b
    BY <1>3, <2>1, <2>3, <2>4
  <2>6. Least(S) \in Nat /\ b \in Nat
    BY <2>1, <2>3
  <2> QED BY <2>2, <2>5, <2>6
<1> QED BY <1>4, <1>5, <1>6
-----------------------------------------------------------------------------
(* A text whose parentheses balance: its nesting, its characters, its      *)
(* bytes.                                                                  *)

Whole(t) == t \in Seq(Alphabet) /\ Balanced(t)

LEMMA Letters ==
  /\ \A c \in HexDigits : c \notin Spaces /\ c # "(" /\ c # ")" /\ c # "nul"
  /\ \A c \in IdentifierChar : c \notin Spaces /\ c # "(" /\ c # ")"
  /\ \A c \in IdentifierStart : c \in IdentifierChar
  /\ \A c \in Spaces : c # "(" /\ c # ")"
  /\ "v" \in IdentifierStart
  BY DEF HexDigits, Spaces, IdentifierStart, IdentifierChar

LEMMA Depths ==
  ASSUME NEW t, Whole(t)
  PROVE  /\ Len(t) \in Nat
         /\ Depth(t)[0] = 0 /\ Depth(t)[Len(t)] = 0
         /\ \A i \in 0..Len(t) : Depth(t)[i] \in Nat
         /\ \A i \in 1..Len(t) :
              /\ t[i] \in Alphabet /\ t[i] # "nul"
              /\ i \in Nat /\ i \in 0..Len(t) /\ i - 1 \in 0..Len(t)
              /\ t[i] = "(" => Depth(t)[i] = Depth(t)[i-1] + 1
              /\ t[i] = ")" => Depth(t)[i] = Depth(t)[i-1] - 1
              /\ t[i] # "(" /\ t[i] # ")" => Depth(t)[i] = Depth(t)[i-1]
<1>0. t \in Seq(Alphabet) /\ Balanced(t)
  BY DEF Whole
<1>1. Len(t) \in Nat /\ Depth(t)[0] = 0 /\ Depth(t)[Len(t)] = 0
  BY <1>0, DepthSteps DEF Balanced
<1>2. ASSUME NEW i \in 0..Len(t) PROVE Depth(t)[i] \in Nat
  <2>1. CASE i = 0
    BY <1>1, <2>1
  <2>2. CASE i # 0
    <3>1. i \in 1..Len(t)
      BY <2>2
    <3>2. Depth(t)[i] \in 0..MaxNesting
      BY <1>0, <3>1 DEF Balanced
    <3> QED BY <3>2
  <2> QED BY <2>1, <2>2
<1>3. ASSUME NEW i \in 1..Len(t)
      PROVE /\ t[i] \in Alphabet /\ t[i] # "nul"
            /\ i \in Nat /\ i \in 0..Len(t) /\ i - 1 \in 0..Len(t)
            /\ t[i] = "(" => Depth(t)[i] = Depth(t)[i-1] + 1
            /\ t[i] = ")" => Depth(t)[i] = Depth(t)[i-1] - 1
            /\ t[i] # "(" /\ t[i] # ")" => Depth(t)[i] = Depth(t)[i-1]
  <2>1. t[i] \in Alphabet /\ t[i] # "nul" /\ i \in 0..Len(t) /\ i - 1 \in 0..Len(t) /\ i \in Nat
    BY <1>0 DEF Balanced
  <2>2. Depth(t)[i] = Depth(t)[i-1] + Shift(t[i])
    BY <1>0, DepthSteps
  <2>3. Depth(t)[i-1] \in Nat
    BY <1>2, <2>1
  <2> QED BY <2>1, <2>2, <2>3 DEF Shift
<1> QED BY <1>1, <1>2, <1>3

(* Without parentheses the nesting stays.                                  *)
LEMMA Flat ==
  ASSUME NEW t, Whole(t), NEW p \in 1..Len(t), NEW q \in p-1..Len(t),
         \A j \in p..q : t[j] # "(" /\ t[j] # ")"
  PROVE  \A j \in p-1..q : Depth(t)[j] = Depth(t)[p-1]
<1> DEFINE G == {n \in Nat : p - 1 + n <= q => Depth(t)[p - 1 + n] = Depth(t)[p-1]}
           N == q - (p - 1)
<1>1. N \in Nat /\ p \in Nat /\ q \in Nat /\ Len(t) \in Nat
  BY Depths
<1>2. 0 \in G
  BY <1>1
<1>3. ASSUME NEW n \in 1..N, n - 1 \in G PROVE n \in G
  <2> DEFINE k == p - 1 + n
  <2>1. k \in p..q /\ k \in 1..Len(t) /\ k - 1 = p - 1 + (n - 1) /\ k - 1 <= q
    BY <1>1
  <2>2. t[k] # "(" /\ t[k] # ")"
    BY <2>1
  <2>3. Depth(t)[k] = Depth(t)[k-1]
    <3> HIDE DEF k
    <3> QED BY <2>1, <2>2, Depths
  <2>4. Depth(t)[k - 1] = Depth(t)[p-1]
    BY <1>3, <2>1
  <2>5. Depth(t)[p - 1 + n] = Depth(t)[p-1] /\ n \in Nat
    BY <1>1, <2>3, <2>4
  <2> QED BY <2>5
<1>4. \A n \in 0..N : n \in G
  <2> HIDE DEF G
  <2> QED BY <1>1, <1>2, <1>3, Induct
<1>5. ASSUME NEW j \in p-1..q PROVE Depth(t)[j] = Depth(t)[p-1]
  <2>1. j - (p - 1) \in 0..N /\ j = p - 1 + (j - (p - 1))
    BY <1>1
  <2>2. j - (p - 1) \in G
    BY <1>4, <2>1
  <2> QED BY <1>1, <2>1, <2>2
<1> QED BY <1>5

LEMMA SpacesAreFlat ==
  ASSUME NEW t, Whole(t), NEW p \in 1..Len(t), NEW q \in p-1..Len(t),
         \A j \in p..q : t[j] \in Spaces
  PROVE  \A j \in p-1..q : Depth(t)[j] = Depth(t)[p-1]
  BY Flat, Letters

(* What is enclosed by a pair of parentheses.                              *)
LEMMA Enclosed ==
  ASSUME NEW t, Whole(t), NEW open \in 1..Len(t), t[open] = "("
  PROVE  /\ Closing(t, open) \in open+1..Len(t) /\ t[Closing(t, open)] = ")"
         /\ Depth(t)[open] = Depth(t)[open - 1] + 1
         /\ Depth(t)[Closing(t, open)] = Depth(t)[open - 1]
         /\ Depth(t)[Closing(t, open) - 1] = Depth(t)[open]
         /\ \A j \in open..Closing(t, open)-1 : Depth(t)[j] >= Depth(t)[open]
<1> DEFINE c == Closing(t, open)
<1>1. t \in Seq(Alphabet) /\ Balanced(t)
  BY DEF Whole
<1>2. /\ c \in open+1..Len(t) /\ t[c] = ")"
      /\ Depth(t)[c] = Depth(t)[open] - 1
      /\ \A j \in open..c-1 : Depth(t)[j] >= Depth(t)[open]
  BY <1>1, ClosingIs
<1> HIDE DEF c
<1>3. Depth(t)[open] = Depth(t)[open - 1] + 1 /\ Depth(t)[open - 1] \in Nat
  BY Depths
<1>4. c \in 1..Len(t)
  BY <1>2
<1>5. Depth(t)[c] = Depth(t)[c-1] - 1 /\ Depth(t)[c-1] \in Nat
  BY <1>2, <1>4, Depths
<1>6. Depth(t)[c] = Depth(t)[open - 1] /\ Depth(t)[c-1] = Depth(t)[open]
  BY <1>2, <1>3, <1>5
<1> QED BY <1>2, <1>3, <1>6 DEF c

(* A byte is two digits that no third follows.                             *)
LEMMA ByteIs ==
  ASSUME NEW t, Whole(t), NEW i \in 1..Len(t), NEW end \in i..Len(t)-1,
         t[end + 1] \notin HexDigits
  PROVE  IsByte(t, i, end) <=>
           /\ i + 1 <= end /\ t[i] \in HexDigits /\ t[i+1] \in HexDigits
           /\ t[i+2] \notin HexDigits
<1> DEFINE p == Past(t, i, end, HexDigits)
<1>1. Len(t) \in Nat
  BY Depths
<1>2. /\ p \in i..end+1
      /\ \A j \in i..p-1 : t[j] \in HexDigits
      /\ p <= end => t[p] \notin HexDigits
  BY <1>1, PastIs
<1> HIDE DEF p
<1>3. IsByte(t, i, end) <=> p = i + 2
  BY DEF IsByte, p
<1>4. t[p] \notin HexDigits
  BY <1>1, <1>2
<1>5. p = i + 2 => /\ i + 1 <= end /\ t[i] \in HexDigits /\ t[i+1] \in HexDigits
                   /\ t[i+2] \notin HexDigits
  BY <1>1, <1>2, <1>4
<1>6. ASSUME i + 1 <= end, t[i] \in HexDigits, t[i+1] \in HexDigits, t[i+2] \notin HexDigits
      PROVE  p = i + 2
  <2>1. p # i /\ p # i + 1
    BY <1>4, <1>6
  <2>2. ~(p > i + 2)
    <3>1. p > i + 2 => i + 2 \in i..p-1
      BY <1>1, <1>2
    <3> QED BY <1>2, <1>6, <3>1
  <2> QED BY <1>1, <1>2, <2>1, <2>2
<1> QED BY <1>3, <1>5, <1>6

LEMMA ByteIsAByte ==
  ASSUME NEW t, NEW i, t[i] \in HexDigits, t[i+1] \in HexDigits
  PROVE  Byte(t, i) \in Bytes
<1>1. \A c \in HexDigits : Hex[c] \in 0..10
  BY DEF HexDigits, Hex
<1> DEFINE a == Hex[t[i]]
           b == Hex[t[i+1]]
<1>2. a \in 0..10 /\ b \in 0..10
  BY <1>1
<1>3. Byte(t, i) = 16 * a + b
  BY DEF Byte
<1> HIDE DEF a, b
<1> QED BY <1>2, <1>3 DEF Bytes
-----------------------------------------------------------------------------
(* A sequence of values that goes on with the bytes at some places, in     *)
(* their order.                                                            *)

Rank(B, j) == Cardinality({k \in B : k <= j})

Follows(t, B, e0, e) ==
  /\ Len(e) = Len(e0) + Cardinality(B)
  /\ \A n \in 1..Len(e0) : e[n] = e0[n]
  /\ \A j \in B : Rank(B, j) \in 1..Cardinality(B) /\ e[Len(e0) + Rank(B, j)] = Byte(t, j)
  /\ \A n \in 1..Cardinality(B) : \E j \in B : Rank(B, j) = n

LEMMA NoneFollows ==
  ASSUME NEW t, NEW e0, Len(e0) \in Nat
  PROVE  Follows(t, {}, e0, e0)
<1>1. Cardinality({}) = 0 /\ 1..0 = {}
  BY FS_EmptySet
<1> QED BY <1>1 DEF Follows

LEMMA OneMoreFollows ==
  ASSUME NEW t, NEW B \in SUBSET Nat, NEW i \in Nat, \A j \in B : j < i,
         NEW e0 \in Seq(Bytes), NEW e \in Seq(Bytes), Byte(t, i) \in Bytes, Follows(t, B, e0, e)
  PROVE  Follows(t, B \cup {i}, e0, Append(e, Byte(t, i)))
<1> DEFINE C == B \cup {i}
           b == Cardinality(B)
           x == Byte(t, i)
           g == Append(e, x)
           L == Len(e0)
<1>1. /\ IsFiniteSet(B) /\ b \in Nat
      /\ IsFiniteSet(C) /\ Cardinality(C) = b + 1
      /\ \A j \in B : {k \in C : k <= j} = {k \in B : k <= j}
      /\ {k \in C : k <= i} = C
  BY OnePlaceMore
<1>2. (\A j \in B : Rank(C, j) = Rank(B, j)) /\ Rank(C, i) = b + 1
  BY <1>1 DEF Rank
<1>3. /\ Len(e) = L + b /\ L \in Nat
      /\ \A n \in 1..L : e[n] = e0[n]
      /\ \A j \in B : Rank(B, j) \in 1..b /\ e[L + Rank(B, j)] = Byte(t, j)
      /\ \A n \in 1..b : \E j \in B : Rank(B, j) = n
  BY DEF Follows
<1>4. Len(g) = Len(e) + 1 /\ g[Len(e) + 1] = x /\ \A n \in 1..Len(e) : g[n] = e[n]
  <2> HIDE DEF x
  <2> QED OBVIOUS
<1> HIDE DEF b, x, g, L, C
<1>5. Len(g) = L + Cardinality(C)
  BY <1>1, <1>3, <1>4
<1>6. \A n \in 1..L : g[n] = e0[n]
  BY <1>1, <1>3, <1>4
<1>7. \A j \in C : j \in B \/ j = i
  BY DEF C
<1>8. ASSUME NEW j \in C PROVE Rank(C, j) \in 1..Cardinality(C) /\ g[L + Rank(C, j)] = Byte(t, j)
  <2>1. CASE j \in B
    <3>1. Rank(B, j) \in 1..b /\ e[L + Rank(B, j)] = Byte(t, j) /\ Rank(C, j) = Rank(B, j)
      BY <1>2, <1>3, <2>1
    <3>2. L + Rank(B, j) \in 1..Len(e)
      BY <1>1, <1>3, <3>1
    <3> QED BY <1>1, <1>4, <3>1, <3>2
  <2>2. CASE j = i
    BY <1>1, <1>2, <1>3, <1>4, <2>2 DEF x
  <2> QED BY <1>7, <2>1, <2>2
<1>9. ASSUME NEW n \in 1..Cardinality(C) PROVE \E j \in C : Rank(C, j) = n
  <2>1. CASE n = b + 1
    BY <1>2, <2>1 DEF C
  <2>2. CASE n # b + 1
    <3>1. n \in 1..b
      BY <1>1, <2>2
    <3>2. PICK j \in B : Rank(B, j) = n
      BY <1>3, <3>1
    <3> QED BY <1>2, <3>2 DEF C
  <2> QED BY <2>1, <2>2
<1> QED BY <1>5, <1>6, <1>8, <1>9 DEF Follows, L, C, g, x

(* Bytes at other characters there are none.                               *)
LEMMA NoBytes ==
  ASSUME NEW t, NEW S, NEW R, \A j \in R : j \in S \/ t[j] \notin HexDigits, S \subseteq R
  PROVE  BytesAt(t, R) = BytesAt(t, S)
<1>1. \A T, j : j \in BytesAt(t, T) <=> j \in T /\ t[j] \in HexDigits /\ t[j+1] \in HexDigits
  BY DEF BytesAt
<1> QED BY <1>1

LEMMA InBytes ==
  ASSUME NEW t, NEW S
  PROVE  \A j : j \in BytesAt(t, S) <=> j \in S /\ t[j] \in HexDigits /\ t[j+1] \in HexDigits
  BY DEF BytesAt

(* Places that come first among others, and one more, are no more than all.*)
LEMMA CountedUpTo ==
  ASSUME NEW T \in SUBSET Nat, NEW m \in Nat, \A j \in T : j <= m,
         NEW S \in SUBSET T, NEW i \in T, i \notin S
  PROVE  Cardinality(S) \in Nat /\ Cardinality(T) \in Nat /\ Cardinality(S) + 1 <= Cardinality(T)
<1>1. IsFiniteSet(T) /\ Cardinality(T) \in Nat
  BY PlacesAreFinite
<1>2. IsFiniteSet(S) /\ Cardinality(S) \in Nat
  BY <1>1, FS_Subset, FS_CardinalityType
<1>3. IsFiniteSet(S \cup {i}) /\ Cardinality(S \cup {i}) = Cardinality(S) + 1
  BY <1>2, FS_AddElement
<1>4. S \cup {i} \subseteq T
  OBVIOUS
<1>5. Cardinality(S \cup {i}) <= Cardinality(T)
  BY <1>1, <1>3, <1>4, FS_Subset
<1> QED BY <1>1, <1>2, <1>3, <1>5
-----------------------------------------------------------------------------
(* What a character of a vcp section may stand next to.                    *)

Base(t) == IF Wrapped(t) THEN 1 ELSE 0

WellPlaced(t, i) ==
  /\ t[i] \in HexDigits \cup Spaces \cup (IF Level(t, i) = 1 THEN {"(", ")"} ELSE {})
  /\ t[i] \in HexDigits => IsAt(t, i - 1, HexDigits) # IsAt(t, i + 1, HexDigits)
  /\ t[i] = "(" => IsAt(t, i - 1, HexDigits) /\ ~IsAt(t, NextSolid(t, i), {")"})
  /\ t[i] = ")" => IsAt(t, i + 1, Spaces \cup {")"})

Good(t) == SectionsAreNamed(t) /\ VcpIsWellFormed(t) /\ CodesAreDistinct(t) /\ AreCounted(t)

Text(t) == Whole(t) /\ Top(t) \subseteq 1..Len(t)

LEMMA GoodIsWell ==
  ASSUME NEW t, NEW i \in VcpPositions(t), ~WellPlaced(t, i)
  PROVE  ~Good(t)
  BY DEF WellPlaced, Good, VcpIsWellFormed

LEMMA Levels ==
  ASSUME NEW t, Whole(t), NEW i \in 1..Len(t)
  PROVE  /\ Base(t) \in 0..1
         /\ t[i] = "(" => Level(t, i) = Depth(t)[i-1] - Base(t)
         /\ t[i] # "(" => Level(t, i) = Depth(t)[i] - Base(t)
<1>1. Depth(t)[i] \in Nat /\ Depth(t)[i-1] \in Nat /\ (t[i] = "(" => Depth(t)[i] = Depth(t)[i-1] + 1)
  BY Depths
<1>2. Base(t) \in 0..1
  BY DEF Base
<1>3. Level(t, i) = Depth(t)[i] - (IF t[i] = "(" THEN 1 ELSE 0) - Base(t)
  BY DEF Level, Base
<1> QED BY <1>1, <1>2, <1>3

(* The positions of vcp sections are positions of the text.                *)
LEMMA VcpPlaces ==
  ASSUME NEW t, Text(t)
  PROVE  VcpPositions(t) \subseteq 1..Len(t)
<1> SUFFICES ASSUME NEW x \in VcpPositions(t) PROVE x \in 1..Len(t)
  OBVIOUS
<1>1. Whole(t) /\ Top(t) \subseteq 1..Len(t)
  BY DEF Text
<1>2. PICK i \in Positions(t, 0) : t[i] = "(" /\ x \in i+1..Closing(t, i)-1
  BY DEF VcpPositions
<1>3. i \in 1..Len(t)
  BY <1>1, <1>2 DEF Positions
<1>4. Closing(t, i) \in i+1..Len(t)
  BY <1>1, <1>2, <1>3, Enclosed
<1>5. Len(t) \in Nat
  BY <1>1, Depths
<1> QED BY <1>2, <1>3, <1>4, <1>5

(* A digit that begins no byte.                                            *)
LEMMA NotAByte ==
  ASSUME NEW t, Whole(t), NEW i \in 1..Len(t), NEW end \in i..Len(t)-1,
         t[end + 1] \notin HexDigits, ~IsAt(t, i - 1, HexDigits), t[i] \in HexDigits,
         ~IsByte(t, i, end), \A j \in i..end : j \in VcpPositions(t)
  PROVE  ~Good(t)
<1>1. Len(t) \in Nat /\ i + 1 \in 1..Len(t) /\ i \in i..end
  BY Depths
<1>2. CASE t[i+1] \notin HexDigits
  <2>1. ~IsAt(t, i + 1, HexDigits)
    BY <1>2 DEF IsAt
  <2>2. IsAt(t, i - 1, HexDigits) = FALSE /\ IsAt(t, i + 1, HexDigits) = FALSE
    BY <2>1 DEF IsAt
  <2>3. ~WellPlaced(t, i)
    BY <2>2 DEF WellPlaced
  <2> QED BY <1>1, <2>3, GoodIsWell
<1>3. CASE t[i+1] \in HexDigits
  <2>1. i + 1 <= end
    BY <1>1, <1>3
  <2>2. t[i+2] \in HexDigits
    BY <1>3, <2>1, ByteIs
  <2>3. i + 2 \in 1..Len(t) /\ i + 1 \in i..end /\ (i + 1) - 1 = i /\ (i + 1) + 1 = i + 2
    BY <1>1, <2>1
  <2>4. IsAt(t, i, HexDigits) /\ IsAt(t, i + 2, HexDigits)
    BY <2>2, <2>3 DEF IsAt
  <2>5. ~WellPlaced(t, i + 1)
    <3> DEFINE k == i + 1
    <3>1. IsAt(t, k - 1, HexDigits) /\ IsAt(t, k + 1, HexDigits) /\ t[k] \in HexDigits
      BY <1>3, <2>3, <2>4
    <3> HIDE DEF k
    <3>2. ~WellPlaced(t, k)
      BY <3>1 DEF WellPlaced
    <3> QED BY <3>2 DEF k
  <2> QED BY <2>3, <2>5, GoodIsWell
<1> QED BY <1>2, <1>3

LEMMA ByteIsWell ==
  ASSUME NEW t, Whole(t), NEW i \in 1..Len(t), NEW end \in i..Len(t)-1,
         t[end + 1] \notin HexDigits, ~IsAt(t, i - 1, HexDigits), IsByte(t, i, end)
  PROVE  WellPlaced(t, i) /\ WellPlaced(t, i + 1) /\ Byte(t, i) \in Bytes
<1>1. Len(t) \in Nat
  BY Depths
<1>2. i + 1 <= end /\ t[i] \in HexDigits /\ t[i+1] \in HexDigits /\ t[i+2] \notin HexDigits
  BY ByteIs
<1>3. i + 1 \in 1..Len(t)
  BY <1>1
<1>4. IsAt(t, i, HexDigits) /\ IsAt(t, i + 1, HexDigits) /\ ~IsAt(t, i + 2, HexDigits)
  BY <1>2, <1>3 DEF IsAt
<1>5. WellPlaced(t, i)
  BY <1>2, <1>4, Letters DEF WellPlaced
<1>6. WellPlaced(t, i + 1)
  <2> DEFINE k == i + 1
  <2>1. IsAt(t, k - 1, HexDigits) /\ ~IsAt(t, k + 1, HexDigits) /\ t[k] \in HexDigits
    BY <1>1, <1>2, <1>4
  <2> HIDE DEF k
  <2>2. WellPlaced(t, k)
    BY <2>1, Letters DEF WellPlaced
  <2> QED BY <2>2 DEF k
<1> QED BY <1>2, <1>5, <1>6, ByteIsAByte

LEMMA SpaceIsWell ==
  ASSUME NEW t, NEW i, t[i] \in Spaces
  PROVE  WellPlaced(t, i)
  BY Letters DEF WellPlaced
-----------------------------------------------------------------------------
(* A list of values: parse_enum_values.                                    *)

ValuePositions(t) == BytesAt(t, {i \in VcpPositions(t) : Level(t, i) = 2})
ValuesBefore(t, p) == {i \in ValuePositions(t) : i < p}

InList(t, lo, hi) ==
  /\ Text(t)
  /\ lo \in 2..Len(t) /\ hi \in lo-1..Len(t)-1
  /\ t[lo-1] = "(" /\ t[hi+1] = ")"
  /\ Depth(t)[lo-1] = Base(t) + 2
  /\ \A j \in lo-1..hi : Depth(t)[j] >= Base(t) + 2
  /\ \A j \in lo-1..hi+1 : j \in VcpPositions(t)

LEMMA ListChars ==
  ASSUME NEW t, NEW lo, NEW hi, InList(t, lo, hi), NEW j \in lo..hi, WellPlaced(t, j)
  PROVE  t[j] \in HexDigits \cup Spaces
<1>1. /\ Whole(t) /\ lo \in 2..Len(t) /\ hi \in lo-1..Len(t)-1
      /\ \A k \in lo-1..hi : Depth(t)[k] >= Base(t) + 2
  BY DEF InList, Text
<1>2. Len(t) \in Nat /\ j \in 1..Len(t)
  BY <1>1, Depths
<1>3. Base(t) \in 0..1 /\ Depth(t)[j] >= Base(t) + 2 /\ Depth(t)[j-1] >= Base(t) + 2
      /\ Depth(t)[j] \in Nat /\ Depth(t)[j-1] \in Nat
  BY <1>1, <1>2, Levels, Depths
<1>4. Level(t, j) # 1
  BY <1>1, <1>2, <1>3, Levels
<1> QED BY <1>4 DEF WellPlaced

LEMMA ListLevels ==
  ASSUME NEW t, NEW lo, NEW hi, InList(t, lo, hi), NEW p \in lo..hi+1,
         \A j \in lo..p-1 : WellPlaced(t, j)
  PROVE  \A j \in lo..p-1 : j \in VcpPositions(t) /\ Level(t, j) = 2
<1>1. /\ Whole(t) /\ lo \in 2..Len(t) /\ hi \in lo-1..Len(t)-1
      /\ Depth(t)[lo-1] = Base(t) + 2 /\ \A j \in lo-1..hi+1 : j \in VcpPositions(t)
  BY DEF InList, Text
<1>2. Len(t) \in Nat /\ p - 1 \in lo-1..Len(t) /\ lo \in 1..Len(t)
  BY <1>1, Depths
<1>3. \A j \in lo..p-1 : t[j] \in HexDigits \cup Spaces
  <2>1. \A j \in lo..p-1 : j \in lo..hi
    BY <1>1, <1>2
  <2> QED BY <2>1, ListChars
<1>4. \A j \in lo..p-1 : t[j] # "(" /\ t[j] # ")"
  BY <1>3, Letters
<1>5. \A j \in lo-1..p-1 : Depth(t)[j] = Depth(t)[lo-1]
  BY <1>1, <1>2, <1>4, Flat
<1>6. ASSUME NEW j \in lo..p-1 PROVE j \in VcpPositions(t) /\ Level(t, j) = 2
  <2>1. j \in 1..Len(t) /\ j \in lo-1..p-1 /\ j \in lo-1..hi+1
    BY <1>1, <1>2
  <2>2. Level(t, j) = Depth(t)[j] - Base(t) /\ Base(t) \in 0..1
    BY <1>1, <1>4, <2>1, Levels
  <2>3. Depth(t)[j] = Base(t) + 2
    BY <1>1, <1>5, <2>1
  <2> QED BY <1>1, <2>1, <2>2, <2>3
<1> QED BY <1>6

LEMMA ValuePlaces ==
  ASSUME NEW t, Text(t)
  PROVE  /\ Len(t) \in Nat
         /\ ValuePositions(t) \in SUBSET Nat /\ \A j \in ValuePositions(t) : j <= Len(t)
         /\ \A p : /\ IsFiniteSet(ValuesBefore(t, p))
                   /\ Cardinality(ValuesBefore(t, p)) \in Nat
                   /\ ValuesBefore(t, p) \in SUBSET ValuePositions(t)
<1>1. Len(t) \in Nat
  BY Depths DEF Text
<1>2. ValuePositions(t) \in SUBSET Nat /\ \A j \in ValuePositions(t) : j <= Len(t)
  BY <1>1, VcpPlaces DEF ValuePositions, BytesAt
<1>3. ASSUME NEW p PROVE /\ IsFiniteSet(ValuesBefore(t, p))
                         /\ Cardinality(ValuesBefore(t, p)) \in Nat
                         /\ ValuesBefore(t, p) \in SUBSET ValuePositions(t)
  <2>1. ValuesBefore(t, p) \in SUBSET ValuePositions(t)
    BY DEF ValuesBefore
  <2>2. ValuesBefore(t, p) \in SUBSET Nat /\ \A j \in ValuesBefore(t, p) : j <= Len(t)
    BY <1>2, <2>1
  <2> QED BY <1>1, <2>1, <2>2, PlacesAreFinite
<1> QED BY <1>1, <1>2, <1>3

LEMMA ValuesUpTo ==
  ASSUME NEW t, NEW lo, NEW hi, InList(t, lo, hi), NEW p \in lo..hi+1,
         \A j \in lo..p-1 : WellPlaced(t, j)
  PROVE  /\ ValuesBefore(t, p) = ValuesBefore(t, lo) \cup BytesAt(t, lo..p-1)
         /\ Cardinality(BytesAt(t, lo..p-1)) \in Nat
         /\ Cardinality(ValuesBefore(t, p))
              = Cardinality(ValuesBefore(t, lo)) + Cardinality(BytesAt(t, lo..p-1))
<1> DEFINE A == ValuesBefore(t, lo)
           B == BytesAt(t, lo..p-1)
<1>1. Text(t) /\ lo \in 2..Len(t) /\ hi \in lo-1..Len(t)-1
  BY DEF InList
<1>2. Len(t) \in Nat /\ ValuePositions(t) \in SUBSET Nat
      /\ IsFiniteSet(A) /\ Cardinality(A) \in Nat
  BY <1>1, ValuePlaces
<1>3. \A j \in lo..p-1 : j \in VcpPositions(t) /\ Level(t, j) = 2
  BY ListLevels
<1>4. \A j \in Nat : j \in ValuePositions(t) <=>
        j \in VcpPositions(t) /\ Level(t, j) = 2 /\ t[j] \in HexDigits /\ t[j+1] \in HexDigits
  BY DEF ValuePositions, BytesAt
<1>5. \A j : j \in B <=> j \in lo..p-1 /\ t[j] \in HexDigits /\ t[j+1] \in HexDigits
  BY InBytes
<1>6. ValuesBefore(t, p) = A \cup B
  <2>1. \A j : j \in ValuesBefore(t, p) <=> j \in ValuePositions(t) /\ j < p
    BY DEF ValuesBefore
  <2>2. \A j : j \in A <=> j \in ValuePositions(t) /\ j < lo
    BY DEF ValuesBefore
  <2>3. p \in Nat /\ lo \in Nat /\ lo <= p
    BY <1>1, <1>2
  <2> HIDE DEF A, B
  <2>4. \A j \in Nat : j \in lo..p-1 <=> j < p /\ ~(j < lo)
    BY <1>1, <1>2, <2>3
  <2>5. \A j \in B : j \in Nat
    BY <1>1, <1>2, <1>5
  <2>6. \A j \in Nat : j \in ValuesBefore(t, p) <=> j \in A \/ j \in B
    BY <1>3, <1>4, <1>5, <2>1, <2>2, <2>3, <2>4
  <2>7. \A j : j \in ValuesBefore(t, p) \/ j \in A => j \in Nat
    BY <1>2, <2>1, <2>2
  <2> QED BY <2>5, <2>6, <2>7
<1>7. IsFiniteSet(B) /\ Cardinality(B) \in Nat
  <2>1. B \in SUBSET Nat /\ \A j \in B : j <= Len(t)
    BY <1>1, <1>2, <1>5
  <2> HIDE DEF B
  <2> QED BY <1>2, <2>1, PlacesAreFinite
<1>8. A \cap B = {}
  <2>1. \A j \in A : j < lo /\ j \in Nat
    BY <1>2 DEF ValuesBefore
  <2>2. \A j \in B : j \in Nat /\ lo <= j
    BY <1>1, <1>2, <1>5
  <2> HIDE DEF A, B
  <2> QED BY <1>1, <2>1, <2>2
<1> HIDE DEF A, B
<1>9. Cardinality(A \cup B) = Cardinality(A) + Cardinality(B) - Cardinality(A \cap B)
  BY <1>2, <1>7, FS_Union
<1>10. Cardinality(A \cap B) = 0
  BY <1>8, FS_EmptySet
<1> QED BY <1>2, <1>6, <1>7, <1>9, <1>10 DEF A, B

ValuesRead(t, lo, hi, s0, s) ==
  /\ s.features = s0.features
  /\ \A j \in lo..s.at-1 : WellPlaced(t, j)
  /\ Follows(t, BytesAt(t, lo..s.at-1), s0.enum_values, s.enum_values)
  /\ Len(s.enum_values) <= MaxEnumValues
  /\ s.at \in {lo, hi+1} \/ t[s.at] \in Spaces

ValuesInv(t, lo, hi, s0, s) ==
  /\ s \in Readings /\ s.at \in lo..hi+1
  /\ s.error # "OK" => ~Good(t)
  /\ s.error = "OK" => ValuesRead(t, lo, hi, s0, s)

ValuesStart(t, lo, s0) ==
  /\ s0 \in Readings /\ s0.error = "OK" /\ Len(s0.enum_values) <= MaxEnumValues
  /\ Len(s0.enum_values) = Cardinality(ValuesBefore(t, lo))

LEMMA ReadingsChange ==
  ASSUME NEW s \in Readings
  PROVE  /\ \A i \in Nat : At(s, i) \in Readings /\ At(s, i).at = i /\ At(s, i).error = s.error
              /\ At(s, i).features = s.features /\ At(s, i).enum_values = s.enum_values
         /\ \A e \in {"OK", "CAPABILITIES_MALFORMED", "CAPABILITIES_TOO_LARGE"} :
              Fails(s, e) \in Readings /\ Fails(s, e).error = e /\ Fails(s, e).at = s.at
         /\ s.at \in Nat /\ s.enum_values \in Seq(Bytes) /\ s.features \in Seq(Features)
  BY DEF Readings, At, Fails

(* A list that is full before its last value declares too many.            *)
LEMMA ValuesAreTooMany ==
  ASSUME NEW t, NEW lo, NEW hi, InList(t, lo, hi), NEW p \in lo..hi+1, NEW i \in p..hi,
         \A j \in lo..i : WellPlaced(t, j), t[i] \in HexDigits, t[i+1] \in HexDigits,
         \A j \in p..i-1 : t[j] \in Spaces,
         NEW L \in Nat, L = Cardinality(ValuesBefore(t, lo)) + Cardinality(BytesAt(t, lo..p-1)),
         L = MaxEnumValues
  PROVE  ~Good(t)
<1>1. Text(t) /\ lo \in 2..Len(t) /\ hi \in lo-1..Len(t)-1
  BY DEF InList
<1>2. /\ Len(t) \in Nat
      /\ ValuePositions(t) \in SUBSET Nat /\ \A j \in ValuePositions(t) : j <= Len(t)
      /\ ValuesBefore(t, p) \in SUBSET ValuePositions(t)
  BY <1>1, ValuePlaces
<1>3. L = Cardinality(ValuesBefore(t, p))
  <2>1. \A j \in lo..p-1 : WellPlaced(t, j)
    BY <1>1, <1>2
  <2> QED BY <2>1, ValuesUpTo
<1>4. i \in ValuePositions(t)
  <2> DEFINE q == i + 1
  <2>1. q \in lo..hi+1 /\ (\A j \in lo..q-1 : WellPlaced(t, j)) /\ i \in lo..q-1
    BY <1>1, <1>2
  <2> HIDE DEF q
  <2>2. i \in VcpPositions(t) /\ Level(t, i) = 2
    BY <2>1, ListLevels
  <2> QED BY <2>2 DEF ValuePositions, BytesAt
<1>5. i \notin ValuesBefore(t, p)
  BY <1>1, <1>2 DEF ValuesBefore
<1>6. Cardinality(ValuePositions(t)) \in Nat /\ L + 1 <= Cardinality(ValuePositions(t))
  BY <1>2, <1>3, <1>4, <1>5, CountedUpTo
<1>7. ~(Cardinality(ValuePositions(t)) <= MaxEnumValues)
  BY <1>6, ParserAssumption
<1> QED BY <1>7 DEF Good, AreCounted, ValuePositions

LEMMA ValueStepKeeps ==
  ASSUME NEW t, NEW lo, NEW hi, InList(t, lo, hi), NEW s0, ValuesStart(t, lo, s0),
         NEW s, ValuesInv(t, lo, hi, s0, s)
  PROVE  /\ ValuesInv(t, lo, hi, s0, ValueStep(t, hi, s))
         /\ s.error # "OK" \/ s.at = hi + 1 => ValueStep(t, hi, s).error # "OK"
                                               \/ ValueStep(t, hi, s).at = hi + 1
         /\ s.error = "OK" /\ s.at <= hi =>
              \/ ValueStep(t, hi, s).error # "OK" \/ ValueStep(t, hi, s).at = hi + 1
              \/ ValueStep(t, hi, s).at > s.at
<1> DEFINE r == ValueStep(t, hi, s)
           p == s.at
           i == Past(t, p, hi, Spaces)
           added == [s EXCEPT !.at = i + 2, !.enum_values = Append(@, Byte(t, i))]
           B == BytesAt(t, lo..p-1)
<1>1. /\ Whole(t) /\ lo \in 2..Len(t) /\ hi \in lo-1..Len(t)-1 /\ t[lo-1] = "(" /\ t[hi+1] = ")"
      /\ \A j \in lo-1..hi+1 : j \in VcpPositions(t)
  BY DEF InList, Text
<1>2. Len(t) \in Nat /\ lo \in Nat /\ hi \in Nat /\ p \in lo..hi+1 /\ p \in Nat
  BY <1>1, Depths DEF ValuesInv
<1>3. /\ i \in p..hi+1 /\ \A j \in p..i-1 : t[j] \in Spaces
      /\ i <= hi => t[i] \notin Spaces
  <2>1. p <= hi + 1
    BY <1>2
  <2> HIDE DEF p
  <2> QED BY <1>2, <2>1, PastIs
<1>4. s \in Readings
  BY DEF ValuesInv
<1>5. r = IF s.error # "OK" THEN s
          ELSE IF i > hi THEN At(s, i)
          ELSE IF ~IsByte(t, i, hi) THEN Malformed(s)
          ELSE IF Len(s.enum_values) = MaxEnumValues THEN Fails(s, "CAPABILITIES_TOO_LARGE")
          ELSE IF ~SpaceOrEnd(t, i + 2, hi) THEN Malformed(added)
          ELSE added
  BY DEF ValueStep
<1> HIDE DEF r, p, i, added
<1>6. CASE s.error # "OK"
  <2>1. r = s
    BY <1>5, <1>6
  <2> QED BY <1>6, <2>1 DEF r
<1>7. CASE s.error = "OK"
  <2>1. /\ s.features = s0.features
        /\ \A j \in lo..p-1 : WellPlaced(t, j)
        /\ Follows(t, B, s0.enum_values, s.enum_values)
        /\ Len(s.enum_values) <= MaxEnumValues
        /\ p \in {lo, hi+1} \/ t[p] \in Spaces
    BY <1>7 DEF ValuesInv, ValuesRead, p
  <2>2. ASSUME r \in Readings, r.error # "OK", r.at \in lo..hi+1, ~Good(t)
        PROVE  ValuesInv(t, lo, hi, s0, r)
    BY <2>2 DEF ValuesInv
  <2>3. CASE i > hi
    <3>1. r = At(s, i) /\ i = hi + 1 /\ i \in Nat
      BY <1>2, <1>3, <1>5, <1>7, <2>3
    <3>2. /\ r \in Readings /\ r.at = i /\ r.error = "OK"
          /\ r.features = s.features /\ r.enum_values = s.enum_values
      BY <1>4, <1>7, <3>1, ReadingsChange
    <3>3. \A j \in lo..i-1 : WellPlaced(t, j)
      <4> SUFFICES ASSUME NEW j \in lo..i-1 PROVE WellPlaced(t, j)
        OBVIOUS
      <4>1. CASE j < p
        BY <1>2, <2>1, <4>1
      <4>2. CASE ~(j < p)
        <5>1. j \in p..i-1
          BY <1>2, <1>3, <4>2
        <5> QED BY <1>3, <5>1, SpaceIsWell
      <4> QED BY <4>1, <4>2
    <3>4. BytesAt(t, lo..i-1) = B
      <4>1. lo..p-1 \subseteq lo..i-1
        BY <1>2, <1>3
      <4>2. \A j \in lo..i-1 : j \in lo..p-1 \/ j \in p..i-1
        BY <1>2, <1>3
      <4>3. \A j \in lo..i-1 : j \in lo..p-1 \/ t[j] \notin HexDigits
        BY <1>3, <4>2, Letters
      <4> QED BY <4>1, <4>3, NoBytes
    <3>5. ValuesRead(t, lo, hi, s0, r)
      BY <2>1, <3>1, <3>2, <3>3, <3>4 DEF ValuesRead
    <3>6. r.at \in lo..hi+1 /\ r.at = hi + 1
      BY <1>2, <3>1, <3>2
    <3>7. ValuesInv(t, lo, hi, s0, r)
      BY <3>2, <3>5, <3>6 DEF ValuesInv
    <3> QED BY <3>6, <3>7 DEF r
  <2>4. CASE ~(i > hi)
    <3>1. i \in p..hi /\ i \in 1..Len(t) /\ hi \in i..Len(t)-1 /\ i \in Nat /\ p <= hi /\ i \in lo-1..hi+1
      BY <1>1, <1>2, <1>3, <2>4
    <3>2. t[hi+1] \notin HexDigits
      BY <1>1, Letters
    <3>3. ~IsAt(t, i - 1, HexDigits)
      <4>1. t[i-1] \notin HexDigits
        <5>1. CASE i = p
          <6>1. t[i] \notin Spaces /\ p # hi + 1
            BY <1>3, <1>2, <3>1
          <6>2. p = lo
            BY <2>1, <5>1, <6>1
          <6> QED BY <1>1, <5>1, <6>2, Letters
        <5>2. CASE i # p
          <6>1. i - 1 \in p..i-1
            BY <1>2, <3>1, <5>2
          <6> QED BY <1>3, <6>1, Letters
        <5> QED BY <5>1, <5>2
      <4> QED BY <4>1 DEF IsAt
    <3>4. \A j \in i..hi : j \in VcpPositions(t)
      BY <1>1, <1>2, <3>1
    <3>5. Malformed(s) \in Readings /\ Malformed(s).error # "OK" /\ Malformed(s).at = p
      BY <1>4, ReadingsChange DEF Malformed, p
    <3>6. CASE ~IsByte(t, i, hi)
      <4>1. r = Malformed(s)
        BY <1>5, <1>7, <2>4, <3>6
      <4>2. ~Good(t)
        <5>1. CASE t[i] \in HexDigits
          BY <1>1, <3>1, <3>2, <3>3, <3>4, <3>6, <5>1, NotAByte
        <5>2. CASE t[i] \notin HexDigits
          <6>1. ~WellPlaced(t, i)
            <7>1. i \in lo..hi
              BY <1>2, <3>1
            <7>2. t[i] \notin HexDigits \cup Spaces
              BY <1>3, <3>1, <5>2
            <7> QED BY <7>1, <7>2, ListChars
          <6> QED BY <3>1, <3>4, <6>1, GoodIsWell
        <5> QED BY <5>1, <5>2
      <4>3. ValuesInv(t, lo, hi, s0, r)
        BY <1>2, <2>2, <3>5, <4>1, <4>2
      <4> QED BY <3>5, <4>1, <4>3 DEF r
    <3>7. CASE IsByte(t, i, hi)
      <4>1. /\ i + 1 <= hi /\ t[i] \in HexDigits /\ t[i+1] \in HexDigits /\ t[i+2] \notin HexDigits
            /\ WellPlaced(t, i) /\ WellPlaced(t, i + 1) /\ Byte(t, i) \in Bytes
        BY <1>1, <3>1, <3>2, <3>3, <3>7, ByteIs, ByteIsWell
      <4>2. ASSUME NEW j \in lo..i+1 PROVE WellPlaced(t, j)
        <5>1. CASE j < p
          BY <1>2, <2>1, <5>1
        <5>2. CASE ~(j < p) /\ j < i
          <6>1. j \in p..i-1
            BY <1>2, <3>1, <5>2
          <6> QED BY <1>3, <6>1, SpaceIsWell
        <5>3. CASE ~(j < i)
          <6>1. j = i \/ j = i + 1
            BY <1>2, <3>1, <5>3
          <6> QED BY <4>1, <6>1
        <5> QED BY <1>2, <3>1, <5>1, <5>2, <5>3
      <4>3. CASE Len(s.enum_values) = MaxEnumValues
        <5>1. r = Fails(s, "CAPABILITIES_TOO_LARGE")
          BY <1>5, <1>7, <2>4, <3>7, <4>3
        <5>2. r \in Readings /\ r.error # "OK" /\ r.at = p
          BY <1>4, <5>1, ReadingsChange DEF p
        <5>3. ~Good(t)
          <6> DEFINE L == Len(s.enum_values)
          <6>1. L \in Nat /\ L = Cardinality(ValuesBefore(t, lo)) + Cardinality(B)
            <7>1. s.enum_values \in Seq(Bytes)
              BY <1>4, ReadingsChange
            <7>2. Len(s.enum_values) = Len(s0.enum_values) + Cardinality(B)
              BY <2>1 DEF Follows
            <7>3. Len(s0.enum_values) = Cardinality(ValuesBefore(t, lo))
              BY DEF ValuesStart
            <7> QED BY <7>1, <7>2, <7>3
          <6>2. \A j \in lo..i : WellPlaced(t, j)
            BY <4>2, <3>1, <1>2
          <6> HIDE DEF L
          <6>3. L = MaxEnumValues
            BY <4>3 DEF L
          <6> QED BY <1>2, <1>3, <3>1, <4>1, <6>1, <6>2, <6>3, ValuesAreTooMany
        <5>4. ValuesInv(t, lo, hi, s0, r)
          BY <1>2, <2>2, <5>2, <5>3
        <5> QED BY <5>2, <5>4 DEF r
      <4>4. CASE Len(s.enum_values) # MaxEnumValues
        <5>1. /\ added \in Readings /\ added.error = "OK" /\ added.at = i + 2
              /\ added.features = s.features
              /\ added.enum_values = Append(s.enum_values, Byte(t, i))
          <6>1. Append(s.enum_values, Byte(t, i)) \in Seq(Bytes)
            BY <1>4, <4>1, ReadingsChange
          <6>2. i + 2 \in Nat
            BY <3>1
          <6>3. added = [s EXCEPT !.at = i + 2, !.enum_values = Append(s.enum_values, Byte(t, i))]
            BY <1>4 DEF added, Readings
          <6> QED BY <1>4, <1>7, <6>1, <6>2, <6>3 DEF Readings
        <5>2. i + 2 \in lo..hi+1 /\ i + 2 > p
          BY <1>2, <3>1, <4>1
        <5>3. CASE ~SpaceOrEnd(t, i + 2, hi)
          <6>1. r = Malformed(added)
            BY <1>5, <1>7, <2>4, <3>7, <4>4, <5>3
          <6>2. r \in Readings /\ r.error # "OK" /\ r.at = i + 2
            BY <5>1, <6>1, ReadingsChange DEF Malformed
          <6>3. i + 2 <= hi /\ t[i+2] \notin Spaces
            BY <5>3 DEF SpaceOrEnd
          <6>4. i + 2 \in lo..hi /\ i + 2 \in i..hi
            BY <1>2, <3>1, <6>3
          <6>5. ~WellPlaced(t, i + 2)
            BY <4>1, <6>3, <6>4, ListChars
          <6>6. ~Good(t)
            BY <3>4, <6>4, <6>5, GoodIsWell
          <6>7. ValuesInv(t, lo, hi, s0, r)
            BY <2>2, <5>2, <6>2, <6>6
          <6> QED BY <6>2, <6>7 DEF r
        <5>4. CASE SpaceOrEnd(t, i + 2, hi)
          <6>1. r = added
            BY <1>5, <1>7, <2>4, <3>7, <4>4, <5>4
          <6>2. i + 2 = hi + 1 \/ t[i+2] \in Spaces
            BY <1>2, <5>2, <5>4 DEF SpaceOrEnd
          <6>3. \A j \in lo..i+2-1 : WellPlaced(t, j)
            <7>1. i + 2 - 1 = i + 1
              BY <3>1
            <7> QED BY <4>2, <7>1
          <6>4. BytesAt(t, lo..i+2-1) = B \cup {i}
            <7>1. \A j : j \in BytesAt(t, lo..i+2-1)
                    <=> j \in lo..i+2-1 /\ t[j] \in HexDigits /\ t[j+1] \in HexDigits
              BY InBytes
            <7>2. \A j : j \in B <=> j \in lo..p-1 /\ t[j] \in HexDigits /\ t[j+1] \in HexDigits
              BY InBytes
            <7>3. ASSUME NEW j \in lo..i+2-1
                  PROVE  j \in lo..p-1 \/ j \in p..i-1 \/ j = i \/ j = i + 1
              BY <1>2, <3>1
            <7>4. \A j \in p..i-1 : t[j] \notin HexDigits
              BY <1>3, Letters
            <7>5. t[(i+1)+1] \notin HexDigits
              <8>1. (i + 1) + 1 = i + 2
                BY <3>1
              <8> QED BY <4>1, <8>1
            <7>6. i \in lo..i+2-1 /\ \A j \in lo..p-1 : j \in lo..i+2-1
              BY <1>2, <3>1
            <7> HIDE DEF B
            <7>7. \A j : j \in BytesAt(t, lo..i+2-1) => j \in B \cup {i}
              BY <7>1, <7>2, <7>3, <7>4, <7>5
            <7>8. \A j : j \in B \cup {i} => j \in BytesAt(t, lo..i+2-1)
              BY <4>1, <7>1, <7>2, <7>6
            <7> QED BY <7>7, <7>8
          <6>5. Follows(t, B \cup {i}, s0.enum_values, Append(s.enum_values, Byte(t, i)))
            <7>1. B \in SUBSET Nat /\ \A j \in B : j < i
              BY <1>2, <3>1, InBytes
            <7>2. s0.enum_values \in Seq(Bytes) /\ s.enum_values \in Seq(Bytes)
              BY <1>4, ReadingsChange DEF ValuesStart
            <7> HIDE DEF B
            <7> QED BY <2>1, <3>1, <4>1, <7>1, <7>2, OneMoreFollows
          <6>6. Len(added.enum_values) <= MaxEnumValues
            <7> DEFINE e == s.enum_values
            <7>1. e \in Seq(Bytes) /\ Len(e) <= MaxEnumValues /\ Len(e) # MaxEnumValues
              BY <1>4, <2>1, <4>4, ReadingsChange
            <7> HIDE DEF e
            <7>2. Len(Append(e, Byte(t, i))) = Len(e) + 1 /\ Len(e) \in Nat
              BY <7>1
            <7>3. Len(e) + 1 <= MaxEnumValues
              BY <7>1, <7>2, ParserAssumption
            <7> QED BY <5>1, <7>2, <7>3 DEF e
          <6>7. ValuesRead(t, lo, hi, s0, r)
            <7>1. r.at = i + 2
              BY <5>1, <6>1
            <7>2. BytesAt(t, lo..r.at-1) = B \cup {i} /\ \A j \in lo..r.at-1 : WellPlaced(t, j)
              <8>1. lo..r.at-1 = lo..i+2-1
                BY <1>2, <3>1, <7>1
              <8>2. BytesAt(t, lo..r.at-1) = B \cup {i}
                <9> HIDE DEF B
                <9> QED BY <6>4, <8>1
              <8>3. \A j \in lo..r.at-1 : WellPlaced(t, j)
                BY <6>3, <8>1
              <8> QED BY <8>2, <8>3
            <7>3. r.features = s0.features
              BY <2>1, <5>1, <6>1
            <7>4. r.enum_values = Append(s.enum_values, Byte(t, i))
              BY <5>1, <6>1
            <7>5. Follows(t, BytesAt(t, lo..r.at-1), s0.enum_values, r.enum_values)
              BY <6>5, <7>2, <7>4
            <7>6. Len(r.enum_values) <= MaxEnumValues
              BY <6>1, <6>6
            <7>7. r.at \in {lo, hi+1} \/ t[r.at] \in Spaces
              BY <6>2, <7>1
            <7> QED BY <7>2, <7>3, <7>5, <7>6, <7>7 DEF ValuesRead
          <6>8. ValuesInv(t, lo, hi, s0, r)
            BY <5>1, <5>2, <6>1, <6>7 DEF ValuesInv
          <6> QED BY <1>7, <3>1, <5>1, <5>2, <6>1, <6>8 DEF r, p
        <5> QED BY <5>3, <5>4
      <4> QED BY <4>3, <4>4
    <3> QED BY <3>6, <3>7
  <2> QED BY <2>3, <2>4
<1> QED BY <1>6, <1>7

(* A list of spaces is no list.                                            *)
LEMMA EmptyList ==
  ASSUME NEW t, NEW lo, NEW hi, InList(t, lo, hi), \A j \in lo..hi : WellPlaced(t, j),
         BytesAt(t, lo..hi) = {}
  PROVE  ~Good(t)
<1>1. /\ Whole(t) /\ lo \in 2..Len(t) /\ hi \in lo-1..Len(t)-1 /\ t[lo-1] = "(" /\ t[hi+1] = ")"
      /\ lo - 1 \in VcpPositions(t)
  <2>1. /\ Whole(t) /\ lo \in 2..Len(t) /\ hi \in lo-1..Len(t)-1 /\ t[lo-1] = "(" /\ t[hi+1] = ")"
        /\ \A j \in lo-1..hi+1 : j \in VcpPositions(t)
    BY DEF InList, Text
  <2>2. lo - 1 \in lo-1..hi+1
    BY <2>1, Depths
  <2> QED BY <2>1, <2>2
<1>2. Len(t) \in Nat /\ lo \in Nat /\ hi \in Nat /\ lo <= hi + 1 /\ hi + 1 <= Len(t)
  BY <1>1, Depths
<1>3. ASSUME NEW j \in lo..hi PROVE t[j] \in Spaces
  <2>1. WellPlaced(t, j) /\ t[j] \in HexDigits \cup Spaces
    BY ListChars
  <2>2. CASE t[j] \in HexDigits
    <3>1. IsAt(t, j - 1, HexDigits) # IsAt(t, j + 1, HexDigits)
      BY <2>1, <2>2 DEF WellPlaced
    <3>2. CASE IsAt(t, j + 1, HexDigits)
      <4>1. j \in BytesAt(t, lo..hi)
        BY <2>2, <3>2, InBytes DEF IsAt
      <4> QED BY <4>1
    <3>3. CASE IsAt(t, j - 1, HexDigits)
      <4>1. t[j-1] \in HexDigits
        BY <3>3 DEF IsAt
      <4>2. j # lo
        BY <1>1, <4>1, Letters
      <4>3. j - 1 \in lo..hi /\ (j - 1) + 1 = j
        BY <1>2, <4>2
      <4>4. j - 1 \in BytesAt(t, lo..hi)
        BY <2>2, <4>1, <4>3, InBytes
      <4> QED BY <4>4
    <3>4. IsAt(t, j - 1, HexDigits) \in BOOLEAN /\ IsAt(t, j + 1, HexDigits) \in BOOLEAN
      BY DEF IsAt
    <3> QED BY <3>1, <3>2, <3>3, <3>4
  <2> QED BY <2>1, <2>2
<1> DEFINE p == Past(t, lo, Len(t), Spaces)
<1>4. /\ p \in lo..Len(t)+1 /\ \A j \in lo..p-1 : t[j] \in Spaces
      /\ p <= Len(t) => t[p] \notin Spaces
  <2>1. lo <= Len(t) + 1
    BY <1>2
  <2> QED BY <1>2, <2>1, PastIs
<1>5. NextSolid(t, lo - 1) = p
  <2>1. (lo - 1) + 1 = lo
    BY <1>2
  <2> QED BY <2>1 DEF NextSolid
<1> HIDE DEF p
<1>6. p = hi + 1
  <2>1. ~(p < hi + 1)
    <3>1. p < hi + 1 => p \in lo..hi /\ p <= Len(t)
      BY <1>2, <1>4
    <3> QED BY <1>3, <1>4, <3>1
  <2>2. ~(p > hi + 1)
    <3>1. p > hi + 1 => hi + 1 \in lo..p-1
      BY <1>2, <1>4
    <3> QED BY <1>1, <1>4, <3>1, Letters
  <2> QED BY <1>2, <1>4, <2>1, <2>2
<1>7. IsAt(t, NextSolid(t, lo - 1), {")"})
  BY <1>1, <1>2, <1>5, <1>6 DEF IsAt
<1>8. ~WellPlaced(t, lo - 1)
  BY <1>1, <1>7 DEF WellPlaced
<1> QED BY <1>1, <1>8, GoodIsWell

LEMMA ValueLoopEnds ==
  ASSUME NEW t, NEW lo, NEW hi, InList(t, lo, hi), NEW s0, ValuesStart(t, lo, s0)
  PROVE  /\ ValuesInv(t, lo, hi, s0, ValueLoop(t, hi, At(s0, lo)))
         /\ ValueLoop(t, hi, At(s0, lo)).error = "OK" => ValueLoop(t, hi, At(s0, lo)).at = hi + 1
<1> DEFINE S == {s \in Readings : ValuesInv(t, lo, hi, s0, s)}
           f == [s \in S |-> ValueStep(t, hi, s)]
           a == At(s0, lo)
           N == Len(t)
           D == {s \in S : s.error # "OK" \/ s.at = hi + 1}
           Loop(w) == w = [n \in 0..N |-> IF n = 0 THEN a ELSE ValueStep(t, hi, w[n-1])]
           loop == CHOOSE w : Loop(w)
<1>1. /\ lo \in 2..Len(t) /\ hi \in lo-1..Len(t)-1 /\ N \in Nat /\ lo \in Nat /\ hi \in Nat
      /\ s0 \in Readings /\ s0.error = "OK" /\ s0.enum_values \in Seq(Bytes)
  <2>1. lo \in 2..Len(t) /\ hi \in lo-1..Len(t)-1 /\ Whole(t)
    BY DEF InList, Text
  <2>2. s0 \in Readings /\ s0.error = "OK"
    BY DEF ValuesStart
  <2> QED BY <2>1, <2>2, Depths, ReadingsChange
<1>2. a \in S /\ a.at = lo
  <2>1. /\ a \in Readings /\ a.at = lo /\ a.error = "OK"
        /\ a.features = s0.features /\ a.enum_values = s0.enum_values
    BY <1>1, ReadingsChange
  <2> HIDE DEF a
  <2>2. lo..a.at-1 = {} /\ lo \in lo..hi+1
    BY <1>1, <2>1
  <2>3. BytesAt(t, lo..a.at-1) = {}
    BY <2>2 DEF BytesAt
  <2>4. Follows(t, {}, s0.enum_values, a.enum_values)
    BY <1>1, <2>1, NoneFollows
  <2>5. Len(a.enum_values) <= MaxEnumValues
    BY <2>1 DEF ValuesStart
  <2>6. ValuesRead(t, lo, hi, s0, a)
    BY <2>1, <2>2, <2>3, <2>4, <2>5 DEF ValuesRead
  <2> QED BY <2>1, <2>2, <2>6 DEF ValuesInv
<1>3. ASSUME NEW s \in S
      PROVE  /\ ValueStep(t, hi, s) \in S
             /\ s.at \in Nat /\ s.at <= hi + 1 /\ ValueStep(t, hi, s).at \in Nat
             /\ s \in D => ValueStep(t, hi, s) \in D
             /\ s \notin D => ValueStep(t, hi, s) \in D \/ ValueStep(t, hi, s).at > s.at
  <2> DEFINE r == ValueStep(t, hi, s)
  <2>1. /\ ValuesInv(t, lo, hi, s0, r)
        /\ s.error # "OK" \/ s.at = hi + 1 => r.error # "OK" \/ r.at = hi + 1
        /\ s.error = "OK" /\ s.at <= hi => r.error # "OK" \/ r.at = hi + 1 \/ r.at > s.at
    BY ValueStepKeeps
  <2> HIDE DEF r
  <2>2. r \in Readings /\ r.at \in lo..hi+1 /\ s.at \in lo..hi+1
    BY <2>1 DEF ValuesInv
  <2>3. r \in S
    BY <2>1, <2>2
  <2>4. s.at \in Nat /\ s.at <= hi + 1 /\ r.at \in Nat /\ (s.at # hi + 1 => s.at <= hi)
    BY <1>1, <2>2
  <2>5. s \in D => r \in D
    BY <2>1, <2>3
  <2>6. s \notin D => r \in D \/ r.at > s.at
    BY <2>1, <2>3, <2>4
  <2> QED BY <2>3, <2>4, <2>5, <2>6 DEF r
<1>4. f \in [S -> S] /\ \A s \in S : f[s] = ValueStep(t, hi, s)
  BY <1>3
<1>5. D \in SUBSET S /\ \A s \in S : s.at = hi + 1 => s \in D
  OBVIOUS
<1>6. \A s \in D : s.error = "OK" => s.at = hi + 1
  OBVIOUS
<1>7. \A s \in S : ValuesInv(t, lo, hi, s0, s)
  OBVIOUS
<1>8. ValueLoop(t, hi, a) = loop[N]
  BY DEF ValueLoop
<1> HIDE DEF S, D, f, a, N
<1>9. Loop(loop)
  <2>1. PICK w \in [0..N -> S] : w[0] = a /\ \A n \in 1..N : w[n] = f[w[n-1]]
    <3>1. f \in [S -> S] /\ a \in S /\ N \in Nat
      BY <1>1, <1>2, <1>4
    <3>2. PICK w : IsRun(w, S, f, a, N)
      BY <3>1, LoopRuns
    <3> QED BY <3>2 DEF IsRun
  <2>2. ASSUME NEW n \in 0..N
        PROVE w[n] = IF n = 0 THEN a ELSE ValueStep(t, hi, w[n-1])
    <3>1. CASE n = 0
      BY <2>1, <3>1
    <3>2. CASE n # 0
      <4>1. n \in 1..N /\ n - 1 \in 0..N
        BY <1>1, <3>2
      <4>2. w[n-1] \in S /\ w[n] = f[w[n-1]]
        BY <2>1, <4>1
      <4> QED BY <1>4, <3>2, <4>2
    <3> QED BY <3>1, <3>2
  <2>3. Loop(w)
    <3>1. w = [n \in 0..N |-> w[n]]
      BY <2>1
    <3> QED BY <2>2, <3>1
  <2> QED BY <2>3
<1> HIDE DEF loop
<1>10. loop[0] = a
  BY <1>1, <1>9
<1>11. ASSUME NEW n \in 1..N, loop[n-1] \in S PROVE loop[n] = f[loop[n-1]]
  <2>1. n \in 0..N /\ n # 0
    BY <1>1
  <2>2. loop[n] = ValueStep(t, hi, loop[n-1])
    BY <1>9, <2>1
  <2> QED BY <1>4, <1>11, <2>2
<1>12. hi + 1 <= a.at + N
  BY <1>1, <1>2 DEF N
<1>13. loop[N] \in D
  <2>1. \A s \in S : s.at \in Nat /\ s.at <= hi + 1 /\ (s.at = hi + 1 => s \in D)
    BY <1>3, <1>5
  <2>2. \A s \in D : f[s] \in D
    BY <1>3, <1>4, <1>5
  <2>3. \A s \in S \ D : f[s] \in D \/ f[s].at > s.at
    BY <1>3, <1>4
  <2>4. \A n \in 1..N : loop[n-1] \in S => loop[n] = f[loop[n-1]]
    BY <1>11
  <2>5. f \in [S -> S] /\ a \in S /\ N \in Nat /\ hi \in Nat /\ D \in SUBSET S
    BY <1>1, <1>2, <1>4, <1>5
  <2> QED BY <1>10, <1>12, <2>1, <2>2, <2>3, <2>4, <2>5, LoopEnds
<1>14. loop[N] \in S /\ (loop[N].error = "OK" => loop[N].at = hi + 1)
  BY <1>5, <1>6, <1>13
<1> QED BY <1>7, <1>8, <1>14 DEF a

(* A list that is read declares its values, in their order; one that is    *)
(* refused is no list of the grammar, or holds too many values.            *)
LEMMA ValuesAreRead ==
  ASSUME NEW t, NEW lo, NEW hi, InList(t, lo, hi), NEW s0, ValuesStart(t, lo, s0),
         NEW r, r = EnumValues(t, lo, hi, s0)
  PROVE  /\ r \in Readings /\ r.at \in lo..hi+1
         /\ r.error # "OK" => ~Good(t)
         /\ r.error = "OK" =>
              /\ r.features = s0.features
              /\ \A j \in lo..hi : WellPlaced(t, j)
              /\ Follows(t, BytesAt(t, lo..hi), s0.enum_values, r.enum_values)
              /\ Len(r.enum_values) <= MaxEnumValues
              /\ BytesAt(t, lo..hi) # {}
<1> DEFINE q == ValueLoop(t, hi, At(s0, lo))
           B == BytesAt(t, lo..hi)
<1>1. /\ ValuesInv(t, lo, hi, s0, q)
      /\ q.error = "OK" => q.at = hi + 1
  BY ValueLoopEnds
<1>2. r = IF q.error = "OK" /\ Len(q.enum_values) = Len(s0.enum_values) THEN Malformed(q) ELSE q
  BY DEF EnumValues, Listed
<1> HIDE DEF q
<1>3. q \in Readings /\ q.at \in lo..hi+1 /\ (q.error # "OK" => ~Good(t))
  BY <1>1 DEF ValuesInv
<1>4. CASE q.error # "OK"
  BY <1>2, <1>3, <1>4
<1>5. CASE q.error = "OK"
  <2>0. lo \in 2..Len(t) /\ hi \in lo-1..Len(t)-1 /\ Len(t) \in Nat
    BY Depths DEF InList, Text
  <2>1. q.at = hi + 1 /\ ValuesRead(t, lo, hi, s0, q)
    BY <1>1, <1>5 DEF ValuesInv
  <2>2. lo..q.at-1 = lo..hi
    BY <2>0, <2>1
  <2>3. /\ q.features = s0.features
        /\ \A j \in lo..hi : WellPlaced(t, j)
        /\ Follows(t, B, s0.enum_values, q.enum_values)
        /\ Len(q.enum_values) <= MaxEnumValues
    BY <2>1, <2>2 DEF ValuesRead
  <2>4. Len(q.enum_values) = Len(s0.enum_values) + Cardinality(B)
    BY <2>3 DEF Follows
  <2>5. IsFiniteSet(B) /\ Cardinality(B) \in Nat
    <3>1. B \in SUBSET Nat /\ \A j \in B : j <= Len(t)
      BY <2>0, InBytes
    <3> HIDE DEF B
    <3> QED BY <2>0, <3>1, PlacesAreFinite
  <2>6. Len(s0.enum_values) \in Nat
    <3>1. s0.enum_values \in Seq(Bytes)
      BY ReadingsChange DEF ValuesStart
    <3> QED BY <3>1
  <2>7. Cardinality(B) = 0 <=> B = {}
    <3> HIDE DEF B
    <3> QED BY <2>5, FS_EmptySet
  <2>8. CASE B = {}
    <3>1. ~Good(t)
      BY <2>3, <2>8, EmptyList
    <3>2. r = Malformed(q)
      BY <1>2, <1>5, <2>4, <2>6, <2>7, <2>8
    <3> QED BY <1>3, <3>1, <3>2, ReadingsChange DEF Malformed
  <2>9. CASE B # {}
    <3>1. r = q
      BY <1>2, <2>4, <2>5, <2>6, <2>7, <2>9
    <3> QED BY <1>3, <1>5, <2>3, <2>9, <3>1
  <2> QED BY <2>8, <2>9
<1> QED BY <1>4, <1>5
-----------------------------------------------------------------------------
(* What has been read, and what the text declares up to a place.           *)

CodesBefore(t, p) == {i \in CodePositions(t) : i < p}

(* The n-th feature is what the text declares at a code position.          *)
Describes(t, f, e, i) ==
  /\ f.vcp_code = Byte(t, i)
  /\ f.enum_value_count = Cardinality(ListAt(t, i))
  /\ f.enum_value_offset + f.enum_value_count <= Len(e)
  /\ \A j \in ListAt(t, i) :
       /\ Rank(ListAt(t, i), j) \in 1..f.enum_value_count
       /\ e[f.enum_value_offset + Rank(ListAt(t, i), j)] = Byte(t, j)
  /\ \A n \in 1..f.enum_value_count : \E j \in ListAt(t, i) : Rank(ListAt(t, i), j) = n

Holds(t, p, s) ==
  /\ Len(s.features) = Cardinality(CodesBefore(t, p)) /\ Len(s.features) <= MaxFeatures
  /\ Len(s.enum_values) = Cardinality(ValuesBefore(t, p)) /\ Len(s.enum_values) <= MaxEnumValues
  /\ \A n \in 1..Len(s.features) :
       \E i \in CodesBefore(t, p) : Describes(t, s.features[n], s.enum_values, i)
  /\ \A i \in CodesBefore(t, p) :
       \E n \in 1..Len(s.features) : Describes(t, s.features[n], s.enum_values, i)
  /\ \A m, n \in 1..Len(s.features) : s.features[m].vcp_code = s.features[n].vcp_code => m = n
  /\ \A i, j \in CodesBefore(t, p) : Byte(t, i) = Byte(t, j) => i = j

Sound(t, p, s) ==
  /\ Holds(t, p, s)
  /\ \A i \in VcpPositions(t) : i < p => WellPlaced(t, i)

LEMMA CodePlaces ==
  ASSUME NEW t, Text(t)
  PROVE  /\ Len(t) \in Nat
         /\ CodePositions(t) \in SUBSET Nat /\ \A j \in CodePositions(t) : j <= Len(t)
         /\ \A p : /\ IsFiniteSet(CodesBefore(t, p))
                   /\ Cardinality(CodesBefore(t, p)) \in Nat
                   /\ CodesBefore(t, p) \in SUBSET CodePositions(t)
<1>1. Len(t) \in Nat
  BY Depths DEF Text
<1>2. CodePositions(t) \in SUBSET Nat /\ \A j \in CodePositions(t) : j <= Len(t)
  BY <1>1, VcpPlaces DEF CodePositions, BytesAt
<1>3. ASSUME NEW p PROVE /\ IsFiniteSet(CodesBefore(t, p))
                         /\ Cardinality(CodesBefore(t, p)) \in Nat
                         /\ CodesBefore(t, p) \in SUBSET CodePositions(t)
  <2>1. CodesBefore(t, p) \in SUBSET CodePositions(t)
    BY DEF CodesBefore
  <2>2. CodesBefore(t, p) \in SUBSET Nat /\ \A j \in CodesBefore(t, p) : j <= Len(t)
    BY <1>2, <2>1
  <2> QED BY <1>1, <2>1, <2>2, PlacesAreFinite
<1> QED BY <1>1, <1>2, <1>3

LEMMA SameHolds ==
  ASSUME NEW t, NEW p, NEW q, NEW s, NEW r, Holds(t, p, s),
         CodesBefore(t, q) = CodesBefore(t, p), ValuesBefore(t, q) = ValuesBefore(t, p),
         r.features = s.features, r.enum_values = s.enum_values
  PROVE  Holds(t, q, r)
  BY DEF Holds

(* Characters that are no digits declare nothing.                          *)
LEMMA NothingBetween ==
  ASSUME NEW t, Text(t), NEW p \in Nat, NEW q \in Nat, p <= q,
         NEW s, NEW r, Sound(t, p, s),
         \A j \in p..q-1 : j \in VcpPositions(t) => WellPlaced(t, j) /\ t[j] \notin HexDigits,
         r.features = s.features, r.enum_values = s.enum_values
  PROVE  Sound(t, q, r)
<1>1. \A j \in VcpPositions(t) : j \in Nat
  BY VcpPlaces, Depths DEF Text
<1>2. \A j \in VcpPositions(t) : j < q => j < p \/ j \in p..q-1
  BY <1>1
<1>3. \A j \in CodePositions(t) : j \in VcpPositions(t) /\ t[j] \in HexDigits
  BY DEF CodePositions, BytesAt
<1>4. \A j \in ValuePositions(t) : j \in VcpPositions(t) /\ t[j] \in HexDigits
  BY DEF ValuePositions, BytesAt
<1>5. \A j \in VcpPositions(t) : j < p => j < q
  BY <1>1
<1>6. CodesBefore(t, q) = CodesBefore(t, p)
  BY <1>2, <1>3, <1>5 DEF CodesBefore
<1>7. ValuesBefore(t, q) = ValuesBefore(t, p)
  BY <1>2, <1>4, <1>5 DEF ValuesBefore
<1>8. Holds(t, q, r)
  BY <1>6, <1>7, SameHolds DEF Sound
<1>9. \A i \in VcpPositions(t) : i < q => WellPlaced(t, i)
  BY <1>2 DEF Sound
<1> QED BY <1>8, <1>9 DEF Sound

LEMMA LongerDescribes ==
  ASSUME NEW t, NEW f \in Features, NEW e, NEW g, NEW i, Describes(t, f, e, i),
         Len(e) \in Nat, Len(g) \in Nat, Len(e) <= Len(g), \A n \in 1..Len(e) : g[n] = e[n]
  PROVE  Describes(t, f, g, i)
<1> DEFINE o == f.enum_value_offset
           c == f.enum_value_count
           L == ListAt(t, i)
<1>1. o \in Nat /\ c \in Nat
  BY DEF Features
<1>2. /\ f.vcp_code = Byte(t, i) /\ c = Cardinality(L) /\ o + c <= Len(e)
      /\ \A j \in L : Rank(L, j) \in 1..c /\ e[o + Rank(L, j)] = Byte(t, j)
      /\ \A n \in 1..c : \E j \in L : Rank(L, j) = n
  BY DEF Describes
<1> HIDE DEF o, c, L
<1>3. \A j \in L : o + Rank(L, j) \in 1..Len(e)
  BY <1>1, <1>2
<1>4. \A j \in L : g[o + Rank(L, j)] = Byte(t, j)
  BY <1>2, <1>3
<1>5. o + c <= Len(g)
  BY <1>1, <1>2
<1> QED BY <1>2, <1>4, <1>5 DEF Describes, o, c, L

(* A code, and the list read for it.                                       *)
CodeCount(t, s, read, i) ==
  [vcp_code |-> Byte(t, i), enum_value_offset |-> Len(s.enum_values),
   enum_value_count |-> Len(read.enum_values) - Len(s.enum_values)]

MoreIsRead(t, p, q, i, s, read) ==
  /\ Text(t) /\ p \in Nat /\ q \in Nat /\ s \in Readings /\ Holds(t, p, s)
  /\ i \in CodePositions(t) /\ p <= i /\ Byte(t, i) \in Bytes
  /\ CodesBefore(t, q) = CodesBefore(t, p) \cup {i}
  /\ Cardinality(ValuesBefore(t, q))
        = Cardinality(ValuesBefore(t, p)) + Cardinality(ListAt(t, i))
  /\ Cardinality(ListAt(t, i)) \in Nat
  /\ read \in Readings /\ read.error = "OK" /\ read.features = s.features
  /\ Follows(t, ListAt(t, i), s.enum_values, read.enum_values)
  /\ Len(read.enum_values) <= MaxEnumValues

LEMMA FeatureIsAdded ==
  ASSUME NEW t, NEW p, NEW q, NEW i, NEW s, NEW read, MoreIsRead(t, p, q, i, s, read),
         NEW a, a = AppendFeature(read, CodeCount(t, s, read, i))
  PROVE  /\ a \in Readings /\ a.at = read.at
         /\ a.error # "OK" => ~Good(t)
         /\ a.error = "OK" => Holds(t, q, a)
<1> DEFINE L == ListAt(t, i)
           e0 == s.enum_values
           e == read.enum_values
           F == [vcp_code |-> Byte(t, i), enum_value_offset |-> Len(e0),
                 enum_value_count |-> Len(e) - Len(e0)]
           fs == s.features
           P == CodesBefore(t, p)
           x == Byte(t, i)
<1>0. /\ Text(t) /\ p \in Nat /\ q \in Nat /\ s \in Readings /\ Holds(t, p, s)
      /\ i \in CodePositions(t) /\ p <= i /\ x \in Bytes
      /\ CodesBefore(t, q) = P \cup {i}
      /\ Cardinality(ValuesBefore(t, q)) = Cardinality(ValuesBefore(t, p)) + Cardinality(L)
      /\ Cardinality(L) \in Nat
      /\ read \in Readings /\ read.error = "OK" /\ read.features = fs
      /\ Follows(t, L, e0, e) /\ Len(e) <= MaxEnumValues
  BY DEF MoreIsRead
<1>1. /\ e0 \in Seq(Bytes) /\ e \in Seq(Bytes) /\ fs \in Seq(Features)
      /\ Len(e0) \in Nat /\ Len(e) \in Nat /\ Len(fs) \in Nat
  <2>1. e0 \in Seq(Bytes) /\ e \in Seq(Bytes) /\ fs \in Seq(Features)
    BY <1>0, ReadingsChange
  <2> QED BY <2>1
<1>2. /\ Len(e) = Len(e0) + Cardinality(L)
      /\ \A n \in 1..Len(e0) : e[n] = e0[n]
      /\ \A j \in L : Rank(L, j) \in 1..Cardinality(L) /\ e[Len(e0) + Rank(L, j)] = Byte(t, j)
      /\ \A n \in 1..Cardinality(L) : \E j \in L : Rank(L, j) = n
  BY <1>0 DEF Follows
<1>3. F.vcp_code = x /\ F.enum_value_offset = Len(e0) /\ F.enum_value_count = Cardinality(L)
      /\ F \in Features
  <2>1. Len(e) - Len(e0) = Cardinality(L)
    <3> DEFINE c == Cardinality(L)
    <3>1. Len(e) = Len(e0) + c /\ c \in Nat
      BY <1>0, <1>2
    <3> HIDE DEF c, e, e0
    <3> QED BY <1>1, <3>1 DEF c
  <2> HIDE DEF L, e, e0, x
  <2> QED BY <1>0, <1>1, <2>1 DEF Features, x
<1>4. /\ Len(fs) = Cardinality(P) /\ Len(fs) <= MaxFeatures
      /\ Len(e0) = Cardinality(ValuesBefore(t, p))
      /\ \A n \in 1..Len(fs) : \E j \in P : Describes(t, fs[n], e0, j)
      /\ \A j \in P : \E n \in 1..Len(fs) : Describes(t, fs[n], e0, j)
      /\ \A m, n \in 1..Len(fs) : fs[m].vcp_code = fs[n].vcp_code => m = n
      /\ \A k, j \in P : Byte(t, k) = Byte(t, j) => k = j
  BY <1>0 DEF Holds
<1>5. a = IF \E n \in DOMAIN fs : fs[n].vcp_code = F.vcp_code
          THEN Malformed(read)
          ELSE IF Len(fs) = MaxFeatures THEN Fails(read, "CAPABILITIES_TOO_LARGE")
          ELSE [read EXCEPT !.features = Append(fs, F)]
  BY <1>0 DEF AppendFeature, CodeCount, Readings
<1>6. /\ CodePositions(t) \in SUBSET Nat /\ \A j \in CodePositions(t) : j <= Len(t)
      /\ P \in SUBSET CodePositions(t) /\ Len(t) \in Nat /\ i \in Nat
      /\ \A j \in P : j < i
  BY <1>0, CodePlaces DEF CodesBefore
<1>7. DOMAIN fs = 1..Len(fs)
  BY <1>1
<1> HIDE DEF F
<1>8. CASE \E n \in DOMAIN fs : fs[n].vcp_code = F.vcp_code
  <2>1. PICK n \in 1..Len(fs) : fs[n].vcp_code = x
    BY <1>3, <1>7, <1>8
  <2>2. PICK j \in P : Describes(t, fs[n], e0, j)
    BY <1>4
  <2>3. Byte(t, j) = Byte(t, i)
    BY <2>1, <2>2 DEF Describes
  <2>4. j \in CodePositions(t) /\ j # i
    BY <1>6
  <2>5. ~CodesAreDistinct(t)
    BY <1>0, <2>3, <2>4 DEF CodesAreDistinct
  <2>6. a = Malformed(read)
    BY <1>5, <1>8
  <2>7. ~Good(t)
    BY <2>5 DEF Good
  <2>8. a \in Readings /\ a.at = read.at /\ a.error # "OK"
    <3>1. a = Fails(read, "CAPABILITIES_MALFORMED")
      BY <2>6 DEF Malformed
    <3> QED BY <1>0, <3>1 DEF Readings, Fails
  <2> QED BY <2>7, <2>8
<1>9. CASE ~(\E n \in DOMAIN fs : fs[n].vcp_code = F.vcp_code) /\ Len(fs) = MaxFeatures
  <2>1. a = Fails(read, "CAPABILITIES_TOO_LARGE")
    BY <1>5, <1>9
  <2>2. /\ Cardinality(CodePositions(t)) \in Nat
        /\ Cardinality(P) + 1 <= Cardinality(CodePositions(t))
    <3>1. i \notin P
      BY <1>6
    <3> HIDE DEF P
    <3> QED BY <1>0, <1>6, <3>1, CountedUpTo
  <2>3. ~(Cardinality(CodePositions(t)) <= MaxFeatures)
    BY <1>4, <1>9, <2>2, ParserAssumption
  <2> QED BY <1>0, <2>1, <2>3, ReadingsChange DEF Good, AreCounted
<1>10. CASE ~(\E n \in DOMAIN fs : fs[n].vcp_code = F.vcp_code) /\ Len(fs) # MaxFeatures
  <2> DEFINE g == Append(fs, F)
             N == Len(fs)
  <2>1. a = [read EXCEPT !.features = g]
    BY <1>5, <1>10
  <2>2. g \in Seq(Features) /\ Len(g) = N + 1 /\ g[N + 1] = F /\ \A n \in 1..N : g[n] = fs[n]
    <3> HIDE DEF fs
    <3> QED BY <1>1, <1>3
  <2> HIDE DEF g
  <2>3. /\ a \in Readings /\ a.at = read.at /\ a.error = "OK"
        /\ a.features = g /\ a.enum_values = e
    BY <1>0, <2>1, <2>2 DEF Readings
  <2>4. Describes(t, F, e, i)
    <3>1. F.enum_value_offset + F.enum_value_count <= Len(e)
      BY <1>1, <1>2, <1>3
    <3> HIDE DEF L, e, e0, x
    <3> QED BY <1>2, <1>3, <3>1 DEF Describes, L, x
  <2>5. ASSUME NEW n \in 1..N, NEW j, Describes(t, fs[n], e0, j) PROVE Describes(t, g[n], e, j)
    <3>1. fs[n] \in Features /\ g[n] = fs[n]
      BY <1>1, <2>2
    <3>2. Len(e0) <= Len(e)
      <4> DEFINE c == Cardinality(L)
      <4>1. Len(e) = Len(e0) + c /\ c \in Nat
        BY <1>0, <1>2
      <4> HIDE DEF c, e, e0
      <4> QED BY <1>1, <4>1
    <3>3. Describes(t, fs[n], e, j)
      <4> HIDE DEF e, e0, fs
      <4> QED BY <1>1, <1>2, <2>5, <3>1, <3>2, LongerDescribes
    <3> QED BY <3>1, <3>3
  <2> DEFINE Q == CodesBefore(t, q)
  <2>6. Q = P \cup {i}
    BY <1>0
  <2>7. Len(g) = Cardinality(Q) /\ Len(g) <= MaxFeatures
    <3>1. Cardinality(P \cup {i}) = Cardinality(P) + 1
      <4> HIDE DEF P
      <4>1. P \in SUBSET Nat
        BY <1>6
      <4> QED BY <1>6, <4>1, OnePlaceMore
    <3> QED BY <1>1, <1>4, <1>10, <2>2, <2>6, <3>1, ParserAssumption
  <2>8. Len(e) = Cardinality(ValuesBefore(t, q)) /\ Len(e) <= MaxEnumValues
    BY <1>0, <1>2, <1>4
  <2> HIDE DEF P, Q, fs, e0, e, F
  <2>9. ASSUME NEW n \in 1..Len(g) PROVE \E j \in Q : Describes(t, g[n], e, j)
    <3>1. CASE n = N + 1
      BY <2>2, <2>4, <2>6, <3>1
    <3>2. CASE n # N + 1
      <4>1. n \in 1..N
        BY <1>1, <2>2, <3>2
      <4>2. PICK j \in P : Describes(t, fs[n], e0, j)
        BY <1>4, <4>1
      <4> QED BY <2>5, <2>6, <4>1, <4>2
    <3> QED BY <3>1, <3>2
  <2>10. ASSUME NEW j \in Q PROVE \E n \in 1..Len(g) : Describes(t, g[n], e, j)
    <3>1. CASE j = i
      <4>1. N + 1 \in 1..Len(g)
        BY <1>1, <2>2
      <4> QED BY <2>2, <2>4, <3>1, <4>1
    <3>2. CASE j # i
      <4>1. PICK n \in 1..N : Describes(t, fs[n], e0, j)
        BY <1>4, <2>6, <3>2
      <4>2. n \in 1..Len(g)
        BY <1>1, <2>2
      <4> QED BY <2>5, <4>1, <4>2
    <3> QED BY <3>1, <3>2
  <2>11. ASSUME NEW n \in 1..N PROVE g[n].vcp_code # F.vcp_code /\ g[n] = fs[n]
    BY <1>7, <1>10, <2>2
  <2>12. ASSUME NEW m \in 1..Len(g), NEW n \in 1..Len(g), g[m].vcp_code = g[n].vcp_code
         PROVE  m = n
    <3>1. (m \in 1..N \/ m = N + 1) /\ (n \in 1..N \/ n = N + 1)
      BY <1>1, <2>2
    <3>2. CASE m \in 1..N /\ n \in 1..N
      BY <1>4, <2>11, <2>12, <3>2
    <3>3. CASE m = N + 1 /\ n \in 1..N
      BY <2>2, <2>11, <2>12, <3>3
    <3>4. CASE n = N + 1 /\ m \in 1..N
      BY <2>2, <2>11, <2>12, <3>4
    <3> QED BY <3>1, <3>2, <3>3, <3>4
  <2>13. ASSUME NEW j \in P PROVE Byte(t, j) # Byte(t, i)
    <3>1. PICK n \in 1..N : Describes(t, fs[n], e0, j)
      BY <1>4
    <3>2. fs[n].vcp_code = Byte(t, j)
      BY <3>1 DEF Describes
    <3> QED BY <1>3, <2>11, <3>2 DEF x
  <2>14. ASSUME NEW k \in Q, NEW j \in Q, Byte(t, k) = Byte(t, j) PROVE k = j
    <3>1. CASE k \in P /\ j \in P
      BY <1>4, <2>14, <3>1
    <3>2. CASE ~(k \in P /\ j \in P)
      BY <2>6, <2>13, <2>14, <3>2
    <3> QED BY <3>1, <3>2
  <2>15. Holds(t, q, a)
    BY <2>3, <2>7, <2>8, <2>9, <2>10, <2>12, <2>14 DEF Holds, Q
  <2> QED BY <2>3, <2>15
<1> QED BY <1>8, <1>9, <1>10
-----------------------------------------------------------------------------
(* A section of codes: parse_vcp_section.                                  *)

InVcp(t, lo, hi) ==
  /\ Text(t)
  /\ lo \in 2..Len(t) /\ hi \in lo-1..Len(t)-1
  /\ t[lo-1] = "(" /\ t[hi+1] = ")"
  /\ Depth(t)[lo-1] = Base(t) + 1 /\ Depth(t)[hi+1] = Base(t)
  /\ \A j \in lo-1..hi : Depth(t)[j] >= Base(t) + 1
  /\ \A j \in lo..hi : j \in VcpPositions(t)

AtCode(t, lo, hi, p) ==
  /\ p \in lo..hi+1 /\ Depth(t)[p-1] = Base(t) + 1
  /\ p \in {lo, hi+1} \/ t[p] \in Spaces

NextCode(t, hi, p, i) ==
  i \in p..hi /\ (\A j \in p..i-1 : t[j] \in Spaces) /\ t[i] \notin Spaces

LEMMA CodeIsAByte ==
  ASSUME NEW t, NEW lo, NEW hi, InVcp(t, lo, hi), NEW p, AtCode(t, lo, hi, p),
         NEW i, NextCode(t, hi, p, i)
  PROVE  /\ p \in Nat /\ i \in 1..Len(t) /\ hi \in i..Len(t)-1
         /\ ~IsByte(t, i, hi) => ~Good(t)
         /\ IsByte(t, i, hi) =>
              /\ i + 1 <= hi /\ t[i] \in HexDigits /\ t[i+1] \in HexDigits /\ t[i+2] \notin HexDigits
              /\ WellPlaced(t, i) /\ WellPlaced(t, i + 1) /\ Byte(t, i) \in Bytes
              /\ Depth(t)[i+1] = Base(t) + 1 /\ Level(t, i + 1) = 1
              /\ i \in CodePositions(t)
<1>1. /\ Whole(t) /\ lo \in 2..Len(t) /\ hi \in lo-1..Len(t)-1
      /\ t[lo-1] = "(" /\ t[hi+1] = ")"
      /\ \A j \in lo-1..hi : Depth(t)[j] >= Base(t) + 1
      /\ \A j \in lo..hi : j \in VcpPositions(t)
  BY DEF InVcp, Text
<1>2. /\ p \in lo..hi+1 /\ Depth(t)[p-1] = Base(t) + 1
      /\ p \in {lo, hi+1} \/ t[p] \in Spaces
  BY DEF AtCode
<1>3. i \in p..hi /\ (\A j \in p..i-1 : t[j] \in Spaces) /\ t[i] \notin Spaces
  BY DEF NextCode
<1>4. Len(t) \in Nat /\ p \in Nat /\ lo \in Nat /\ hi \in Nat /\ i \in Nat
      /\ i \in 1..Len(t) /\ hi \in i..Len(t)-1 /\ p \in 1..Len(t) /\ i \in lo..hi
  <2>1. Len(t) \in Nat
    BY <1>1, Depths
  <2> QED BY <1>1, <1>2, <1>3, <2>1
<1>5. t[hi+1] \notin HexDigits
  BY <1>1, Letters
<1>6. t[i-1] \notin HexDigits
  <2>1. CASE i = p
    <3>1. p = lo
      BY <1>2, <1>3, <1>4, <2>1
    <3> QED BY <1>1, <2>1, <3>1, Letters
  <2>2. CASE i # p
    <3>1. i - 1 \in p..i-1
      BY <1>3, <1>4, <2>2
    <3> QED BY <1>3, <3>1, Letters
  <2> QED BY <2>1, <2>2
<1>7. ~IsAt(t, i - 1, HexDigits)
  BY <1>6 DEF IsAt
<1>8. Depth(t)[i-1] = Base(t) + 1
  <2>1. i - 1 \in p-1..Len(t) /\ i - 1 \in p-1..i-1
    BY <1>3, <1>4
  <2> QED BY <1>1, <1>2, <1>3, <1>4, <2>1, SpacesAreFlat
<1>9. Base(t) \in 0..1
  BY <1>1, <1>4, Levels
<1>10. ASSUME ~IsByte(t, i, hi) PROVE ~Good(t)
  <2>1. CASE t[i] \in HexDigits
    <3>1. \A j \in i..hi : j \in VcpPositions(t)
      BY <1>1, <1>4
    <3> QED BY <1>1, <1>4, <1>5, <1>7, <1>10, <2>1, <3>1, NotAByte
  <2>2. CASE t[i] = "("
    <3>1. ~WellPlaced(t, i)
      BY <1>7, <2>2 DEF WellPlaced
    <3> QED BY <1>1, <1>4, <3>1, GoodIsWell
  <2>3. CASE t[i] = ")"
    <3>1. Depth(t)[i] = Depth(t)[i-1] - 1
      BY <1>1, <1>4, <2>3, Depths
    <3>2. Depth(t)[i] >= Base(t) + 1
      BY <1>1, <1>4
    <3> QED BY <1>8, <1>9, <3>1, <3>2
  <2>4. CASE t[i] \notin HexDigits /\ t[i] # "(" /\ t[i] # ")"
    <3>1. ~WellPlaced(t, i)
      BY <1>3, <2>4 DEF WellPlaced
    <3> QED BY <1>1, <1>4, <3>1, GoodIsWell
  <2> QED BY <2>1, <2>2, <2>3, <2>4
<1>11. ASSUME IsByte(t, i, hi)
       PROVE  /\ i + 1 <= hi /\ t[i] \in HexDigits /\ t[i+1] \in HexDigits /\ t[i+2] \notin HexDigits
              /\ WellPlaced(t, i) /\ WellPlaced(t, i + 1) /\ Byte(t, i) \in Bytes
              /\ Depth(t)[i+1] = Base(t) + 1 /\ Level(t, i + 1) = 1
              /\ i \in CodePositions(t)
  <2>1. /\ i + 1 <= hi /\ t[i] \in HexDigits /\ t[i+1] \in HexDigits /\ t[i+2] \notin HexDigits
        /\ WellPlaced(t, i) /\ WellPlaced(t, i + 1) /\ Byte(t, i) \in Bytes
    BY <1>1, <1>4, <1>5, <1>7, <1>11, ByteIs, ByteIsWell
  <2>2. i + 1 \in 1..Len(t) /\ (i + 1) - 1 = i
    BY <1>4, <2>1
  <2>3. t[i] # "(" /\ t[i] # ")" /\ t[i+1] # "(" /\ t[i+1] # ")"
    BY <2>1, Letters
  <2>4. Depth(t)[i] = Base(t) + 1
    BY <1>1, <1>4, <1>8, <2>3, Depths
  <2>5. Depth(t)[i+1] = Base(t) + 1
    <3> DEFINE k == i + 1
    <3>1. k \in 1..Len(t) /\ k - 1 = i /\ t[k] # "(" /\ t[k] # ")"
      BY <2>2, <2>3
    <3> HIDE DEF k
    <3>2. Depth(t)[k] = Depth(t)[k - 1]
      BY <1>1, <3>1, Depths
    <3>3. Depth(t)[k] = Base(t) + 1
      BY <2>4, <3>1, <3>2
    <3> QED BY <3>3 DEF k
  <2>6. Level(t, i) = 1
    BY <1>1, <1>4, <1>9, <2>3, <2>4, Levels
  <2>7. Level(t, i + 1) = 1
    <3> DEFINE k == i + 1
    <3>1. k \in 1..Len(t) /\ t[k] # "(" /\ Depth(t)[k] = Base(t) + 1
      BY <2>2, <2>3, <2>5
    <3> HIDE DEF k
    <3>2. Level(t, k) = 1
      BY <1>1, <1>9, <3>1, Levels
    <3> QED BY <3>2 DEF k
  <2>8. i \in CodePositions(t)
    <3>1. i \in VcpPositions(t)
      BY <1>1, <1>4
    <3> QED BY <2>1, <2>6, <3>1 DEF CodePositions, BytesAt
  <2> QED BY <2>1, <2>5, <2>7, <2>8
<1> QED BY <1>4, <1>10, <1>11

(* One code more, and where its list is.                                   *)
LEMMA OneCodeMore ==
  ASSUME NEW t, Text(t), NEW p \in Nat, NEW q \in Nat, NEW i \in CodePositions(t), i \in p..q-1,
         \A j \in p..q-1 : j \in CodePositions(t) => j = i
  PROVE  CodesBefore(t, q) = CodesBefore(t, p) \cup {i}
<1>1. \A j \in CodePositions(t) : j \in Nat
  BY CodePlaces
<1>2. i \in Nat /\ p <= i /\ i < q
  BY <1>1
<1>3. \A j \in CodePositions(t) : j < q <=> j < p \/ j \in p..q-1
  BY <1>1, <1>2
<1> QED BY <1>2, <1>3 DEF CodesBefore

(* A code without a list.                                                  *)
LEMMA UnlistedCode ==
  ASSUME NEW t, NEW lo, NEW hi, InVcp(t, lo, hi), NEW p, AtCode(t, lo, hi, p),
         NEW i, NextCode(t, hi, p, i), IsByte(t, i, hi), ~Opens(t, i + 2, hi),
         NEW s \in Readings, s.error = "OK", Sound(t, p, s),
         NEW a, a = AppendFeature(s, CodeCount(t, s, s, i))
  PROVE  /\ a \in Readings /\ a.at = s.at
         /\ a.error # "OK" => ~Good(t)
         /\ a.error = "OK" /\ ~SpaceOrEnd(t, i + 2, hi) => ~Good(t)
         /\ a.error = "OK" /\ SpaceOrEnd(t, i + 2, hi) => Sound(t, i + 2, a)
         /\ i + 2 \in p+1..hi+1
         /\ SpaceOrEnd(t, i + 2, hi) => AtCode(t, lo, hi, i + 2)
<1> DEFINE q == i + 2
           L == ListAt(t, i)
<1>1. /\ Text(t) /\ Whole(t) /\ lo \in 2..Len(t) /\ hi \in lo-1..Len(t)-1 /\ t[hi+1] = ")"
      /\ \A j \in lo-1..hi : Depth(t)[j] >= Base(t) + 1
      /\ \A j \in lo..hi : j \in VcpPositions(t)
  BY DEF InVcp, Text
<1>2. /\ p \in Nat /\ i \in 1..Len(t) /\ hi \in i..Len(t)-1
      /\ i + 1 <= hi /\ t[i] \in HexDigits /\ t[i+1] \in HexDigits /\ t[q] \notin HexDigits
      /\ WellPlaced(t, i) /\ WellPlaced(t, i + 1) /\ Byte(t, i) \in Bytes
      /\ Depth(t)[i+1] = Base(t) + 1 /\ Level(t, i + 1) = 1
      /\ i \in CodePositions(t)
  BY CodeIsAByte
<1>3. /\ i \in p..hi /\ (\A j \in p..i-1 : t[j] \in Spaces) /\ p \in lo..hi+1
  BY DEF NextCode, AtCode
<1>4. Len(t) \in Nat /\ q \in Nat /\ q \in p+1..hi+1 /\ i \in p..q-1 /\ q \in 1..Len(t)
      /\ (q - 1 = i + 1) /\ q \in lo..hi+1
  <2>1. Len(t) \in Nat
    BY <1>1, Depths
  <2> QED BY <1>1, <1>2, <1>3, <2>1
<1>5. L = {}
  <2>1. t[q] # "("
    <3>1. CASE q <= hi
      BY <3>1 DEF Opens
    <3>2. CASE ~(q <= hi)
      <4>1. q = hi + 1
        BY <1>1, <1>4, <3>2
      <4> QED BY <1>1, <4>1
    <3> QED BY <3>1, <3>2
  <2> QED BY <2>1 DEF ListAt, IsAt
<1>6. ASSUME NEW j \in p..q-1 PROVE j \in p..i-1 \/ j = i \/ j = i + 1
  BY <1>2, <1>3, <1>4
<1>7. t[(i+1)+1] \notin HexDigits
  <2>1. (i + 1) + 1 = q
    BY <1>2
  <2> QED BY <1>2, <2>1
<1> HIDE DEF q
<1>8. \A j \in p..i-1 : t[j] \notin HexDigits /\ WellPlaced(t, j)
  BY <1>3, Letters, SpaceIsWell
<1>9. CodesBefore(t, q) = CodesBefore(t, p) \cup {i}
  <2>1. \A j \in p..q-1 : j \in CodePositions(t) => j = i
    BY <1>6, <1>7, <1>8 DEF CodePositions, BytesAt
  <2>2. Text(t) /\ p \in Nat /\ q \in Nat /\ i \in CodePositions(t) /\ i \in p..q-1
    BY <1>1, <1>2, <1>4
  <2> QED BY <2>1, <2>2, OneCodeMore
<1>10. ValuesBefore(t, q) = ValuesBefore(t, p)
  <2>1. i \notin ValuePositions(t)
    <3>1. Level(t, i) = 1
      BY <1>2 DEF CodePositions, BytesAt
    <3> QED BY <3>1 DEF ValuePositions, BytesAt
  <2>2. \A j \in p..q-1 : j \notin ValuePositions(t)
    BY <1>6, <1>7, <1>8, <2>1 DEF ValuePositions, BytesAt
  <2>3. \A j \in ValuePositions(t) : j \in Nat
    BY <1>1, ValuePlaces
  <2>4. \A j \in ValuePositions(t) : j < q <=> j < p
    BY <1>2, <1>4, <2>2, <2>3
  <2> QED BY <2>4 DEF ValuesBefore
<1>11. Cardinality(L) = 0
  BY <1>5, FS_EmptySet
<1>12. /\ Len(s.enum_values) \in Nat
       /\ Follows(t, L, s.enum_values, s.enum_values)
       /\ Len(s.enum_values) <= MaxEnumValues
       /\ Holds(t, p, s)
  <2>1. s.enum_values \in Seq(Bytes)
    BY ReadingsChange
  <2>2. Len(s.enum_values) \in Nat
    BY <2>1
  <2> HIDE DEF L
  <2> QED BY <1>5, <2>2, NoneFollows DEF Sound, Holds
<1>13. Cardinality(ValuesBefore(t, q)) = Cardinality(ValuesBefore(t, p)) + Cardinality(L)
  <2>1. Cardinality(ValuesBefore(t, p)) \in Nat
    BY <1>1, ValuePlaces
  <2> QED BY <1>10, <1>11, <2>1
<1>14. /\ a \in Readings /\ a.at = s.at
       /\ a.error # "OK" => ~Good(t)
       /\ a.error = "OK" => Holds(t, q, a)
  <2>1. p <= i /\ Cardinality(L) \in Nat
    BY <1>2, <1>3, <1>11
  <2>2. Text(t) /\ p \in Nat /\ q \in Nat /\ i \in CodePositions(t) /\ Byte(t, i) \in Bytes
    BY <1>1, <1>2, <1>4
  <2>3. MoreIsRead(t, p, q, i, s, s)
    <3> HIDE DEF q
    <3> QED BY <1>9, <1>12, <1>13, <2>1, <2>2 DEF MoreIsRead
  <2> QED BY <2>3, FeatureIsAdded
<1>15. ASSUME ~SpaceOrEnd(t, q, hi) PROVE ~Good(t)
  <2>1. q <= hi /\ t[q] \notin Spaces /\ t[q] # "("
    BY <1>15 DEF SpaceOrEnd, Opens, q
  <2>2. q \in lo..hi /\ q \in lo-1..hi
    BY <1>1, <1>4, <2>1
  <2>3. CASE t[q] = ")"
    <3>1. Depth(t)[q] = Depth(t)[q - 1] - 1
      BY <1>1, <1>4, <2>3, Depths
    <3>2. Depth(t)[q] >= Base(t) + 1
      BY <1>1, <2>2
    <3>3. Base(t) \in 0..1
      BY <1>1, <1>4, Levels
    <3> QED BY <1>2, <1>4, <3>1, <3>2, <3>3
  <2>4. CASE t[q] # ")"
    <3>1. ~WellPlaced(t, q)
      BY <1>2, <2>1, <2>4 DEF WellPlaced
    <3> QED BY <1>1, <2>2, <3>1, GoodIsWell
  <2> QED BY <2>3, <2>4
<1>16. ASSUME a.error = "OK" PROVE Sound(t, q, a)
  <2>1. \A j \in p..q-1 : WellPlaced(t, j)
    BY <1>2, <1>6, <1>8
  <2>2. \A j \in VcpPositions(t) : j \in Nat
    BY <1>1, VcpPlaces, Depths
  <2>3. \A j \in VcpPositions(t) : j < q => j < p \/ j \in p..q-1
    BY <1>2, <1>4, <2>2
  <2>4. \A j \in VcpPositions(t) : j < q => WellPlaced(t, j)
    BY <2>1, <2>3 DEF Sound
  <2> QED BY <1>14, <1>16, <2>4 DEF Sound
<1>17. ASSUME SpaceOrEnd(t, q, hi) PROVE AtCode(t, lo, hi, q)
  <2>1. q = hi + 1 \/ t[q] \in Spaces
    BY <1>1, <1>4, <1>17 DEF SpaceOrEnd
  <2> QED BY <1>2, <1>4, <2>1 DEF AtCode
<1> QED BY <1>4, <1>14, <1>15, <1>16, <1>17 DEF q

(* A code with a list.                                                     *)
LEMMA ListIsInside ==
  ASSUME NEW t, NEW lo, NEW hi, InVcp(t, lo, hi), NEW p, AtCode(t, lo, hi, p),
         NEW i, NextCode(t, hi, p, i), IsByte(t, i, hi), Opens(t, i + 2, hi),
         NEW s \in Readings, s.error = "OK", Sound(t, p, s),
         NEW c, c = Closing(t, i + 2)
  PROVE  /\ c \in i+3..hi /\ Depth(t)[c] = Base(t) + 1 /\ t[c] = ")" /\ t[i+2] = "("
         /\ Level(t, i + 2) = 1 /\ Level(t, c) = 1
         /\ InList(t, i + 3, c - 1) /\ ValuesStart(t, i + 3, s)
         /\ ValuesBefore(t, i + 3) = ValuesBefore(t, p)
<1> DEFINE o == i + 2
           m == i + 3
<1>1. /\ Text(t) /\ Whole(t) /\ lo \in 2..Len(t) /\ hi \in lo-1..Len(t)-1 /\ t[hi+1] = ")"
      /\ Depth(t)[hi+1] = Base(t)
      /\ \A j \in lo..hi : j \in VcpPositions(t)
  BY DEF InVcp, Text
<1>2. /\ p \in Nat /\ i \in 1..Len(t) /\ i + 1 <= hi
      /\ t[i] \in HexDigits /\ t[i+1] \in HexDigits
      /\ Depth(t)[i+1] = Base(t) + 1 /\ Level(t, i + 1) = 1
      /\ i \in CodePositions(t)
  BY CodeIsAByte
<1>3. /\ i \in p..hi /\ (\A j \in p..i-1 : t[j] \in Spaces) /\ p \in lo..hi+1
  BY DEF NextCode, AtCode
<1>4. o <= hi /\ t[o] = "("
  BY DEF Opens
<1>5. Len(t) \in Nat /\ o \in Nat /\ m \in Nat /\ o \in lo..hi /\ o \in 1..Len(t) /\ o - 1 = i + 1
      /\ m - 1 = o /\ m = o + 1
  <2>1. Len(t) \in Nat
    BY <1>1, Depths
  <2> QED BY <1>1, <1>2, <1>3, <1>4, <2>1
<1>6. Base(t) \in 0..1
  BY <1>1, <1>5, Levels
<1>7. Depth(t)[o-1] = Base(t) + 1
  BY <1>2, <1>5
<1> HIDE DEF o
<1>8. /\ c \in o+1..Len(t) /\ t[c] = ")"
      /\ Depth(t)[o] = Base(t) + 2 /\ Depth(t)[c] = Base(t) + 1
      /\ \A j \in o..c-1 : Depth(t)[j] >= Base(t) + 2
  <2>1. c = Closing(t, o)
    BY DEF o
  <2>2. /\ c \in o+1..Len(t) /\ t[c] = ")"
        /\ Depth(t)[o] = Depth(t)[o - 1] + 1
        /\ Depth(t)[c] = Depth(t)[o - 1]
        /\ \A j \in o..c-1 : Depth(t)[j] >= Depth(t)[o]
    BY <1>1, <1>4, <1>5, <2>1, Enclosed
  <2>3. Depth(t)[o] = Base(t) + 2
    BY <1>6, <1>7, <2>2
  <2> QED BY <1>7, <2>2, <2>3
<1>9. c <= hi
  <2>1. c # hi + 1
    BY <1>1, <1>6, <1>8
  <2>2. ~(c > hi + 1)
    <3>1. c > hi + 1 => hi + 1 \in o..c-1
      BY <1>1, <1>4, <1>5, <1>8
    <3> QED BY <1>1, <1>6, <1>8, <3>1
  <2> QED BY <1>1, <1>5, <1>8, <2>1, <2>2
<1>10. c \in m..hi /\ c \in 1..Len(t) /\ c \in Nat /\ (c - 1) + 1 = c
  BY <1>1, <1>5, <1>8, <1>9
<1>11. InList(t, m, c - 1)
  <2>1. m \in 2..Len(t) /\ c - 1 \in m-1..Len(t)-1
    BY <1>1, <1>5, <1>10
  <2>2. t[m-1] = "(" /\ t[(c-1)+1] = ")" /\ Depth(t)[m-1] = Base(t) + 2
    BY <1>4, <1>5, <1>8, <1>10
  <2>3. \A j \in m-1..c-1 : Depth(t)[j] >= Base(t) + 2
    BY <1>5, <1>8
  <2>4. \A j \in m-1..(c-1)+1 : j \in VcpPositions(t)
    <3>1. \A j \in m-1..(c-1)+1 : j \in lo..hi
      BY <1>1, <1>5, <1>10
    <3> QED BY <1>1, <3>1
  <2> HIDE DEF m
  <2> QED BY <1>1, <2>1, <2>2, <2>3, <2>4 DEF InList
<1>12. ValuesBefore(t, m) = ValuesBefore(t, p)
  <2>1. ASSUME NEW j \in p..m-1 PROVE j \in p..i-1 \/ j = i \/ j = i + 1 \/ j = o
    BY <1>2, <1>3, <1>5
  <2>2. i \notin ValuePositions(t) /\ i + 1 \notin ValuePositions(t)
    BY <1>2 DEF CodePositions, ValuePositions, BytesAt
  <2>3. o \notin ValuePositions(t)
    BY <1>4, Letters DEF ValuePositions, BytesAt
  <2>4. \A j \in p..i-1 : j \notin ValuePositions(t)
    BY <1>3, Letters DEF ValuePositions, BytesAt
  <2>5. \A j \in p..m-1 : j \notin ValuePositions(t)
    BY <2>1, <2>2, <2>3, <2>4
  <2>6. \A j \in ValuePositions(t) : j \in Nat
    BY <1>1, ValuePlaces
  <2>7. p <= m
    BY <1>2, <1>3, <1>5
  <2> HIDE DEF m
  <2>8. \A j \in ValuePositions(t) : j < m <=> j < p
    BY <1>2, <1>5, <2>5, <2>6, <2>7
  <2> QED BY <2>8 DEF ValuesBefore
<1>13. ValuesStart(t, m, s)
  <2>1. Len(s.enum_values) = Cardinality(ValuesBefore(t, p)) /\ Len(s.enum_values) <= MaxEnumValues
    BY DEF Sound, Holds
  <2> HIDE DEF m
  <2> QED BY <1>12, <2>1 DEF ValuesStart
<1>14. Level(t, o) = 1
  BY <1>1, <1>4, <1>5, <1>6, <1>7, Levels
<1>15. Level(t, c) = 1
  BY <1>1, <1>6, <1>8, <1>10, Levels
<1> QED BY <1>4, <1>8, <1>10, <1>11, <1>12, <1>13, <1>14, <1>15 DEF o

LEMMA ListedCode ==
  ASSUME NEW t, NEW lo, NEW hi, InVcp(t, lo, hi), NEW p, AtCode(t, lo, hi, p),
         NEW i, NextCode(t, hi, p, i), IsByte(t, i, hi), Opens(t, i + 2, hi),
         NEW s \in Readings, s.error = "OK", Sound(t, p, s),
         NEW c, c = Closing(t, i + 2), NEW r, r = EnumValues(t, i + 3, c - 1, s),
         NEW a, a = AppendFeature(r, CodeCount(t, s, r, i))
  PROVE  /\ r \in Readings /\ r.at \in lo..hi+1
         /\ r.error # "OK" => ~Good(t)
         /\ r.error = "OK" =>
              /\ a \in Readings /\ a.at = r.at
              /\ a.error # "OK" => ~Good(t)
              /\ a.error = "OK" /\ ~SpaceOrEnd(t, c + 1, hi) => ~Good(t)
              /\ a.error = "OK" /\ SpaceOrEnd(t, c + 1, hi) => Sound(t, c + 1, a)
         /\ c + 1 \in p+1..hi+1
         /\ SpaceOrEnd(t, c + 1, hi) => AtCode(t, lo, hi, c + 1)
<1> DEFINE q == c + 1
           o == i + 2
           m == i + 3
           L == ListAt(t, i)
<1>1. /\ Text(t) /\ Whole(t) /\ lo \in 2..Len(t) /\ hi \in lo-1..Len(t)-1 /\ t[hi+1] = ")"
      /\ \A j \in lo-1..hi : Depth(t)[j] >= Base(t) + 1
      /\ \A j \in lo..hi : j \in VcpPositions(t)
  BY DEF InVcp, Text
<1>2. /\ p \in Nat /\ i \in 1..Len(t) /\ i + 1 <= hi
      /\ t[i] \in HexDigits /\ t[i+1] \in HexDigits
      /\ WellPlaced(t, i) /\ WellPlaced(t, i + 1) /\ Byte(t, i) \in Bytes
      /\ i \in CodePositions(t)
  BY CodeIsAByte
<1>3. /\ i \in p..hi /\ (\A j \in p..i-1 : t[j] \in Spaces) /\ p \in lo..hi+1
  BY DEF NextCode, AtCode
<1>4. /\ c \in m..hi /\ Depth(t)[c] = Base(t) + 1 /\ t[c] = ")" /\ t[o] = "("
      /\ Level(t, o) = 1 /\ Level(t, c) = 1
      /\ InList(t, m, c - 1) /\ ValuesStart(t, m, s)
      /\ ValuesBefore(t, m) = ValuesBefore(t, p)
  BY ListIsInside
<1>5. Len(t) \in Nat /\ c \in Nat /\ c \in lo..hi /\ o \in lo..hi /\ m \in lo..hi /\ i \in lo..hi
      /\ q \in Nat /\ q \in p+1..hi+1 /\ i \in p..q-1 /\ q - 1 = c /\ (c - 1) + 1 = c
      /\ c \in 1..Len(t) /\ o \in 1..Len(t) /\ m \in 1..Len(t) /\ q \in 1..Len(t) /\ m = o + 1
      /\ i \in Nat /\ o \in Nat /\ m \in Nat
  <2>1. Len(t) \in Nat
    BY <1>1, Depths
  <2> QED BY <1>1, <1>2, <1>3, <1>4, <2>1
<1>6. L = BytesAt(t, m..c-1)
  BY <1>4, <1>5 DEF ListAt, IsAt
<1>7. /\ r \in Readings /\ r.at \in m..c-1+1
      /\ r.error # "OK" => ~Good(t)
      /\ r.error = "OK" =>
           /\ r.features = s.features
           /\ \A j \in m..c-1 : WellPlaced(t, j)
           /\ Follows(t, L, s.enum_values, r.enum_values)
           /\ Len(r.enum_values) <= MaxEnumValues
           /\ L # {}
  <2> DEFINE h == c - 1
  <2>1. InList(t, m, h) /\ ValuesStart(t, m, s) /\ r = EnumValues(t, m, h, s) /\ L = BytesAt(t, m..h)
    BY <1>4, <1>6
  <2> HIDE DEF m, h, L
  <2>2. /\ r \in Readings /\ r.at \in m..h+1
        /\ r.error # "OK" => ~Good(t)
        /\ r.error = "OK" =>
             /\ r.features = s.features
             /\ \A j \in m..h : WellPlaced(t, j)
             /\ Follows(t, BytesAt(t, m..h), s.enum_values, r.enum_values)
             /\ Len(r.enum_values) <= MaxEnumValues
             /\ BytesAt(t, m..h) # {}
    BY <2>1, ValuesAreRead
  <2> QED BY <2>1, <2>2 DEF h
<1>8. r.at \in lo..hi+1
  <2>1. r.at \in m..c
    BY <1>5, <1>7
  <2> QED BY <1>1, <1>5, <2>1
<1>9. SpaceOrEnd(t, q, hi) => AtCode(t, lo, hi, q)
  <2>1. SpaceOrEnd(t, q, hi) => q = hi + 1 \/ t[q] \in Spaces
    BY <1>1, <1>5 DEF SpaceOrEnd
  <2>2. q \in lo..hi+1 /\ Depth(t)[q - 1] = Base(t) + 1
    BY <1>1, <1>4, <1>5
  <2> QED BY <2>1, <2>2 DEF AtCode
<1>10. CASE r.error # "OK"
  BY <1>5, <1>7, <1>8, <1>9, <1>10
<1>11. CASE r.error = "OK"
  <2> HIDE DEF q
  <2>1. \A j \in m..c-1 : WellPlaced(t, j) /\ j \in VcpPositions(t) /\ Level(t, j) = 2
    <3> DEFINE h == c - 1
    <3>1. \A j \in m..h : WellPlaced(t, j)
      BY <1>7, <1>11
    <3>2. InList(t, m, h) /\ c \in m..h+1
      BY <1>4, <1>5
    <3>3. m..c-1 = m..h
      OBVIOUS
    <3> HIDE DEF m, h
    <3>4. \A j \in m..c-1 : j \in VcpPositions(t) /\ Level(t, j) = 2
      BY <3>1, <3>2, <3>3, ListLevels
    <3> QED BY <3>1, <3>3, <3>4
  <2>2. /\ ValuesBefore(t, c) = ValuesBefore(t, p) \cup L
        /\ Cardinality(L) \in Nat
        /\ Cardinality(ValuesBefore(t, c)) = Cardinality(ValuesBefore(t, p)) + Cardinality(L)
    <3> DEFINE h == c - 1
    <3>1. InList(t, m, h) /\ c \in m..h+1 /\ \A j \in m..c-1 : WellPlaced(t, j)
      BY <1>4, <1>5, <2>1
    <3> HIDE DEF m, h
    <3>2. /\ ValuesBefore(t, c) = ValuesBefore(t, m) \cup BytesAt(t, m..c-1)
          /\ Cardinality(BytesAt(t, m..c-1)) \in Nat
          /\ Cardinality(ValuesBefore(t, c))
               = Cardinality(ValuesBefore(t, m)) + Cardinality(BytesAt(t, m..c-1))
      BY <3>1, ValuesUpTo
    <3> QED BY <1>4, <1>6, <3>2
  <2>3. ValuesBefore(t, q) = ValuesBefore(t, c)
    <3>1. c \notin ValuePositions(t)
      BY <1>4 DEF ValuePositions, BytesAt
    <3>2. \A j \in ValuePositions(t) : j \in Nat
      BY <1>1, ValuePlaces
    <3>3. \A j \in ValuePositions(t) : j < q <=> j < c
      BY <1>5, <3>1, <3>2
    <3> QED BY <3>3 DEF ValuesBefore
  <2>4. ASSUME NEW j \in p..q-1
        PROVE  j \in p..i-1 \/ j = i \/ j = i + 1 \/ j = o \/ j \in m..c-1 \/ j = c
    BY <1>2, <1>3, <1>5
  <2>5. \A j \in p..i-1 : t[j] \notin HexDigits /\ WellPlaced(t, j)
    BY <1>3, Letters, SpaceIsWell
  <2>6. CodesBefore(t, q) = CodesBefore(t, p) \cup {i}
    <3>1. \A j \in p..i-1 : j \notin CodePositions(t)
      BY <2>5 DEF CodePositions, BytesAt
    <3>2. i + 1 \notin CodePositions(t)
      <4>1. t[(i+1)+1] \notin HexDigits
        <5>1. (i + 1) + 1 = o
          BY <1>5
        <5> QED BY <1>4, <5>1, Letters
      <4> QED BY <4>1 DEF CodePositions, BytesAt
    <3>3. o \notin CodePositions(t) /\ c \notin CodePositions(t)
      BY <1>4, Letters DEF CodePositions, BytesAt
    <3>4. \A j \in m..c-1 : j \notin CodePositions(t)
      BY <2>1 DEF CodePositions, BytesAt
    <3>5. \A j \in p..q-1 : j \in CodePositions(t) => j = i
      BY <2>4, <3>1, <3>2, <3>3, <3>4
    <3>6. Text(t) /\ p \in Nat /\ q \in Nat /\ i \in CodePositions(t) /\ i \in p..q-1
      BY <1>1, <1>2, <1>5
    <3> QED BY <3>5, <3>6, OneCodeMore
  <2>7. MoreIsRead(t, p, q, i, s, r)
    <3>1. Text(t) /\ p \in Nat /\ q \in Nat /\ i \in CodePositions(t) /\ Byte(t, i) \in Bytes /\ p <= i
      BY <1>1, <1>2, <1>3, <1>5
    <3>2. /\ r.features = s.features /\ Follows(t, L, s.enum_values, r.enum_values)
          /\ Len(r.enum_values) <= MaxEnumValues /\ r \in Readings
      BY <1>7, <1>11
    <3>3. Cardinality(ValuesBefore(t, q)) = Cardinality(ValuesBefore(t, p)) + Cardinality(L)
      BY <2>2, <2>3
    <3>4. Holds(t, p, s)
      BY DEF Sound
    <3> QED BY <1>11, <2>2, <2>6, <3>1, <3>2, <3>3, <3>4 DEF MoreIsRead
  <2>8. /\ a \in Readings /\ a.at = r.at
        /\ a.error # "OK" => ~Good(t)
        /\ a.error = "OK" => Holds(t, q, a)
    BY <2>7, FeatureIsAdded
  <2>9. ASSUME ~SpaceOrEnd(t, q, hi) PROVE ~Good(t)
    <3>1. q <= hi /\ t[q] \notin Spaces
      BY <2>9 DEF SpaceOrEnd
    <3>2. q \in lo-1..hi
      BY <1>1, <1>5, <3>1
    <3>3. t[q] # ")"
      <4> SUFFICES ASSUME t[q] = ")" PROVE FALSE
        OBVIOUS
      <4>1. Depth(t)[q] = Depth(t)[q - 1] - 1
        BY <1>1, <1>5, Depths
      <4>2. Depth(t)[q] >= Base(t) + 1
        BY <1>1, <3>2
      <4>3. Base(t) \in 0..1
        BY <1>1, <1>5, Levels
      <4> QED BY <1>4, <1>5, <4>1, <4>2, <4>3
    <3>4. ~IsAt(t, c + 1, Spaces \cup {")"})
      BY <3>1, <3>3 DEF IsAt, q
    <3>5. ~WellPlaced(t, c)
      BY <1>4, <3>4 DEF WellPlaced
    <3> QED BY <1>1, <1>5, <3>5, GoodIsWell
  <2>10. ASSUME a.error = "OK", SpaceOrEnd(t, q, hi) PROVE Sound(t, q, a)
    <3>1. WellPlaced(t, c)
      <4>1. t[q] \in Spaces \cup {")"}
        BY <1>1, <1>5, <2>10 DEF SpaceOrEnd
      <4>2. IsAt(t, c + 1, Spaces \cup {")"})
        BY <1>5, <4>1 DEF IsAt, q
      <4> QED BY <1>4, <4>2, Letters DEF WellPlaced
    <3>2. WellPlaced(t, o)
      <4>1. IsAt(t, o - 1, HexDigits)
        <5>1. o - 1 = i + 1 /\ i + 1 \in 1..Len(t)
          BY <1>5
        <5> QED BY <1>2, <5>1 DEF IsAt
      <4> DEFINE n == NextSolid(t, o)
      <4>2. /\ n \in m..Len(t)+1 /\ \A j \in m..n-1 : t[j] \in Spaces
            /\ n <= Len(t) => t[n] \notin Spaces
        <5>1. n = Past(t, m, Len(t), Spaces)
          BY <1>5 DEF NextSolid
        <5>2. m <= Len(t) + 1
          BY <1>5
        <5> HIDE DEF n, m
        <5> QED BY <1>5, <5>1, <5>2, PastIs
      <4>3. PICK k \in L : TRUE
        BY <1>7, <1>11
      <4>4. k \in m..c-1 /\ t[k] \in HexDigits
        <5>1. k \in BytesAt(t, m..c-1)
          BY <1>6
        <5> QED BY <5>1, InBytes
      <4> HIDE DEF n
      <4>5. n <= k
        <5>1. n > k => k \in m..n-1
          BY <1>5, <4>2, <4>4
        <5> QED BY <1>5, <4>2, <4>4, <5>1, Letters
      <4>6. n \in m..c-1
        BY <1>5, <4>2, <4>4, <4>5
      <4>7. t[n] # ")"
        <5> DEFINE h == c - 1
        <5>1. InList(t, m, h) /\ n \in m..h /\ WellPlaced(t, n)
          BY <1>4, <2>1, <4>6
        <5> HIDE DEF m, h
        <5>2. t[n] \in HexDigits \cup Spaces
          BY <5>1, ListChars
        <5> QED BY <5>2, Letters
      <4>8. ~IsAt(t, NextSolid(t, o), {")"})
        BY <4>7 DEF IsAt, n
      <4> HIDE DEF o
      <4> QED BY <1>4, <4>1, <4>8, Letters DEF WellPlaced
    <3>3. \A j \in p..q-1 : WellPlaced(t, j)
      BY <1>2, <2>1, <2>4, <2>5, <3>1, <3>2
    <3>4. \A j \in VcpPositions(t) : j \in Nat
      BY <1>1, VcpPlaces, Depths
    <3>5. \A j \in VcpPositions(t) : j < q => j < p \/ j \in p..q-1
      BY <1>2, <1>5, <3>4
    <3>6. \A j \in VcpPositions(t) : j < q => WellPlaced(t, j)
      BY <3>3, <3>5 DEF Sound
    <3> QED BY <2>8, <2>10, <3>6 DEF Sound
  <2> QED BY <1>5, <1>7, <1>8, <1>9, <2>8, <2>9, <2>10, <1>11 DEF q
<1> QED BY <1>10, <1>11

LEMMA SameSound ==
  ASSUME NEW t, NEW p, NEW s, NEW r, Sound(t, p, s),
         r.features = s.features, r.enum_values = s.enum_values
  PROVE  Sound(t, p, r)
  BY SameHolds DEF Sound

CodesInv(t, lo, hi, s) ==
  /\ s \in Readings /\ s.at \in lo..hi+1
  /\ s.error # "OK" => ~Good(t)
  /\ s.error = "OK" => Sound(t, s.at, s) /\ AtCode(t, lo, hi, s.at)

LEMMA CodeStepKeeps ==
  ASSUME NEW t, NEW lo, NEW hi, InVcp(t, lo, hi), NEW s, CodesInv(t, lo, hi, s)
  PROVE  /\ CodesInv(t, lo, hi, CodeStep(t, hi, s))
         /\ s.error # "OK" \/ s.at = hi + 1 => CodeStep(t, hi, s).error # "OK"
                                               \/ CodeStep(t, hi, s).at = hi + 1
         /\ s.error = "OK" /\ s.at <= hi =>
              \/ CodeStep(t, hi, s).error # "OK" \/ CodeStep(t, hi, s).at = hi + 1
              \/ CodeStep(t, hi, s).at > s.at
<1> DEFINE x == CodeStep(t, hi, s)
           p == s.at
           i == Past(t, p, hi, Spaces)
           listed == Opens(t, i + 2, hi)
           c == Closing(t, i + 2)
           read == IF listed THEN EnumValues(t, i + 3, c - 1, s) ELSE s
           next == IF listed THEN c + 1 ELSE i + 2
           added == AppendFeature(read, CodeCount(t, s, read, i))
<1>1. /\ Text(t) /\ Whole(t) /\ lo \in 2..Len(t) /\ hi \in lo-1..Len(t)-1
      /\ \A j \in lo..hi : j \in VcpPositions(t)
  BY DEF InVcp, Text
<1>2. Len(t) \in Nat /\ lo \in Nat /\ hi \in Nat /\ p \in lo..hi+1 /\ p \in Nat /\ p <= hi + 1
  BY <1>1, Depths DEF CodesInv
<1>3. /\ i \in p..hi+1 /\ \A j \in p..i-1 : t[j] \in Spaces
      /\ i <= hi => t[i] \notin Spaces
  <2> HIDE DEF p
  <2> QED BY <1>2, PastIs
<1>4. s \in Readings
  BY DEF CodesInv
<1>5. x = IF s.error # "OK" THEN s
          ELSE IF i > hi THEN At(s, i)
          ELSE IF ~IsByte(t, i, hi) THEN Malformed(s)
          ELSE IF read.error # "OK" THEN read
          ELSE IF added.error # "OK" THEN added
          ELSE IF ~SpaceOrEnd(t, next, hi) THEN Malformed(added)
          ELSE At(added, next)
  <2>1. CASE listed
    <3>1. x = IF s.error # "OK" THEN s
              ELSE IF i > hi THEN At(s, i)
              ELSE IF ~IsByte(t, i, hi) THEN Malformed(s)
              ELSE GoOn(t, hi, next, AddCode(Byte(t, i), Len(s.enum_values), read))
      BY <2>1 DEF CodeStep
    <3> HIDE DEF x, p, i, listed, c, read, next
    <3> QED BY <3>1 DEF GoOn, AddCode, CodeCount
  <2>2. CASE ~listed
    <3>1. x = IF s.error # "OK" THEN s
              ELSE IF i > hi THEN At(s, i)
              ELSE IF ~IsByte(t, i, hi) THEN Malformed(s)
              ELSE GoOn(t, hi, next, AddCode(Byte(t, i), Len(s.enum_values), read))
      BY <2>2 DEF CodeStep
    <3> HIDE DEF x, p, i, listed, c, read, next
    <3> QED BY <3>1 DEF GoOn, AddCode, CodeCount
  <2> QED BY <2>1, <2>2
<1> HIDE DEF x, p, i
<1>6. CASE s.error # "OK"
  <2>1. x = s
    BY <1>5, <1>6
  <2> QED BY <1>6, <2>1 DEF x
<1>7. CASE s.error = "OK"
  <2>1. Sound(t, p, s) /\ AtCode(t, lo, hi, p)
    BY <1>7 DEF CodesInv, p
  <2>2. ASSUME x \in Readings, x.error # "OK", x.at \in lo..hi+1, ~Good(t)
        PROVE  CodesInv(t, lo, hi, x)
    BY <2>2 DEF CodesInv
  <2>3. CASE i > hi
    <3>1. x = At(s, i) /\ i = hi + 1 /\ i \in Nat /\ p <= i
      BY <1>2, <1>3, <1>5, <1>7, <2>3
    <3>2. /\ x \in Readings /\ x.at = i /\ x.error = "OK"
          /\ x.features = s.features /\ x.enum_values = s.enum_values
      BY <1>4, <1>7, <3>1, ReadingsChange
    <3>3. Sound(t, i, x)
      <4>1. \A j \in p..i-1 : j \in VcpPositions(t) => WellPlaced(t, j) /\ t[j] \notin HexDigits
        BY <1>3, Letters, SpaceIsWell
      <4> QED BY <1>1, <1>2, <2>1, <3>1, <3>2, <4>1, NothingBetween
    <3>4. AtCode(t, lo, hi, i)
      <4>1. p \in 1..Len(t) /\ i - 1 \in p-1..Len(t) /\ i - 1 \in p-1..i-1
        BY <1>1, <1>2, <1>3, <3>1
      <4>2. Depth(t)[i-1] = Depth(t)[p-1]
        BY <1>1, <1>3, <4>1, SpacesAreFlat
      <4> QED BY <1>2, <1>3, <2>1, <3>1, <4>2 DEF AtCode
    <3>5. x.at \in lo..hi+1 /\ x.at = hi + 1
      BY <1>2, <3>1, <3>2
    <3>6. CodesInv(t, lo, hi, x)
      BY <3>2, <3>3, <3>4, <3>5 DEF CodesInv
    <3> QED BY <3>5, <3>6 DEF x
  <2>4. CASE ~(i > hi)
    <3>1. NextCode(t, hi, p, i)
      BY <1>2, <1>3, <2>4 DEF NextCode
    <3>2. CASE ~IsByte(t, i, hi)
      <4>1. x = Malformed(s)
        BY <1>5, <1>7, <2>4, <3>2
      <4>2. x \in Readings /\ x.error # "OK" /\ x.at = p
        BY <1>4, <4>1, ReadingsChange DEF Malformed, p
      <4>3. ~Good(t)
        BY <2>1, <3>1, <3>2, CodeIsAByte
      <4>4. CodesInv(t, lo, hi, x)
        BY <1>2, <2>2, <4>2, <4>3
      <4> QED BY <4>2, <4>4 DEF x
    <3>3. CASE IsByte(t, i, hi)
      <4>1. /\ read \in Readings /\ read.at \in lo..hi+1
            /\ read.error # "OK" => ~Good(t)
            /\ read.error = "OK" =>
                 /\ added \in Readings /\ added.at = read.at
                 /\ added.error # "OK" => ~Good(t)
                 /\ added.error = "OK" /\ ~SpaceOrEnd(t, next, hi) => ~Good(t)
                 /\ added.error = "OK" /\ SpaceOrEnd(t, next, hi) => Sound(t, next, added)
            /\ next \in p+1..hi+1
            /\ SpaceOrEnd(t, next, hi) => AtCode(t, lo, hi, next)
        <5>1. CASE listed
          <6>1. read = EnumValues(t, i + 3, c - 1, s) /\ next = c + 1
            BY <5>1
          <6>2. added = AppendFeature(read, CodeCount(t, s, read, i))
            OBVIOUS
          <6> HIDE DEF read, next, added, c
          <6>3. c = Closing(t, i + 2)
            BY DEF c
          <6> QED BY <1>4, <1>7, <2>1, <3>1, <3>3, <5>1, <6>1, <6>2, <6>3, ListedCode
        <5>2. CASE ~listed
          <6>1. read = s /\ next = i + 2
            BY <5>2
          <6>2. added = AppendFeature(s, CodeCount(t, s, s, i))
            BY <5>2
          <6> HIDE DEF read, next, added
          <6>3. /\ added \in Readings /\ added.at = s.at
                /\ added.error # "OK" => ~Good(t)
                /\ added.error = "OK" /\ ~SpaceOrEnd(t, i + 2, hi) => ~Good(t)
                /\ added.error = "OK" /\ SpaceOrEnd(t, i + 2, hi) => Sound(t, i + 2, added)
                /\ i + 2 \in p+1..hi+1
                /\ SpaceOrEnd(t, i + 2, hi) => AtCode(t, lo, hi, i + 2)
            BY <1>4, <1>7, <2>1, <3>1, <3>3, <5>2, <6>2, UnlistedCode
          <6> QED BY <1>2, <1>4, <1>7, <6>1, <6>3 DEF p
        <5> QED BY <5>1, <5>2
      <4> HIDE DEF read, added, next
      <4>2. CASE read.error # "OK"
        <5>1. x = read
          BY <1>5, <1>7, <2>4, <3>3, <4>2
        <5>2. CodesInv(t, lo, hi, x)
          BY <2>2, <4>1, <4>2, <5>1
        <5> QED BY <4>2, <5>1, <5>2 DEF x
      <4>3. CASE read.error = "OK" /\ added.error # "OK"
        <5>1. x = added
          BY <1>5, <1>7, <2>4, <3>3, <4>3
        <5>2. CodesInv(t, lo, hi, x)
          BY <2>2, <4>1, <4>3, <5>1
        <5> QED BY <4>3, <5>1, <5>2 DEF x
      <4>4. CASE read.error = "OK" /\ added.error = "OK" /\ ~SpaceOrEnd(t, next, hi)
        <5>1. x = Malformed(added)
          BY <1>5, <1>7, <2>4, <3>3, <4>4
        <5>2. x \in Readings /\ x.error # "OK" /\ x.at \in lo..hi+1
          BY <4>1, <4>4, <5>1, ReadingsChange DEF Malformed
        <5>3. CodesInv(t, lo, hi, x)
          BY <2>2, <4>1, <4>4, <5>2
        <5> QED BY <5>2, <5>3 DEF x
      <4>5. CASE read.error = "OK" /\ added.error = "OK" /\ SpaceOrEnd(t, next, hi)
        <5>1. x = At(added, next)
          BY <1>5, <1>7, <2>4, <3>3, <4>5
        <5>2. next \in Nat /\ next > p /\ next \in lo..hi+1
          BY <1>2, <4>1
        <5>3. /\ x \in Readings /\ x.at = next /\ x.error = "OK"
              /\ x.features = added.features /\ x.enum_values = added.enum_values
          BY <4>1, <4>5, <5>1, <5>2, ReadingsChange
        <5>4. Sound(t, next, x)
          BY <4>1, <4>5, <5>3, SameSound
        <5>5. CodesInv(t, lo, hi, x)
          BY <4>1, <4>5, <5>2, <5>3, <5>4 DEF CodesInv
        <5> QED BY <5>2, <5>3, <5>5, <1>7, <1>2 DEF x, p
      <4> QED BY <4>2, <4>3, <4>4, <4>5
    <3> QED BY <3>2, <3>3
  <2> QED BY <2>3, <2>4
<1> QED BY <1>6, <1>7

LEMMA SectionIsRead ==
  ASSUME NEW t, NEW lo, NEW hi, InVcp(t, lo, hi),
         NEW s0 \in Readings, s0.error = "OK", Sound(t, lo, s0)
  PROVE  /\ CodesInv(t, lo, hi, VcpSection(t, lo, hi, s0))
         /\ VcpSection(t, lo, hi, s0).error = "OK" =>
              Sound(t, hi + 1, VcpSection(t, lo, hi, s0))
<1> DEFINE S == {s \in Readings : CodesInv(t, lo, hi, s)}
           f == [s \in S |-> CodeStep(t, hi, s)]
           a == At(s0, lo)
           N == Len(t)
           D == {s \in S : s.error # "OK" \/ s.at = hi + 1}
           Loop(w) == w = [n \in 0..N |-> IF n = 0 THEN a ELSE CodeStep(t, hi, w[n-1])]
           loop == CHOOSE w : Loop(w)
<1>1. /\ lo \in 2..Len(t) /\ hi \in lo-1..Len(t)-1 /\ N \in Nat /\ lo \in Nat /\ hi \in Nat
      /\ Depth(t)[lo-1] = Base(t) + 1
  <2>1. lo \in 2..Len(t) /\ hi \in lo-1..Len(t)-1 /\ Whole(t) /\ Depth(t)[lo-1] = Base(t) + 1
    BY DEF InVcp, Text
  <2> QED BY <2>1, Depths
<1>2. a \in S /\ a.at = lo
  <2>1. /\ a \in Readings /\ a.at = lo /\ a.error = "OK"
        /\ a.features = s0.features /\ a.enum_values = s0.enum_values
    BY <1>1, ReadingsChange
  <2> HIDE DEF a
  <2>2. lo \in lo..hi+1
    BY <1>1
  <2>3. Sound(t, lo, a)
    BY <2>1, SameSound
  <2>4. AtCode(t, lo, hi, lo)
    BY <1>1, <2>2 DEF AtCode
  <2> QED BY <2>1, <2>2, <2>3, <2>4 DEF CodesInv
<1>3. ASSUME NEW s \in S
      PROVE  /\ CodeStep(t, hi, s) \in S
             /\ s.at \in Nat /\ s.at <= hi + 1 /\ CodeStep(t, hi, s).at \in Nat
             /\ s \in D => CodeStep(t, hi, s) \in D
             /\ s \notin D => CodeStep(t, hi, s) \in D \/ CodeStep(t, hi, s).at > s.at
  <2> DEFINE r == CodeStep(t, hi, s)
  <2>1. /\ CodesInv(t, lo, hi, r)
        /\ s.error # "OK" \/ s.at = hi + 1 => r.error # "OK" \/ r.at = hi + 1
        /\ s.error = "OK" /\ s.at <= hi => r.error # "OK" \/ r.at = hi + 1 \/ r.at > s.at
    BY CodeStepKeeps
  <2> HIDE DEF r
  <2>2. r \in Readings /\ r.at \in lo..hi+1 /\ s.at \in lo..hi+1
    BY <2>1 DEF CodesInv
  <2>3. r \in S
    BY <2>1, <2>2
  <2>4. s.at \in Nat /\ s.at <= hi + 1 /\ r.at \in Nat /\ (s.at # hi + 1 => s.at <= hi)
    BY <1>1, <2>2
  <2>5. s \in D => r \in D
    BY <2>1, <2>3
  <2>6. s \notin D => r \in D \/ r.at > s.at
    BY <2>1, <2>3, <2>4
  <2> QED BY <2>3, <2>4, <2>5, <2>6 DEF r
<1>4. f \in [S -> S] /\ \A s \in S : f[s] = CodeStep(t, hi, s)
  BY <1>3
<1>5. D \in SUBSET S /\ \A s \in S : s.at = hi + 1 => s \in D
  OBVIOUS
<1>6. \A s \in D : s.error = "OK" => s.at = hi + 1
  OBVIOUS
<1>7. \A s \in S : CodesInv(t, lo, hi, s)
  OBVIOUS
<1>8. VcpSection(t, lo, hi, s0) = loop[N]
  BY DEF VcpSection
<1> HIDE DEF S, D, f, a, N
<1>9. Loop(loop)
  <2>1. PICK w \in [0..N -> S] : w[0] = a /\ \A n \in 1..N : w[n] = f[w[n-1]]
    <3>1. f \in [S -> S] /\ a \in S /\ N \in Nat
      BY <1>1, <1>2, <1>4
    <3>2. PICK w : IsRun(w, S, f, a, N)
      BY <3>1, LoopRuns
    <3> QED BY <3>2 DEF IsRun
  <2>2. ASSUME NEW n \in 0..N
        PROVE w[n] = IF n = 0 THEN a ELSE CodeStep(t, hi, w[n-1])
    <3>1. CASE n = 0
      BY <2>1, <3>1
    <3>2. CASE n # 0
      <4>1. n \in 1..N /\ n - 1 \in 0..N
        BY <1>1, <3>2
      <4>2. w[n-1] \in S /\ w[n] = f[w[n-1]]
        BY <2>1, <4>1
      <4> QED BY <1>4, <3>2, <4>2
    <3> QED BY <3>1, <3>2
  <2>3. Loop(w)
    <3>1. w = [n \in 0..N |-> w[n]]
      BY <2>1
    <3> QED BY <2>2, <3>1
  <2> QED BY <2>3
<1> HIDE DEF loop
<1>10. loop[0] = a
  BY <1>1, <1>9
<1>11. ASSUME NEW n \in 1..N, loop[n-1] \in S PROVE loop[n] = f[loop[n-1]]
  <2>1. n \in 0..N /\ n # 0
    BY <1>1
  <2>2. loop[n] = CodeStep(t, hi, loop[n-1])
    BY <1>9, <2>1
  <2> QED BY <1>4, <1>11, <2>2
<1>12. hi + 1 <= a.at + N
  BY <1>1, <1>2 DEF N
<1>13. loop[N] \in D
  <2>1. \A s \in S : s.at \in Nat /\ s.at <= hi + 1 /\ (s.at = hi + 1 => s \in D)
    BY <1>3, <1>5
  <2>2. \A s \in D : f[s] \in D
    BY <1>3, <1>4, <1>5
  <2>3. \A s \in S \ D : f[s] \in D \/ f[s].at > s.at
    BY <1>3, <1>4
  <2>4. \A n \in 1..N : loop[n-1] \in S => loop[n] = f[loop[n-1]]
    BY <1>11
  <2>5. f \in [S -> S] /\ a \in S /\ N \in Nat /\ hi \in Nat /\ D \in SUBSET S
    BY <1>1, <1>2, <1>4, <1>5
  <2> QED BY <1>10, <1>12, <2>1, <2>2, <2>3, <2>4, <2>5, LoopEnds
<1>14. loop[N] \in S /\ (loop[N].error = "OK" => loop[N].at = hi + 1)
  BY <1>5, <1>6, <1>13
<1>15. CodesInv(t, lo, hi, loop[N])
  BY <1>7, <1>14
<1>16. loop[N].error = "OK" => Sound(t, hi + 1, loop[N])
  BY <1>14, <1>15 DEF CodesInv
<1> QED BY <1>8, <1>15, <1>16
-----------------------------------------------------------------------------
(* The sections: parse_top_level_sections.                                 *)

LEMMA LastSolidIs ==
  ASSUME NEW t, NEW i \in Nat
  PROVE  \/ LastSolid(t, i) = 0 /\ \A j \in 1..i-1 : t[j] \in Spaces
         \/ /\ LastSolid(t, i) \in 1..i-1 /\ t[LastSolid(t, i)] \notin Spaces
            /\ \A j \in LastSolid(t, i)+1..i-1 : t[j] \in Spaces
<1> DEFINE S == {j \in 1..i-1 : t[j] \notin Spaces}
           k == LastSolid(t, i)
<1>1. k = IF S = {} THEN 0 ELSE CHOOSE j \in S : \A x \in S : x <= j
  BY DEF LastSolid
<1>2. CASE S = {}
  BY <1>1, <1>2
<1>3. CASE S # {}
  <2> DEFINE T == {x \in Nat : \E j \in S : x = i - j}
             m == Least(T)
  <2>1. \A j \in S : i - j \in T
    OBVIOUS
  <2>2. T \in SUBSET Nat /\ T # {}
    BY <1>3, <2>1
  <2>3. m \in T /\ \A x \in T : m <= x
    <3> HIDE DEF T
    <3> QED BY <2>2, LeastIsLeast
  <2>4. PICK g \in S : m = i - g
    BY <2>3
  <2> HIDE DEF m, T
  <2>5. ASSUME NEW j \in S PROVE j <= g
    <3>1. m <= i - j /\ i \in Nat /\ j \in Nat /\ g \in Nat
      BY <2>1, <2>3
    <3> QED BY <2>4, <3>1
  <2>6. \E y \in S : \A x \in S : x <= y
    BY <2>5
  <2>7. k \in S /\ \A x \in S : x <= k
    <3> HIDE DEF S, k
    <3> QED BY <1>1, <1>3, <2>6
  <2> HIDE DEF k
  <2>8. \A j \in k+1..i-1 : t[j] \in Spaces
    <3> SUFFICES ASSUME NEW j \in k+1..i-1, t[j] \notin Spaces PROVE FALSE
      OBVIOUS
    <3>1. k \in 1..i-1
      BY <2>7
    <3>2. j \in S /\ ~(j <= k)
      BY <3>1
    <3> QED BY <2>7, <3>2
  <2> QED BY <2>7, <2>8 DEF k
<1> QED BY <1>2, <1>3

Named(t, i) ==
  /\ t[i] \in Spaces \cup IdentifierChar \cup {"(", ")"}
  /\ t[i] = "(" => IsAt(t, LastSolid(t, i), IdentifierChar)
  /\ t[i] \in IdentifierChar =>
       /\ IsAt(t, i - 1, IdentifierChar) \/ t[i] \in IdentifierStart
       /\ IsAt(t, i + 1, IdentifierChar) \/ IsAt(t, NextSolid(t, i), {"("})

LEMMA GoodIsNamed ==
  ASSUME NEW t, NEW i \in Positions(t, 0), ~Named(t, i)
  PROVE  ~Good(t)
  BY DEF Named, Good, SectionsAreNamed

Framed(t, lo, hi) ==
  /\ Text(t)
  /\ lo \in Nat \ {0} /\ hi \in Nat /\ lo <= hi + 1 /\ hi <= Len(t)
  /\ Top(t) = lo..hi
  /\ Depth(t)[lo-1] = Base(t)
  /\ \A j \in lo-1..hi : Depth(t)[j] >= Base(t)
  /\ \A j \in 1..lo-1 : t[j] \in Spaces \cup {"("}
  /\ \A j \in hi+1..Len(t) : t[j] \in Spaces \/ (t[j] = ")" /\ Depth(t)[j] < Base(t))

AtSection(t, lo, hi, p) ==
  /\ p \in lo..hi+1 /\ Depth(t)[p-1] = Base(t)
  /\ p \in {lo, hi+1} \/ t[p-1] = ")"
  /\ \A i \in Positions(t, 0) : i < p => Named(t, i)

(* A section begins at i, its name ends before n, o is its parenthesis.    *)
NextSection(t, hi, p, i, n, o) ==
  /\ i \in p..hi /\ (\A j \in p..i-1 : t[j] \in Spaces) /\ t[i] \notin Spaces
  /\ n = Past(t, i, hi, IdentifierChar) /\ o = Past(t, n, hi, Spaces)

(* Where sections stand.                                                   *)
LEMMA SectionPlace ==
  ASSUME NEW t, NEW lo, NEW hi, Framed(t, lo, hi), NEW i \in lo..hi
  PROVE  /\ i \in 1..Len(t) /\ i \in Nat /\ Len(t) \in Nat /\ Base(t) \in 0..1
         /\ i \in Positions(t, 0) <=> Level(t, i) = 0
         /\ t[i] = "(" => Level(t, i) = Depth(t)[i-1] - Base(t)
         /\ t[i] # "(" => Level(t, i) = Depth(t)[i] - Base(t)
         /\ Depth(t)[i] \in Nat /\ Depth(t)[i-1] \in Nat
<1>1. Whole(t) /\ lo \in Nat \ {0} /\ hi \in Nat /\ hi <= Len(t) /\ Top(t) = lo..hi
  BY DEF Framed, Text
<1>2. Len(t) \in Nat
  BY <1>1, Depths
<1>3. i \in 1..Len(t) /\ i \in Nat
  BY <1>1, <1>2
<1>4. i \in Positions(t, 0) <=> Level(t, i) = 0
  BY <1>1 DEF Positions
<1> QED BY <1>1, <1>2, <1>3, <1>4, Levels, Depths

(* The parenthesis of a section closes where sections stand.               *)
LEMMA SectionCloses ==
  ASSUME NEW t, NEW lo, NEW hi, Framed(t, lo, hi), NEW u \in lo..hi, t[u] = "(",
         Depth(t)[u-1] = Base(t)
  PROVE  /\ Closing(t, u) \in u+1..hi /\ t[Closing(t, u)] = ")"
         /\ Depth(t)[u] = Base(t) + 1 /\ Depth(t)[Closing(t, u)] = Base(t)
         /\ Depth(t)[Closing(t, u) - 1] = Base(t) + 1
         /\ \A j \in u..Closing(t, u)-1 : Depth(t)[j] >= Base(t) + 1
<1> DEFINE c == Closing(t, u)
<1>1. /\ Whole(t) /\ lo \in Nat \ {0} /\ hi \in Nat /\ hi <= Len(t)
      /\ \A j \in hi+1..Len(t) : t[j] \in Spaces \/ (t[j] = ")" /\ Depth(t)[j] < Base(t))
  BY DEF Framed, Text
<1>2. u \in 1..Len(t) /\ Len(t) \in Nat /\ Base(t) \in 0..1
  BY SectionPlace
<1>3. /\ c \in u+1..Len(t) /\ t[c] = ")"
      /\ Depth(t)[u] = Base(t) + 1 /\ Depth(t)[c] = Base(t)
      /\ Depth(t)[c - 1] = Base(t) + 1
      /\ \A j \in u..c-1 : Depth(t)[j] >= Base(t) + 1
  BY <1>1, <1>2, Enclosed
<1> HIDE DEF c
<1>4. c <= hi
  <2>1. ~(c <= hi) => c \in hi+1..Len(t)
    BY <1>1, <1>2, <1>3
  <2> QED BY <1>1, <1>2, <1>3, <2>1, Letters
<1>5. c \in u+1..hi
  BY <1>1, <1>2, <1>3, <1>4
<1> QED BY <1>3, <1>5 DEF c

LEMMA SectionBegins ==
  ASSUME NEW t, NEW lo, NEW hi, Framed(t, lo, hi), NEW p, AtSection(t, lo, hi, p),
         NEW i, NEW n, NEW o, NextSection(t, hi, p, i, n, o)
  PROVE  /\ p \in Nat /\ p \in lo..hi /\ i \in p..hi /\ n \in i..hi+1 /\ o \in n..hi+1
         /\ i \in Nat /\ n \in Nat /\ o \in Nat /\ hi \in Nat /\ lo \in Nat
         /\ \A j \in p..i-1 : t[j] \in Spaces
         /\ t[i] \notin Spaces
         /\ \A j \in i..n-1 : t[j] \in IdentifierChar
         /\ n <= hi => t[n] \notin IdentifierChar
         /\ \A j \in n..o-1 : t[j] \in Spaces
         /\ o <= hi => t[o] \notin Spaces
         /\ \A j \in p-1..o-1 : Depth(t)[j] = Base(t)
         /\ \A j \in p..o-1 : j \in Positions(t, 0) /\ t[j] # "(" /\ t[j] # ")"
         /\ ~IsAt(t, i - 1, IdentifierChar)
<1>1. /\ Whole(t) /\ lo \in Nat \ {0} /\ hi \in Nat /\ hi <= Len(t)
      /\ \A j \in 1..lo-1 : t[j] \in Spaces \cup {"("}
  BY DEF Framed, Text
<1>2. /\ p \in lo..hi+1 /\ Depth(t)[p-1] = Base(t)
      /\ p \in {lo, hi+1} \/ t[p-1] = ")"
  BY DEF AtSection
<1>3. /\ i \in p..hi /\ (\A j \in p..i-1 : t[j] \in Spaces) /\ t[i] \notin Spaces
      /\ n = Past(t, i, hi, IdentifierChar) /\ o = Past(t, n, hi, Spaces)
  BY DEF NextSection
<1>4. Len(t) \in Nat /\ p \in Nat /\ i \in Nat /\ p \in lo..hi /\ i \in lo..hi /\ p \in 1..Len(t)
      /\ i <= hi + 1 /\ lo \in Nat
  BY <1>1, <1>2, <1>3, Depths
<1>5. /\ n \in i..hi+1 /\ \A j \in i..n-1 : t[j] \in IdentifierChar
      /\ n <= hi => t[n] \notin IdentifierChar
  BY <1>1, <1>3, <1>4, PastIs
<1>6. n \in Nat /\ n <= hi + 1
  BY <1>1, <1>4, <1>5
<1>7. /\ o \in n..hi+1 /\ \A j \in n..o-1 : t[j] \in Spaces
      /\ o <= hi => t[o] \notin Spaces
  BY <1>1, <1>3, <1>6, PastIs
<1>8. o \in Nat /\ o - 1 \in p-1..Len(t)
  BY <1>1, <1>3, <1>4, <1>5, <1>6, <1>7
<1>9. ASSUME NEW j \in p..o-1 PROVE t[j] # "(" /\ t[j] # ")"
  <2>1. j \in p..i-1 \/ j \in i..n-1 \/ j \in n..o-1
    BY <1>3, <1>4, <1>5, <1>6, <1>7, <1>8
  <2> QED BY <1>3, <1>5, <1>7, <2>1, Letters
<1>10. \A j \in p-1..o-1 : Depth(t)[j] = Base(t)
  BY <1>1, <1>2, <1>4, <1>8, <1>9, Flat
<1>11. ASSUME NEW j \in p..o-1 PROVE j \in Positions(t, 0)
  <2>1. j \in lo..hi /\ j \in p-1..o-1
    BY <1>1, <1>2, <1>4, <1>7, <1>8
  <2>2. Depth(t)[j] = Base(t) /\ t[j] # "("
    BY <1>9, <1>10, <2>1
  <2>3. Level(t, j) = Depth(t)[j] - Base(t) /\ Depth(t)[j] \in Nat
    BY <2>1, <2>2, SectionPlace
  <2>4. Level(t, j) = 0
    BY <2>2, <2>3
  <2> QED BY <2>1, <2>4, SectionPlace
<1>12. ~IsAt(t, i - 1, IdentifierChar)
  <2> SUFFICES ASSUME i - 1 \in 1..Len(t), t[i-1] \in IdentifierChar PROVE FALSE
    BY DEF IsAt
  <2>1. CASE i = p
    <3>1. CASE p = lo
      <4>1. i - 1 \in 1..lo-1
        BY <1>4, <2>1, <3>1
      <4> QED BY <1>1, <4>1, Letters
    <3>2. CASE p # lo
      <4>1. t[p-1] = ")"
        BY <1>2, <1>4, <1>1, <3>2
      <4> QED BY <2>1, <4>1, Letters
    <3> QED BY <3>1, <3>2
  <2>2. CASE i # p
    <3>1. i - 1 \in p..i-1
      BY <1>3, <1>4, <2>2
    <3> QED BY <1>3, <3>1, Letters
  <2> QED BY <2>1, <2>2
<1> QED BY <1>1, <1>3, <1>4, <1>5, <1>6, <1>7, <1>8, <1>9, <1>10, <1>11, <1>12

(* Where the name of a section and its parenthesis are not, the grammar    *)
(* has no section.                                                         *)
LEMMA SectionMustBeNamed ==
  ASSUME NEW t, NEW lo, NEW hi, Framed(t, lo, hi), NEW p, AtSection(t, lo, hi, p),
         NEW i, NEW n, NEW o, NextSection(t, hi, p, i, n, o),
         t[i] \notin IdentifierStart \/ ~Opens(t, o, hi)
  PROVE  ~Good(t)
<1>1. /\ p \in Nat /\ p \in lo..hi /\ i \in p..hi /\ n \in i..hi+1 /\ o \in n..hi+1
      /\ i \in Nat /\ n \in Nat /\ o \in Nat /\ hi \in Nat /\ lo \in Nat
      /\ \A j \in p..i-1 : t[j] \in Spaces
      /\ t[i] \notin Spaces
      /\ \A j \in i..n-1 : t[j] \in IdentifierChar
      /\ n <= hi => t[n] \notin IdentifierChar
      /\ \A j \in n..o-1 : t[j] \in Spaces
      /\ o <= hi => t[o] \notin Spaces
      /\ \A j \in p-1..o-1 : Depth(t)[j] = Base(t)
      /\ \A j \in p..o-1 : j \in Positions(t, 0) /\ t[j] # "(" /\ t[j] # ")"
      /\ ~IsAt(t, i - 1, IdentifierChar)
  BY SectionBegins
<1>2. /\ Whole(t) /\ hi <= Len(t)
      /\ \A j \in lo-1..hi : Depth(t)[j] >= Base(t)
      /\ \A j \in 1..lo-1 : t[j] \in Spaces \cup {"("}
      /\ \A j \in hi+1..Len(t) : t[j] \in Spaces \/ (t[j] = ")" /\ Depth(t)[j] < Base(t))
  BY DEF Framed, Text
<1>3. i \in lo..hi /\ i - 1 \in p-1..o-1 /\ i \in lo-1..hi
  BY <1>1
<1>4. i \in 1..Len(t) /\ Len(t) \in Nat /\ Base(t) \in 0..1 /\ Depth(t)[i-1] = Base(t)
  BY <1>1, <1>3, SectionPlace
<1>5. CASE t[i] = "("
  <2> DEFINE k == LastSolid(t, i)
  <2>1. \/ k = 0
        \/ /\ k \in 1..i-1 /\ t[k] \notin Spaces
           /\ \A j \in k+1..i-1 : t[j] \in Spaces
    BY <1>1, LastSolidIs
  <2> HIDE DEF k
  <2>2. ~IsAt(t, k, IdentifierChar)
    <3> SUFFICES ASSUME k \in 1..Len(t), t[k] \in IdentifierChar PROVE FALSE
      BY DEF IsAt
    <3>1. k \in 1..i-1 /\ t[k] \notin Spaces /\ \A j \in k+1..i-1 : t[j] \in Spaces
      BY <2>1
    <3>2. k <= p - 1
      <4>1. k >= p => k \in p..i-1
        BY <1>1, <3>1
      <4> QED BY <1>1, <3>1, <4>1
    <3>3. CASE p = lo
      <4>1. k \in 1..lo-1
        BY <1>1, <3>1, <3>2, <3>3
      <4> QED BY <1>2, <4>1, Letters
    <3>4. CASE p # lo
      <4>1. t[p-1] = ")"
        BY <1>1, <3>4 DEF AtSection
      <4>2. k = p - 1
        <5>1. k < p - 1 => p - 1 \in k+1..i-1
          BY <1>1, <3>1
        <5> QED BY <1>1, <3>1, <3>2, <4>1, <5>1, Letters
      <4> QED BY <4>1, <4>2, Letters
    <3> QED BY <3>3, <3>4
  <2>3. Level(t, i) = 0
    BY <1>3, <1>4, <1>5, SectionPlace
  <2>4. i \in Positions(t, 0)
    BY <1>3, <2>3, SectionPlace
  <2>5. ~Named(t, i)
    BY <1>5, <2>2 DEF Named, k
  <2> QED BY <2>4, <2>5, GoodIsNamed
<1>6. CASE t[i] = ")"
  <2>1. Depth(t)[i] = Depth(t)[i-1] - 1 /\ Depth(t)[i] >= Base(t)
    BY <1>2, <1>3, <1>4, <1>6, Depths
  <2> QED BY <1>4, <2>1
<1>7. CASE t[i] # "(" /\ t[i] # ")" /\ t[i] \notin IdentifierStart
  <2>1. Depth(t)[i] = Base(t)
    BY <1>2, <1>4, <1>7, Depths
  <2>2. Level(t, i) = 0
    <3>1. Level(t, i) = Depth(t)[i] - Base(t)
      BY <1>3, <1>7, SectionPlace
    <3> QED BY <1>4, <2>1, <3>1
  <2>3. i \in Positions(t, 0)
    BY <1>3, <2>2, SectionPlace
  <2>4. ~Named(t, i)
    BY <1>1, <1>7 DEF Named
  <2> QED BY <2>3, <2>4, GoodIsNamed
<1>8. CASE t[i] \in IdentifierStart /\ ~Opens(t, o, hi)
  <2> DEFINE k == n - 1
  <2>1. t[i] \in IdentifierChar
    BY <1>8, Letters
  <2>2. n # i
    BY <1>1, <2>1
  <2>3. k \in i..n-1 /\ k \in p..o-1 /\ k + 1 = n
    BY <1>1, <2>2
  <2>4. ~IsAt(t, k + 1, IdentifierChar)
    <3> SUFFICES ASSUME n \in 1..Len(t), t[n] \in IdentifierChar PROVE FALSE
      BY <2>3 DEF IsAt
    <3>1. n \in hi+1..Len(t)
      BY <1>1
    <3> QED BY <1>2, <3>1, Letters
  <2> DEFINE m == NextSolid(t, k)
  <2>5. /\ m \in n..Len(t)+1 /\ \A j \in n..m-1 : t[j] \in Spaces
        /\ m <= Len(t) => t[m] \notin Spaces
    <3>1. m = Past(t, n, Len(t), Spaces)
      BY <2>3 DEF NextSolid
    <3>2. n <= Len(t) + 1
      BY <1>1, <1>2, <1>4
    <3> HIDE DEF m
    <3> QED BY <1>1, <1>4, <3>1, <3>2, PastIs
  <2> HIDE DEF m, k
  <2>6. ~IsAt(t, m, {"("})
    <3> SUFFICES ASSUME m \in 1..Len(t), t[m] = "(" PROVE FALSE
      BY DEF IsAt
    <3>1. m <= hi
      <4>1. m > hi => m \in hi+1..Len(t)
        BY <1>1
      <4> QED BY <1>1, <1>2, <4>1, Letters
    <3>2. m = o
      <4>1. o < m => o \in n..m-1 /\ o <= hi
        BY <1>1, <2>5, <3>1
      <4>2. m < o => m \in n..o-1
        BY <1>1, <2>5
      <4> QED BY <1>1, <2>5, <4>1, <4>2, Letters
    <3> QED BY <1>8, <3>1, <3>2 DEF Opens
  <2>7. ~Named(t, k)
    <3>1. t[k] \in IdentifierChar
      BY <1>1, <2>3
    <3> QED BY <2>4, <2>6, <3>1 DEF Named, m
  <2>8. k \in Positions(t, 0)
    BY <1>1, <2>3
  <2> QED BY <2>7, <2>8, GoodIsNamed
<1> QED BY <1>5, <1>6, <1>7, <1>8

(* A section that is there: everything up to its end is named.             *)
LEMMA SectionIsNamed ==
  ASSUME NEW t, NEW lo, NEW hi, Framed(t, lo, hi), NEW p, AtSection(t, lo, hi, p),
         NEW i, NEW n, NEW o, NextSection(t, hi, p, i, n, o),
         t[i] \in IdentifierStart, Opens(t, o, hi), NEW c, c = Closing(t, o)
  PROVE  /\ n \in i+1..hi /\ o \in lo..hi /\ o \in Positions(t, 0) /\ t[o] = "("
         /\ c \in o+1..hi /\ t[c] = ")"
         /\ Depth(t)[o] = Base(t) + 1 /\ Depth(t)[c] = Base(t)
         /\ Depth(t)[c - 1] = Base(t) + 1
         /\ \A j \in o..c-1 : Depth(t)[j] >= Base(t) + 1
         /\ LastSolid(t, o) = n - 1
         /\ c + 1 \in p+1..hi+1
         /\ AtSection(t, lo, hi, c + 1)
<1>1. /\ p \in Nat /\ p \in lo..hi /\ i \in p..hi /\ n \in i..hi+1 /\ o \in n..hi+1
      /\ i \in Nat /\ n \in Nat /\ o \in Nat /\ hi \in Nat /\ lo \in Nat
      /\ \A j \in p..i-1 : t[j] \in Spaces
      /\ \A j \in i..n-1 : t[j] \in IdentifierChar
      /\ n <= hi => t[n] \notin IdentifierChar
      /\ \A j \in n..o-1 : t[j] \in Spaces
      /\ o <= hi => t[o] \notin Spaces
      /\ \A j \in p-1..o-1 : Depth(t)[j] = Base(t)
      /\ \A j \in p..o-1 : j \in Positions(t, 0) /\ t[j] # "(" /\ t[j] # ")"
  BY SectionBegins
<1>2. /\ Whole(t) /\ lo \in Nat \ {0} /\ hi <= Len(t) /\ Top(t) = lo..hi
  BY DEF Framed, Text
<1>3. o <= hi /\ t[o] = "("
  BY DEF Opens
<1>4. n # i
  <2>1. n = i => t[i] \notin IdentifierChar
    BY <1>1, <1>3
  <2> QED BY <2>1, Letters
<1>5. n \in i+1..hi /\ o \in lo..hi /\ o - 1 \in p-1..o-1
  BY <1>1, <1>3, <1>4
<1>6. Depth(t)[o-1] = Base(t)
  BY <1>1, <1>5
<1>7. /\ c \in o+1..hi /\ t[c] = ")"
      /\ Depth(t)[o] = Base(t) + 1 /\ Depth(t)[c] = Base(t)
      /\ Depth(t)[c - 1] = Base(t) + 1
      /\ \A j \in o..c-1 : Depth(t)[j] >= Base(t) + 1
  BY <1>3, <1>5, <1>6, SectionCloses
<1>8. c \in Nat /\ c + 1 \in p+1..hi+1 /\ (c + 1) - 1 = c /\ c + 1 \in lo..hi+1
  BY <1>1, <1>7
<1>9. Len(t) \in Nat /\ Base(t) \in 0..1 /\ o \in 1..Len(t)
  BY <1>5, SectionPlace
<1>10. o \in Positions(t, 0)
  <2>1. Level(t, o) = 0
    <3>1. Level(t, o) = Depth(t)[o-1] - Base(t)
      BY <1>3, <1>5, SectionPlace
    <3> QED BY <1>6, <1>9, <3>1
  <2> QED BY <1>5, <2>1, SectionPlace
<1>11. LastSolid(t, o) = n - 1
  <2> DEFINE k == LastSolid(t, o)
  <2>1. \/ k = 0 /\ \A j \in 1..o-1 : t[j] \in Spaces
        \/ /\ k \in 1..o-1 /\ t[k] \notin Spaces
           /\ \A j \in k+1..o-1 : t[j] \in Spaces
    BY <1>1, LastSolidIs
  <2> HIDE DEF k
  <2>2. n - 1 \in 1..o-1 /\ t[n-1] \notin Spaces
    <3>1. n - 1 \in i..n-1
      BY <1>1, <1>5
    <3>2. n - 1 \in 1..o-1
      BY <1>1, <1>2, <1>5
    <3> QED BY <1>1, <3>1, <3>2, Letters
  <2>3. k \in 1..o-1 /\ t[k] \notin Spaces /\ \A j \in k+1..o-1 : t[j] \in Spaces
    BY <2>1, <2>2
  <2>4. ~(k < n - 1)
    <3>1. k < n - 1 => n - 1 \in k+1..o-1
      BY <1>1, <2>2, <2>3
    <3> QED BY <2>2, <2>3, <3>1
  <2>5. ~(k > n - 1)
    <3>1. k > n - 1 => k \in n..o-1
      BY <1>1, <2>3
    <3> QED BY <1>1, <2>3, <3>1
  <2>6. k = n - 1
    BY <1>1, <2>3, <2>4, <2>5
  <2> QED BY <2>6 DEF k
<1>12. ASSUME NEW j \in Positions(t, 0), j < c + 1 PROVE Named(t, j)
  <2>1. j \in lo..hi /\ Level(t, j) = 0
    BY <1>2 DEF Positions
  <2>2. CASE j < p
    BY <2>2 DEF AtSection
  <2>3. CASE j \in p..i-1 \/ j \in n..o-1
    <3>1. t[j] \in Spaces
      BY <1>1, <2>3
    <3> QED BY <3>1, Letters DEF Named
  <2>4. CASE j \in i..n-1
    <3>1. t[j] \in IdentifierChar
      BY <1>1, <2>4
    <3>2. IsAt(t, j - 1, IdentifierChar) \/ t[j] \in IdentifierStart
      <4>1. CASE j = i
        BY <4>1
      <4>2. CASE j # i
        <5>1. j - 1 \in i..n-1 /\ j - 1 \in 1..Len(t)
          BY <1>1, <1>2, <1>5, <1>9, <2>4, <4>2
        <5> QED BY <1>1, <5>1 DEF IsAt
      <4> QED BY <4>1, <4>2
    <3>3. IsAt(t, j + 1, IdentifierChar) \/ IsAt(t, NextSolid(t, j), {"("})
      <4>1. CASE j = n - 1
        <5> DEFINE m == NextSolid(t, j)
        <5>1. /\ m \in n..Len(t)+1 /\ \A x \in n..m-1 : t[x] \in Spaces
              /\ m <= Len(t) => t[m] \notin Spaces
          <6>1. j + 1 = n
            BY <1>1, <4>1
          <6>2. m = Past(t, n, Len(t), Spaces)
            BY <6>1 DEF NextSolid
          <6>3. n <= Len(t) + 1
            BY <1>1, <1>2, <1>5, <1>9
          <6> HIDE DEF m
          <6> QED BY <1>1, <1>9, <6>2, <6>3, PastIs
        <5> HIDE DEF m
        <5>2. m = o
          <6>1. m < o => m \in n..o-1 /\ m <= Len(t)
            BY <1>1, <1>9, <5>1
          <6>2. o < m => o \in n..m-1
            BY <1>1, <5>1
          <6>3. ~(m < o)
            BY <1>1, <5>1, <6>1
          <6>4. ~(o < m)
            BY <1>3, <5>1, <6>2, Letters
          <6> QED BY <1>1, <1>9, <5>1, <6>3, <6>4
        <5> QED BY <1>3, <1>9, <5>2 DEF IsAt, m
      <4>2. CASE j # n - 1
        <5>1. j + 1 \in i..n-1 /\ j + 1 \in 1..Len(t)
          BY <1>1, <1>2, <1>5, <1>9, <2>4, <4>2
        <5> QED BY <1>1, <5>1 DEF IsAt
      <4> QED BY <4>1, <4>2
    <3> QED BY <3>1, <3>2, <3>3, Letters DEF Named
  <2>5. CASE j = o
    <3>1. IsAt(t, n - 1, IdentifierChar)
      <4>1. n - 1 \in i..n-1 /\ n - 1 \in 1..Len(t)
        BY <1>1, <1>2, <1>5, <1>9
      <4> QED BY <1>1, <4>1 DEF IsAt
    <3> QED BY <1>3, <1>11, <2>5, <3>1, Letters DEF Named
  <2>6. CASE j \in o+1..c-1
    <3>1. j \in o..c-1 /\ j - 1 \in o..c-1
      BY <1>1, <1>8, <2>6
    <3>2. Depth(t)[j] >= Base(t) + 1 /\ Depth(t)[j-1] >= Base(t) + 1
      BY <1>7, <3>1
    <3>3. Depth(t)[j] \in Nat /\ Depth(t)[j-1] \in Nat
      BY <2>1, SectionPlace
    <3>4. Level(t, j) # 0
      <4>1. CASE t[j] = "("
        <5>1. Level(t, j) = Depth(t)[j-1] - Base(t)
          BY <2>1, <4>1, SectionPlace
        <5> QED BY <1>9, <3>2, <3>3, <5>1
      <4>2. CASE t[j] # "("
        <5>1. Level(t, j) = Depth(t)[j] - Base(t)
          BY <2>1, <4>2, SectionPlace
        <5> QED BY <1>9, <3>2, <3>3, <5>1
      <4> QED BY <4>1, <4>2
    <3> QED BY <2>1, <3>4
  <2>7. CASE j = c
    BY <1>7, <2>7, Letters DEF Named
  <2>8. \/ j < p \/ j \in p..i-1 \/ j \in i..n-1 \/ j \in n..o-1 \/ j = o
        \/ j \in o+1..c-1 \/ j = c
    BY <1>1, <1>5, <1>8, <1>12, <2>1
  <2> QED BY <2>2, <2>3, <2>4, <2>5, <2>6, <2>7, <2>8
<1>13. AtSection(t, lo, hi, c + 1)
  BY <1>7, <1>8, <1>12 DEF AtSection
<1> QED BY <1>3, <1>5, <1>7, <1>8, <1>10, <1>11, <1>13

(* Which of its positions are positions of a vcp section.                  *)
LEMMA VcpOfSection ==
  ASSUME NEW t, NEW lo, NEW hi, Framed(t, lo, hi), NEW p, AtSection(t, lo, hi, p),
         NEW i, NEW n, NEW o, NextSection(t, hi, p, i, n, o),
         t[i] \in IdentifierStart, Opens(t, o, hi), NEW c, c = Closing(t, o),
         NEW x \in p..c
  PROVE  x \in VcpPositions(t) <=> (n = i + 1 /\ t[i] = "v") /\ x \in o+1..c-1
<1>1. /\ p \in Nat /\ p \in lo..hi /\ i \in p..hi /\ n \in i..hi+1 /\ o \in n..hi+1
      /\ i \in Nat /\ n \in Nat /\ o \in Nat /\ hi \in Nat /\ lo \in Nat
      /\ \A j \in i..n-1 : t[j] \in IdentifierChar
      /\ \A j \in p-1..o-1 : Depth(t)[j] = Base(t)
      /\ ~IsAt(t, i - 1, IdentifierChar)
  BY SectionBegins
<1>2. /\ n \in i+1..hi /\ o \in lo..hi /\ o \in Positions(t, 0) /\ t[o] = "("
      /\ c \in o+1..hi
      /\ \A j \in o..c-1 : Depth(t)[j] >= Base(t) + 1
      /\ LastSolid(t, o) = n - 1
  BY SectionIsNamed
<1>3. Top(t) = lo..hi
  BY DEF Framed
<1>4. i \in 1..Len(t) /\ Len(t) \in Nat /\ Base(t) \in 0..1
  <2>1. i \in lo..hi
    BY <1>1
  <2> QED BY <2>1, SectionPlace
<1>5. (n = i + 1 /\ t[i] = "v") <=>
        IsAt(t, LastSolid(t, o), {"v"}) /\ ~IsAt(t, LastSolid(t, o) - 1, IdentifierChar)
  <2>1. ASSUME n = i + 1, t[i] = "v"
        PROVE  IsAt(t, LastSolid(t, o), {"v"}) /\ ~IsAt(t, LastSolid(t, o) - 1, IdentifierChar)
    <3>1. LastSolid(t, o) = i
      BY <1>1, <1>2, <2>1
    <3>2. IsAt(t, i, {"v"})
      BY <1>4, <2>1 DEF IsAt
    <3> QED BY <1>1, <3>1, <3>2
  <2>2. ASSUME IsAt(t, n - 1, {"v"}), ~IsAt(t, (n - 1) - 1, IdentifierChar)
        PROVE  n = i + 1 /\ t[i] = "v"
    <3>1. n - 1 \in 1..Len(t) /\ t[n-1] = "v"
      BY <2>2 DEF IsAt
    <3>2. CASE n = i + 1
      <4>1. n - 1 = i
        BY <1>1, <3>2
      <4> QED BY <3>1, <3>2, <4>1
    <3>3. CASE n # i + 1
      <4>1. (n - 1) - 1 \in i..n-1 /\ (n - 1) - 1 \in 1..Len(t)
        BY <1>1, <1>2, <1>4, <3>1, <3>3
      <4> QED BY <1>1, <2>2, <4>1 DEF IsAt
    <3> QED BY <3>2, <3>3
  <2> QED BY <1>2, <2>1, <2>2
<1>6. \A y : y \in VcpPositions(t) <=>
        \E u \in Positions(t, 0) :
          /\ t[u] = "(" /\ IsAt(t, LastSolid(t, u), {"v"})
          /\ ~IsAt(t, LastSolid(t, u) - 1, IdentifierChar)
          /\ y \in u+1..Closing(t, u)-1
  BY DEF VcpPositions
<1>7. ASSUME NEW u \in Positions(t, 0), t[u] = "(", x \in u+1..Closing(t, u)-1
      PROVE  u = o
  <2> DEFINE d == Closing(t, u)
  <2>1. u \in lo..hi /\ Level(t, u) = 0
    BY <1>3 DEF Positions
  <2>2. Depth(t)[u-1] = Base(t)
    <3>1. Level(t, u) = Depth(t)[u-1] - Base(t) /\ Depth(t)[u-1] \in Nat
      BY <1>7, <2>1, SectionPlace
    <3> QED BY <1>4, <2>1, <3>1
  <2>3. d \in u+1..hi /\ \A j \in u..d-1 : Depth(t)[j] >= Base(t) + 1
    BY <1>7, <2>1, <2>2, SectionCloses
  <2> HIDE DEF d
  <2>4. x \in u+1..d-1
    BY <1>7 DEF d
  <2>5. u \in Nat /\ d \in Nat /\ c \in Nat /\ x \in Nat
    BY <1>1, <1>2, <2>1, <2>3
  <2>6. ~(u < o)
    <3> SUFFICES ASSUME u < o PROVE FALSE
      OBVIOUS
    <3>1. CASE x < o
      <4>1. x \in p-1..o-1 /\ x \in u..d-1
        BY <1>1, <2>4, <2>5, <3>1
      <4>2. Depth(t)[x] = Base(t) /\ Depth(t)[x] >= Base(t) + 1
        BY <1>1, <2>3, <4>1
      <4> QED BY <1>4, <4>2
    <3>2. CASE ~(x < o)
      <4>1. o - 1 \in p-1..o-1 /\ o - 1 \in u..d-1
        BY <1>1, <2>4, <2>5, <3>2
      <4>2. Depth(t)[o-1] = Base(t) /\ Depth(t)[o-1] >= Base(t) + 1
        BY <1>1, <2>3, <4>1
      <4> QED BY <1>4, <4>2
    <3> QED BY <3>1, <3>2
  <2>7. ~(u > o)
    <3> SUFFICES ASSUME u > o PROVE FALSE
      OBVIOUS
    <3>1. u - 1 \in o..c-1
      BY <1>1, <2>4, <2>5
    <3>2. Depth(t)[u-1] >= Base(t) + 1
      BY <1>2, <3>1
    <3> QED BY <1>4, <2>2, <3>2
  <2> QED BY <1>1, <2>5, <2>6, <2>7
<1>8. ASSUME x \in VcpPositions(t) PROVE (n = i + 1 /\ t[i] = "v") /\ x \in o+1..c-1
  <2>1. PICK u \in Positions(t, 0) :
          /\ t[u] = "(" /\ IsAt(t, LastSolid(t, u), {"v"})
          /\ ~IsAt(t, LastSolid(t, u) - 1, IdentifierChar)
          /\ x \in u+1..Closing(t, u)-1
    BY <1>6, <1>8
  <2>2. u = o
    BY <1>7, <2>1
  <2> QED BY <1>5, <2>1, <2>2
<1>9. ASSUME n = i + 1, t[i] = "v", x \in o+1..c-1 PROVE x \in VcpPositions(t)
  BY <1>2, <1>5, <1>6, <1>9
<1> QED BY <1>8, <1>9

SectionsInv(t, lo, hi, s) ==
  /\ s \in Readings /\ s.at \in lo..hi+1
  /\ s.error # "OK" => ~Good(t)
  /\ s.error = "OK" => Sound(t, s.at, s) /\ AtSection(t, lo, hi, s.at)

(* A vcp section is read as one.                                           *)
LEMMA VcpIsRead ==
  ASSUME NEW t, NEW lo, NEW hi, Framed(t, lo, hi), NEW p, AtSection(t, lo, hi, p),
         NEW i, NEW n, NEW o, NextSection(t, hi, p, i, n, o),
         t[i] = "v", n = i + 1, Opens(t, o, hi), NEW c, c = Closing(t, o),
         NEW s \in Readings, s.error = "OK", Sound(t, p, s),
         NEW r, r = VcpSection(t, o + 1, c - 1, s)
  PROVE  /\ r \in Readings /\ r.at \in lo..hi+1
         /\ r.error # "OK" => ~Good(t)
         /\ r.error = "OK" => Sound(t, c + 1, r)
<1>1. t[i] \in IdentifierStart
  BY Letters
<1>2. /\ p \in Nat /\ p \in lo..hi /\ i \in p..hi /\ n \in i..hi+1 /\ o \in n..hi+1
      /\ i \in Nat /\ n \in Nat /\ o \in Nat /\ hi \in Nat /\ lo \in Nat
  BY SectionBegins
<1>3. /\ o \in lo..hi /\ t[o] = "(" /\ c \in o+1..hi /\ t[c] = ")"
      /\ Depth(t)[o] = Base(t) + 1 /\ Depth(t)[c] = Base(t)
      /\ \A j \in o..c-1 : Depth(t)[j] >= Base(t) + 1
  BY <1>1, SectionIsNamed
<1>4. \A x \in p..c : x \in VcpPositions(t) <=> x \in o+1..c-1
  BY <1>1, VcpOfSection
<1>5. Text(t) /\ lo \in Nat \ {0} /\ hi <= Len(t)
  BY DEF Framed
<1>6. Len(t) \in Nat
  BY <1>3, SectionPlace
<1> DEFINE m == o + 1
           h == c - 1
<1>7. /\ m \in 2..Len(t) /\ h \in m-1..Len(t)-1 /\ m - 1 = o /\ h + 1 = c
      /\ m \in Nat /\ h \in Nat /\ c \in Nat /\ p <= m
  BY <1>2, <1>3, <1>5, <1>6
<1>8. InVcp(t, m, h)
  <2>1. \A j \in m-1..h : Depth(t)[j] >= Base(t) + 1
    BY <1>3, <1>7
  <2>2. \A j \in m..h : j \in VcpPositions(t)
    <3>1. \A j \in m..h : j \in p..c
      BY <1>2, <1>7
    <3> QED BY <1>4, <3>1
  <2> HIDE DEF m, h
  <2> QED BY <1>3, <1>5, <1>7, <2>1, <2>2 DEF InVcp
<1>9. Sound(t, m, s)
  <2>1. \A j \in p..m-1 : j \notin VcpPositions(t)
    <3>1. \A j \in p..m-1 : j \in p..c /\ j \notin o+1..c-1
      BY <1>2, <1>3, <1>7
    <3> QED BY <1>4, <3>1
  <2> HIDE DEF m, h
  <2> QED BY <1>2, <1>5, <1>7, <2>1, NothingBetween
<1>10. r = VcpSection(t, m, h, s)
  OBVIOUS
<1> HIDE DEF m, h
<1>11. CodesInv(t, m, h, r) /\ (r.error = "OK" => Sound(t, h + 1, r))
  BY <1>8, <1>9, <1>10, SectionIsRead
<1>12. r \in Readings /\ r.at \in m..h+1 /\ (r.error # "OK" => ~Good(t))
  BY <1>11 DEF CodesInv
<1>13. r.at \in lo..hi+1
  BY <1>2, <1>3, <1>7, <1>12
<1>14. ASSUME r.error = "OK" PROVE Sound(t, c + 1, r)
  <2>1. Sound(t, c, r)
    BY <1>7, <1>11, <1>14
  <2>2. c \notin VcpPositions(t)
    <3>1. c \in p..c /\ c \notin o+1..c-1
      BY <1>2, <1>3, <1>7
    <3> QED BY <1>4, <3>1
  <2> DEFINE q == c + 1
  <2>3. q \in Nat /\ c <= q /\ \A j \in c..q-1 : j = c
    BY <1>7
  <2> HIDE DEF q
  <2>4. Sound(t, q, r)
    <3>1. \A j \in c..q-1 : j \in VcpPositions(t) => WellPlaced(t, j) /\ t[j] \notin HexDigits
      BY <2>2, <2>3
    <3>2. Text(t) /\ c \in Nat /\ q \in Nat /\ c <= q
      BY <1>5, <1>7, <2>3
    <3> QED BY <2>1, <3>1, <3>2, NothingBetween
  <2> QED BY <2>4 DEF q
<1> QED BY <1>12, <1>13, <1>14

(* Another section is passed over.                                         *)
LEMMA OtherIsPassed ==
  ASSUME NEW t, NEW lo, NEW hi, Framed(t, lo, hi), NEW p, AtSection(t, lo, hi, p),
         NEW i, NEW n, NEW o, NextSection(t, hi, p, i, n, o),
         t[i] \in IdentifierStart, ~(n = i + 1 /\ t[i] = "v"), Opens(t, o, hi),
         NEW c, c = Closing(t, o), NEW s, Sound(t, p, s)
  PROVE  Sound(t, c + 1, s)
<1>1. p \in Nat /\ p \in lo..hi /\ o \in Nat
  BY SectionBegins
<1>2. c \in o+1..hi /\ c + 1 \in p+1..hi+1 /\ hi \in Nat
  BY SectionIsNamed DEF Framed
<1>3. \A x \in p..c : x \notin VcpPositions(t)
  BY VcpOfSection
<1>4. Text(t)
  BY DEF Framed
<1> DEFINE q == c + 1
<1>5. q \in Nat /\ p <= q /\ \A j \in p..q-1 : j \in p..c
  BY <1>1, <1>2
<1> HIDE DEF q
<1>6. Sound(t, q, s)
  BY <1>1, <1>3, <1>4, <1>5, NothingBetween
<1> QED BY <1>6 DEF q

LEMMA SectionStepKeeps ==
  ASSUME NEW t, NEW lo, NEW hi, Framed(t, lo, hi), NEW s, SectionsInv(t, lo, hi, s)
  PROVE  /\ SectionsInv(t, lo, hi, SectionStep(t, hi, s))
         /\ s.error # "OK" \/ s.at = hi + 1 => SectionStep(t, hi, s).error # "OK"
                                               \/ SectionStep(t, hi, s).at = hi + 1
         /\ s.error = "OK" /\ s.at <= hi =>
              \/ SectionStep(t, hi, s).error # "OK" \/ SectionStep(t, hi, s).at = hi + 1
              \/ SectionStep(t, hi, s).at > s.at
<1> DEFINE x == SectionStep(t, hi, s)
           p == s.at
           i == Past(t, p, hi, Spaces)
           n == Past(t, i, hi, IdentifierChar)
           o == Past(t, n, hi, Spaces)
           c == Closing(t, o)
           is_vcp == n = i + 1 /\ t[i] = "v"
           read == IF is_vcp THEN VcpSection(t, o + 1, c - 1, s) ELSE s
<1>1. Text(t) /\ lo \in Nat \ {0} /\ hi \in Nat /\ lo <= hi + 1 /\ hi <= Len(t)
  BY DEF Framed
<1>2. p \in lo..hi+1 /\ p \in Nat /\ p <= hi + 1 /\ Len(t) \in Nat /\ Whole(t)
  BY <1>1, Depths DEF SectionsInv, Text
<1>3. /\ i \in p..hi+1 /\ \A j \in p..i-1 : t[j] \in Spaces
      /\ i <= hi => t[i] \notin Spaces
  <2> HIDE DEF p
  <2> QED BY <1>1, <1>2, PastIs
<1>4. s \in Readings
  BY DEF SectionsInv
<1>5. x = IF s.error # "OK" THEN s
          ELSE IF i > hi THEN At(s, i)
          ELSE IF t[i] \notin IdentifierStart \/ ~Opens(t, o, hi) THEN Malformed(s)
          ELSE IF read.error # "OK" THEN read
          ELSE At(read, c + 1)
  BY DEF SectionStep, Leave
<1> HIDE DEF x, p, i
<1>6. CASE s.error # "OK"
  <2>1. x = s
    BY <1>5, <1>6
  <2> QED BY <1>6, <2>1 DEF x
<1>7. CASE s.error = "OK"
  <2>1. Sound(t, p, s) /\ AtSection(t, lo, hi, p)
    BY <1>7 DEF SectionsInv, p
  <2>2. ASSUME x \in Readings, x.error # "OK", x.at \in lo..hi+1, ~Good(t)
        PROVE  SectionsInv(t, lo, hi, x)
    BY <2>2 DEF SectionsInv
  <2>3. CASE i > hi
    <3>1. x = At(s, i) /\ i = hi + 1 /\ i \in Nat /\ p <= i
      BY <1>1, <1>2, <1>3, <1>5, <1>7, <2>3
    <3>2. /\ x \in Readings /\ x.at = i /\ x.error = "OK"
          /\ x.features = s.features /\ x.enum_values = s.enum_values
      BY <1>4, <1>7, <3>1, ReadingsChange
    <3>3. Sound(t, i, x)
      <4>1. \A j \in p..i-1 : j \in VcpPositions(t) => WellPlaced(t, j) /\ t[j] \notin HexDigits
        BY <1>3, Letters, SpaceIsWell
      <4> QED BY <1>1, <1>2, <2>1, <3>1, <3>2, <4>1, NothingBetween
    <3>4. AtSection(t, lo, hi, i)
      <4>1. Depth(t)[i-1] = Base(t)
        <5>1. CASE p = i
          BY <2>1, <5>1 DEF AtSection
        <5>2. CASE p # i
          <6>1. p \in 1..Len(t) /\ i - 1 \in p-1..Len(t) /\ i - 1 \in p-1..i-1
            BY <1>1, <1>2, <1>3, <3>1, <5>2
          <6>2. Depth(t)[i-1] = Depth(t)[p-1]
            BY <1>2, <1>3, <6>1, SpacesAreFlat
          <6> QED BY <2>1, <6>2 DEF AtSection
        <5> QED BY <5>1, <5>2
      <4>2. ASSUME NEW j \in Positions(t, 0), j < i PROVE Named(t, j)
        <5>1. j \in lo..hi
          BY DEF Positions, Framed
        <5>2. CASE j < p
          BY <2>1, <5>2 DEF AtSection
        <5>3. CASE ~(j < p)
          <6>1. j \in p..i-1
            BY <1>1, <1>2, <3>1, <4>2, <5>1, <5>3
          <6> QED BY <1>3, <6>1, Letters DEF Named
        <5> QED BY <5>2, <5>3
      <4>3. i \in lo..hi+1
        BY <1>1, <1>2, <3>1
      <4> QED BY <3>1, <4>1, <4>2, <4>3 DEF AtSection
    <3>5. x.at \in lo..hi+1 /\ x.at = hi + 1
      BY <1>1, <1>2, <3>1, <3>2
    <3>6. SectionsInv(t, lo, hi, x)
      BY <3>2, <3>3, <3>4, <3>5 DEF SectionsInv
    <3> QED BY <3>5, <3>6 DEF x
  <2>4. CASE ~(i > hi)
    <3> HIDE DEF n, o, c, read
    <3>1. NextSection(t, hi, p, i, n, o)
      BY <1>1, <1>2, <1>3, <2>4 DEF NextSection, n, o
    <3>2. CASE t[i] \notin IdentifierStart \/ ~Opens(t, o, hi)
      <4>1. x = Malformed(s)
        BY <1>5, <1>7, <2>4, <3>2
      <4>2. x \in Readings /\ x.error # "OK" /\ x.at = p
        BY <1>4, <4>1, ReadingsChange DEF Malformed, p
      <4>3. ~Good(t)
        BY <2>1, <3>1, <3>2, SectionMustBeNamed
      <4>4. SectionsInv(t, lo, hi, x)
        BY <1>2, <2>2, <4>2, <4>3
      <4> QED BY <4>2, <4>4 DEF x
    <3>3. CASE ~(t[i] \notin IdentifierStart \/ ~Opens(t, o, hi))
      <4>0. c = Closing(t, o)
        BY DEF c
      <4>1. /\ read \in Readings /\ read.at \in lo..hi+1
            /\ read.error # "OK" => ~Good(t)
            /\ read.error = "OK" => Sound(t, c + 1, read)
        <5>1. CASE is_vcp
          <6>1. read = VcpSection(t, o + 1, c - 1, s)
            BY <5>1 DEF read
          <6>2. t[i] = "v" /\ n = i + 1 /\ Opens(t, o, hi)
            BY <3>3, <5>1
          <6> HIDE DEF is_vcp
          <6> QED BY <1>4, <1>7, <2>1, <3>1, <4>0, <6>1, <6>2, VcpIsRead
        <5>2. CASE ~is_vcp
          <6>1. read = s
            BY <5>2 DEF read
          <6>2. Sound(t, c + 1, s)
            BY <2>1, <3>1, <3>3, <4>0, <5>2, OtherIsPassed
          <6> QED BY <1>2, <1>4, <1>7, <6>1, <6>2 DEF p
        <5> QED BY <5>1, <5>2
      <4>2. AtSection(t, lo, hi, c + 1) /\ c + 1 \in p+1..hi+1 /\ c \in o+1..hi /\ o \in Nat
        BY <2>1, <3>1, <3>3, <4>0, SectionIsNamed, SectionBegins
      <4>3. CASE read.error # "OK"
        <5>1. x = read
          BY <1>5, <1>7, <2>4, <3>3, <4>3
        <5>2. SectionsInv(t, lo, hi, x)
          BY <2>2, <4>1, <4>3, <5>1
        <5> QED BY <4>3, <5>1, <5>2 DEF x
      <4>4. CASE read.error = "OK"
        <5> DEFINE next == c + 1
        <5>1. x = At(read, next)
          BY <1>5, <1>7, <2>4, <3>3, <4>4
        <5>2. next \in Nat /\ next > p /\ next \in lo..hi+1
          BY <1>1, <1>2, <4>2
        <5>3. Sound(t, next, read) /\ AtSection(t, lo, hi, next)
          BY <4>1, <4>2, <4>4
        <5> HIDE DEF next
        <5>4. /\ x \in Readings /\ x.at = next /\ x.error = "OK"
              /\ x.features = read.features /\ x.enum_values = read.enum_values
          BY <4>1, <4>4, <5>1, <5>2, ReadingsChange
        <5>5. Sound(t, next, x)
          BY <5>3, <5>4, SameSound
        <5>6. SectionsInv(t, lo, hi, x)
          BY <5>2, <5>3, <5>4, <5>5 DEF SectionsInv
        <5> QED BY <1>2, <1>7, <5>2, <5>4, <5>6 DEF x, p
      <4> QED BY <4>3, <4>4
    <3> QED BY <3>2, <3>3
  <2> QED BY <2>3, <2>4
<1> QED BY <1>6, <1>7

LEMMA VcpWithin ==
  ASSUME NEW t, NEW lo, NEW hi, Framed(t, lo, hi), NEW x \in VcpPositions(t)
  PROVE  x \in lo+1..hi /\ x \in Nat
<1>1. Top(t) = lo..hi /\ lo \in Nat /\ hi \in Nat
  BY DEF Framed
<1>2. PICK u \in Positions(t, 0) : t[u] = "(" /\ x \in u+1..Closing(t, u)-1
  BY DEF VcpPositions
<1>3. u \in lo..hi /\ Level(t, u) = 0
  BY <1>1 DEF Positions
<1>4. Depth(t)[u-1] = Base(t)
  <2>1. Level(t, u) = Depth(t)[u-1] - Base(t) /\ Depth(t)[u-1] \in Nat /\ Base(t) \in 0..1
    BY <1>2, <1>3, SectionPlace
  <2> QED BY <1>3, <2>1
<1>5. Closing(t, u) \in u+1..hi
  BY <1>2, <1>3, <1>4, SectionCloses
<1> QED BY <1>1, <1>2, <1>3, <1>5

LEMMA NothingIsSound ==
  ASSUME NEW t, NEW lo, NEW hi, Framed(t, lo, hi), NEW s,
         s.features = <<>>, s.enum_values = <<>>
  PROVE  Sound(t, lo, s)
<1>1. \A x \in VcpPositions(t) : ~(x < lo)
  <2>1. lo \in Nat
    BY DEF Framed
  <2> QED BY <2>1, VcpWithin
<1>2. CodesBefore(t, lo) = {} /\ ValuesBefore(t, lo) = {}
  BY <1>1 DEF CodesBefore, ValuesBefore, CodePositions, ValuePositions, BytesAt
<1>3. Cardinality({}) = 0 /\ Len(s.features) = 0 /\ Len(s.enum_values) = 0
      /\ MaxFeatures \in Nat /\ MaxEnumValues \in Nat
  BY FS_EmptySet, ParserAssumption
<1>4. 1..Len(s.features) = {}
  BY <1>3
<1>5. Holds(t, lo, s)
  BY <1>2, <1>3, <1>4 DEF Holds
<1> QED BY <1>1, <1>5 DEF Sound

(* All that was read is sound: the text is good.                           *)
LEMMA SoundIsGood ==
  ASSUME NEW t, NEW lo, NEW hi, Framed(t, lo, hi), NEW s, Sound(t, hi + 1, s),
         AtSection(t, lo, hi, hi + 1)
  PROVE  /\ Good(t)
         /\ CodesBefore(t, hi + 1) = CodePositions(t)
<1>1. hi \in Nat /\ Top(t) = lo..hi /\ lo \in Nat
  BY DEF Framed
<1>2. \A x \in VcpPositions(t) : x < hi + 1
  BY <1>1, VcpWithin
<1>3. CodesBefore(t, hi + 1) = CodePositions(t)
  <2>1. \A x \in CodePositions(t) : x \in VcpPositions(t)
    BY DEF CodePositions, BytesAt
  <2> QED BY <1>2, <2>1 DEF CodesBefore
<1>4. ValuesBefore(t, hi + 1) = ValuePositions(t)
  <2>1. \A x \in ValuePositions(t) : x \in VcpPositions(t)
    BY DEF ValuePositions, BytesAt
  <2> QED BY <1>2, <2>1 DEF ValuesBefore
<1>5. VcpIsWellFormed(t)
  <2>1. \A x \in VcpPositions(t) : WellPlaced(t, x)
    BY <1>2 DEF Sound
  <2> QED BY <2>1 DEF WellPlaced, VcpIsWellFormed
<1>6. SectionsAreNamed(t)
  <2>1. \A x \in Positions(t, 0) : x < hi + 1
    BY <1>1 DEF Positions
  <2>2. \A x \in Positions(t, 0) : Named(t, x)
    BY <2>1 DEF AtSection
  <2> QED BY <2>2 DEF Named, SectionsAreNamed
<1>7. CodesAreDistinct(t)
  BY <1>3 DEF Sound, Holds, CodesAreDistinct
<1>8. AreCounted(t)
  <2>1. Cardinality(CodePositions(t)) <= MaxFeatures /\ Cardinality(ValuePositions(t)) <= MaxEnumValues
    BY <1>3, <1>4 DEF Sound, Holds
  <2> QED BY <2>1 DEF AreCounted, ValuePositions
<1> QED BY <1>3, <1>5, <1>6, <1>7, <1>8 DEF Good

(* What the parser made of the sections of a text.                         *)
SectionsRead(t, s) ==
  /\ s \in Readings
  /\ s.error = "OK" <=> Good(t)
  /\ s.error = "OK" => \E p : Holds(t, p, s) /\ CodesBefore(t, p) = CodePositions(t)

LEMMA SectionsAreRead ==
  ASSUME NEW t, NEW lo, NEW hi, Framed(t, lo, hi)
  PROVE  SectionsRead(t, Sections(t, lo, hi, Nothing))
<1> DEFINE S == {s \in Readings : SectionsInv(t, lo, hi, s)}
           f == [s \in S |-> SectionStep(t, hi, s)]
           a == At(Nothing, lo)
           N == Len(t)
           D == {s \in S : s.error # "OK" \/ s.at = hi + 1}
           Loop(w) == w = [n \in 0..N |-> IF n = 0 THEN a ELSE SectionStep(t, hi, w[n-1])]
           loop == CHOOSE w : Loop(w)
<1>1. /\ lo \in Nat \ {0} /\ lo \in Nat /\ hi \in Nat /\ lo <= hi + 1 /\ hi <= N /\ N \in Nat
      /\ Depth(t)[lo-1] = Base(t) /\ Top(t) = lo..hi
  <2>1. Whole(t)
    BY DEF Framed, Text
  <2> QED BY <2>1, Depths DEF Framed
<1>2. a \in S /\ a.at = lo
  <2>1. /\ Nothing \in Readings /\ Nothing.error = "OK"
        /\ Nothing.features = <<>> /\ Nothing.enum_values = <<>>
    BY DEF Nothing, Readings
  <2>2. /\ a \in Readings /\ a.at = lo /\ a.error = "OK"
        /\ a.features = <<>> /\ a.enum_values = <<>>
    BY <1>1, <2>1, ReadingsChange
  <2> HIDE DEF a
  <2>3. lo \in lo..hi+1
    BY <1>1
  <2>4. Sound(t, lo, a)
    BY <2>2, NothingIsSound
  <2>5. \A j \in Positions(t, 0) : ~(j < lo)
    BY <1>1 DEF Positions
  <2>6. AtSection(t, lo, hi, lo)
    BY <1>1, <2>3, <2>5 DEF AtSection
  <2> QED BY <2>2, <2>3, <2>4, <2>6 DEF SectionsInv
<1>3. ASSUME NEW s \in S
      PROVE  /\ SectionStep(t, hi, s) \in S
             /\ s.at \in Nat /\ s.at <= hi + 1 /\ SectionStep(t, hi, s).at \in Nat
             /\ s \in D => SectionStep(t, hi, s) \in D
             /\ s \notin D => SectionStep(t, hi, s) \in D \/ SectionStep(t, hi, s).at > s.at
  <2> DEFINE r == SectionStep(t, hi, s)
  <2>1. /\ SectionsInv(t, lo, hi, r)
        /\ s.error # "OK" \/ s.at = hi + 1 => r.error # "OK" \/ r.at = hi + 1
        /\ s.error = "OK" /\ s.at <= hi => r.error # "OK" \/ r.at = hi + 1 \/ r.at > s.at
    BY SectionStepKeeps
  <2> HIDE DEF r
  <2>2. r \in Readings /\ r.at \in lo..hi+1 /\ s.at \in lo..hi+1
    BY <2>1 DEF SectionsInv
  <2>3. r \in S
    BY <2>1, <2>2
  <2>4. s.at \in Nat /\ s.at <= hi + 1 /\ r.at \in Nat /\ (s.at # hi + 1 => s.at <= hi)
    BY <1>1, <2>2
  <2>5. s \in D => r \in D
    BY <2>1, <2>3
  <2>6. s \notin D => r \in D \/ r.at > s.at
    BY <2>1, <2>3, <2>4
  <2> QED BY <2>3, <2>4, <2>5, <2>6 DEF r
<1>4. f \in [S -> S] /\ \A s \in S : f[s] = SectionStep(t, hi, s)
  BY <1>3
<1>5. D \in SUBSET S /\ \A s \in S : s.at = hi + 1 => s \in D
  OBVIOUS
<1>6. \A s \in D : s.error = "OK" => s.at = hi + 1
  OBVIOUS
<1>7. \A s \in S : SectionsInv(t, lo, hi, s)
  OBVIOUS
<1>8. Sections(t, lo, hi, Nothing) = loop[N]
  BY DEF Sections
<1> HIDE DEF S, D, f, a, N
<1>9. Loop(loop)
  <2>1. PICK w \in [0..N -> S] : w[0] = a /\ \A n \in 1..N : w[n] = f[w[n-1]]
    <3>1. f \in [S -> S] /\ a \in S /\ N \in Nat
      BY <1>1, <1>2, <1>4
    <3>2. PICK w : IsRun(w, S, f, a, N)
      BY <3>1, LoopRuns
    <3> QED BY <3>2 DEF IsRun
  <2>2. ASSUME NEW n \in 0..N
        PROVE w[n] = IF n = 0 THEN a ELSE SectionStep(t, hi, w[n-1])
    <3>1. CASE n = 0
      BY <2>1, <3>1
    <3>2. CASE n # 0
      <4>1. n \in 1..N /\ n - 1 \in 0..N
        BY <1>1, <3>2
      <4>2. w[n-1] \in S /\ w[n] = f[w[n-1]]
        BY <2>1, <4>1
      <4> QED BY <1>4, <3>2, <4>2
    <3> QED BY <3>1, <3>2
  <2>3. Loop(w)
    <3>1. w = [n \in 0..N |-> w[n]]
      BY <2>1
    <3> QED BY <2>2, <3>1
  <2> QED BY <2>3
<1> HIDE DEF loop
<1>10. loop[0] = a
  BY <1>1, <1>9
<1>11. ASSUME NEW n \in 1..N, loop[n-1] \in S PROVE loop[n] = f[loop[n-1]]
  <2>1. n \in 0..N /\ n # 0
    BY <1>1
  <2>2. loop[n] = SectionStep(t, hi, loop[n-1])
    BY <1>9, <2>1
  <2> QED BY <1>4, <1>11, <2>2
<1>12. hi + 1 <= a.at + N
  BY <1>1, <1>2
<1>13. loop[N] \in D
  <2>1. \A s \in S : s.at \in Nat /\ s.at <= hi + 1 /\ (s.at = hi + 1 => s \in D)
    BY <1>3, <1>5
  <2>2. \A s \in D : f[s] \in D
    BY <1>3, <1>4, <1>5
  <2>3. \A s \in S \ D : f[s] \in D \/ f[s].at > s.at
    BY <1>3, <1>4
  <2>4. \A n \in 1..N : loop[n-1] \in S => loop[n] = f[loop[n-1]]
    BY <1>11
  <2>5. f \in [S -> S] /\ a \in S /\ N \in Nat /\ hi \in Nat /\ D \in SUBSET S
    BY <1>1, <1>2, <1>4, <1>5
  <2> QED BY <1>10, <1>12, <2>1, <2>2, <2>3, <2>4, <2>5, LoopEnds
<1> DEFINE z == loop[N]
<1>14. SectionsInv(t, lo, hi, z) /\ (z.error = "OK" => z.at = hi + 1)
  BY <1>5, <1>6, <1>7, <1>13
<1> HIDE DEF z
<1>15. z \in Readings /\ (z.error # "OK" => ~Good(t))
  BY <1>14 DEF SectionsInv
<1>16. ASSUME z.error = "OK"
       PROVE Good(t) /\ Holds(t, hi + 1, z) /\ CodesBefore(t, hi + 1) = CodePositions(t)
  <2>1. Sound(t, hi + 1, z) /\ AtSection(t, lo, hi, hi + 1)
    BY <1>14, <1>16 DEF SectionsInv
  <2> QED BY <2>1, SoundIsGood DEF Sound
<1>17. SectionsRead(t, z)
  BY <1>15, <1>16 DEF SectionsRead
<1> QED BY <1>8, <1>17 DEF z
-----------------------------------------------------------------------------
(* What has been read is what is declared.                                 *)

LEMMA ValuesOfCode ==
  ASSUME NEW t, NEW p, NEW s \in Readings, Holds(t, p, s),
         NEW n \in 1..Len(s.features), NEW i, Describes(t, s.features[n], s.enum_values, i)
  PROVE  {<<m, EnumValuesOf(s, s.features[n].vcp_code)[m]>> : m \in 1..s.features[n].enum_value_count}
           = ListOf(t, i)
<1> DEFINE f == s.features[n]
           e == s.enum_values
           o == f.enum_value_offset
           k == f.enum_value_count
           L == ListAt(t, i)
           g == EnumValuesOf(s, f.vcp_code)
<1>1. s.features \in Seq(Features) /\ e \in Seq(Bytes)
  BY ReadingsChange
<1>2. DOMAIN s.features = 1..Len(s.features) /\ f \in Features /\ Len(e) \in Nat
      /\ Len(s.features) \in Nat
  BY <1>1
<1>3. o \in Nat /\ k \in Nat
  BY <1>2 DEF Features
<1>4. /\ o + k <= Len(e)
      /\ \A j \in L : Rank(L, j) \in 1..k /\ e[o + Rank(L, j)] = Byte(t, j)
      /\ \A m \in 1..k : \E j \in L : Rank(L, j) = m
  BY DEF Describes
<1>5. Least({j \in DOMAIN s.features : s.features[j].vcp_code = f.vcp_code}) = n
  <2> DEFINE S == {j \in DOMAIN s.features : s.features[j].vcp_code = f.vcp_code}
  <2>1. n \in S
    BY <1>2
  <2>2. \A j \in S : j = n
    BY <1>2 DEF Holds
  <2>3. S \in SUBSET Nat /\ S # {}
    BY <1>2, <2>1
  <2> HIDE DEF S
  <2>4. Least(S) \in S
    BY <2>3, LeastIsLeast
  <2>5. Least(S) = n
    BY <2>2, <2>4
  <2> QED BY <2>5 DEF S
<1>6. g = SubSeq(e, o + 1, o + k)
  BY <1>5 DEF EnumValuesOf
<1> HIDE DEF e, o, k, L, g, f
<1>7. ASSUME NEW m \in 1..k PROVE g[m] = e[o + m]
  <2>1. o + 1 \in 1..Len(e) /\ o + k \in 1..Len(e) /\ m \in 1..(o + k) - (o + 1) + 1
    BY <1>2, <1>3, <1>4
  <2>2. SubSeq(e, o + 1, o + k)[m] = e[(o + 1) + m - 1]
    <3>1. \A j \in o+1..o+k : e[j] \in Bytes
      BY <1>1, <1>2, <1>3, <1>4
    <3>2. o + 1 \in Int /\ o + k \in Int
      BY <1>3
    <3> QED BY <2>1, <3>1, <3>2, SubSeqProperties
  <2>3. (o + 1) + m - 1 = o + m
    BY <1>3
  <2> QED BY <1>6, <2>2, <2>3
<1> DEFINE A == {<<m, g[m]>> : m \in 1..k}
           B == {<<Rank(L, j), Byte(t, j)>> : j \in L}
<1>8. ASSUME NEW m \in 1..k PROVE <<m, g[m]>> \in B
  <2>1. PICK j \in L : Rank(L, j) = m
    BY <1>4
  <2>2. g[m] = Byte(t, j)
    BY <1>4, <1>7, <2>1
  <2> QED BY <2>1, <2>2
<1>9. ASSUME NEW j \in L PROVE <<Rank(L, j), Byte(t, j)>> \in A
  <2>1. Rank(L, j) \in 1..k /\ g[Rank(L, j)] = Byte(t, j)
    BY <1>4, <1>7
  <2> QED BY <2>1
<1>10. A = B
  <2>1. A \subseteq B
    BY <1>8
  <2>2. B \subseteq A
    BY <1>9
  <2> QED BY <2>1, <2>2
<1>11. ListOf(t, i) = B
  BY DEF ListOf, Rank, L
<1>12. {<<m, EnumValuesOf(s, s.features[n].vcp_code)[m]>> : m \in 1..s.features[n].enum_value_count} = A
  BY DEF f, g, k
<1> QED BY <1>10, <1>11, <1>12

LEMMA ReadIsDeclared ==
  ASSUME NEW t, NEW p, NEW s \in Readings, Holds(t, p, s), CodesBefore(t, p) = CodePositions(t)
  PROVE  Read(s) = Declared(t) /\ \A d \in Declared(t) : HasVcp(s, d[1])
<1> DEFINE N == Len(s.features)
           code(n) == s.features[n].vcp_code
           values(n) == {<<m, EnumValuesOf(s, code(n))[m]>> : m \in 1..s.features[n].enum_value_count}
<1>1. s.features \in Seq(Features)
  BY ReadingsChange
<1>2. DOMAIN s.features = 1..N
  BY <1>1
<1>3. Read(s) = {<<code(n), values(n)>> : n \in 1..N}
  <2> DEFINE W(f) == <<f.vcp_code, {<<m, EnumValuesOf(s, f.vcp_code)[m]>> : m \in 1..f.enum_value_count}>>
             F == {s.features[i] : i \in DOMAIN s.features}
  <2>1. Read(s) = {W(f) : f \in F}
    BY DEF Read
  <2>2. \A n \in 1..N : W(s.features[n]) = <<code(n), values(n)>>
    OBVIOUS
  <2> HIDE DEF W, code, values
  <2>3. {W(f) : f \in F} = {W(s.features[n]) : n \in 1..N}
    BY <1>2
  <2>4. {W(s.features[n]) : n \in 1..N} = {<<code(n), values(n)>> : n \in 1..N}
    BY <2>2
  <2> QED BY <2>1, <2>3, <2>4
<1>4. Declared(t) = {<<Byte(t, i), ListOf(t, i)>> : i \in CodePositions(t)}
  BY DEF Declared
<1>5. ASSUME NEW n \in 1..N, NEW i, Describes(t, s.features[n], s.enum_values, i)
      PROVE  code(n) = Byte(t, i) /\ values(n) = ListOf(t, i)
  BY <1>5, ValuesOfCode DEF Describes
<1>6. /\ \A n \in 1..N : \E i \in CodePositions(t) : Describes(t, s.features[n], s.enum_values, i)
      /\ \A i \in CodePositions(t) : \E n \in 1..N : Describes(t, s.features[n], s.enum_values, i)
  BY DEF Holds
<1> HIDE DEF code, values, N
<1>7. ASSUME NEW n \in 1..N
      PROVE  \E i \in CodePositions(t) : code(n) = Byte(t, i) /\ values(n) = ListOf(t, i)
  BY <1>5, <1>6
<1>8. ASSUME NEW i \in CodePositions(t)
      PROVE  \E n \in 1..N : code(n) = Byte(t, i) /\ values(n) = ListOf(t, i)
  BY <1>5, <1>6
<1>9. Read(s) \subseteq Declared(t)
  BY <1>3, <1>4, <1>7
<1>10. Declared(t) \subseteq Read(s)
  BY <1>3, <1>4, <1>8
<1>11. ASSUME NEW d \in Declared(t) PROVE HasVcp(s, d[1])
  <2>1. PICK i \in CodePositions(t) : d = <<Byte(t, i), ListOf(t, i)>>
    BY <1>4
  <2>2. PICK n \in 1..N : code(n) = Byte(t, i)
    BY <1>8
  <2>3. d[1] = code(n)
    BY <2>1, <2>2
  <2> QED BY <1>2, <2>3 DEF HasVcp, code
<1> QED BY <1>9, <1>10, <1>11
-----------------------------------------------------------------------------
(* The whole text, and every text.                                         *)

(* The first and the last character that is no space. *)
Ends(t, a, b) ==
  /\ a \in 1..Len(t) /\ b \in a..Len(t)
  /\ t[a] \notin Spaces /\ t[b] \notin Spaces
  /\ \A j \in 1..a-1 : t[j] \in Spaces
  /\ \A j \in b+1..Len(t) : t[j] \in Spaces

LEMMA EndsAre ==
  ASSUME NEW t \in Seq(Alphabet), NEW x \in 1..Len(t), t[x] \notin Spaces
  PROVE  Ends(t, FirstChar(t), LastChar(t))
<1> DEFINE a == FirstChar(t)
           b == LastChar(t)
           N == Len(t)
<1>1. N \in Nat /\ 1 <= N + 1
  OBVIOUS
<1>2. /\ a \in 1..N+1 /\ (\A j \in 1..a-1 : t[j] \in Spaces)
      /\ a <= N => t[a] \notin Spaces
  <2>1. a = Past(t, 1, N, Spaces)
    BY DEF FirstChar
  <2> HIDE DEF a, N
  <2> QED BY <1>1, <2>1, PastIs
<1> HIDE DEF a
<1>3. a <= x
  <2>1. ~(x \in 1..a-1)
    BY <1>2
  <2> QED BY <1>1, <1>2, <2>1
<1>4. a \in 1..N /\ t[a] \notin Spaces
  BY <1>1, <1>2, <1>3
<1> DEFINE k == LastSolid(t, N + 1)
<1>5. /\ k \in 1..N /\ t[k] \notin Spaces
      /\ \A j \in k+1..N : t[j] \in Spaces
  <2>1. \/ k = 0 /\ \A j \in 1..(N + 1)-1 : t[j] \in Spaces
        \/ /\ k \in 1..(N + 1)-1 /\ t[k] \notin Spaces
           /\ \A j \in k+1..(N + 1)-1 : t[j] \in Spaces
    <3>1. N + 1 \in Nat
      BY <1>1
    <3> HIDE DEF N
    <3> QED BY <3>1, LastSolidIs
  <2>2. (N + 1) - 1 = N
    BY <1>1
  <2> HIDE DEF k
  <2> QED BY <2>1, <2>2
<1> HIDE DEF k
<1>6. /\ b \in 1..N /\ t[b] \notin Spaces
      /\ \A j \in b+1..N : t[j] \in Spaces
  BY <1>5 DEF LastChar
<1> HIDE DEF b
<1>7. a <= b
  <2>1. ~(b \in 1..a-1)
    BY <1>2, <1>6
  <2> QED BY <1>4, <1>6, <2>1
<1>8. b \in a..N
  BY <1>4, <1>6, <1>7
<1> QED BY <1>2, <1>4, <1>6, <1>8 DEF Ends, a, b

LEMMA NothingBefore ==
  ASSUME NEW t, Whole(t), NEW a, NEW b, Ends(t, a, b)
  PROVE  Depth(t)[a - 1] = 0
<1>1. a \in 1..Len(t) /\ Len(t) \in Nat /\ \A j \in 1..a-1 : t[j] \in Spaces
  BY Depths DEF Ends
<1>2. 1 \in 1..Len(t) /\ a - 1 \in 1-1..Len(t) /\ a - 1 \in 1-1..a-1
  BY <1>1
<1>3. \A j \in 1-1..a-1 : Depth(t)[j] = Depth(t)[1-1]
  BY <1>1, <1>2, SpacesAreFlat
<1>4. Depth(t)[a - 1] = Depth(t)[0]
  BY <1>2, <1>3
<1> QED BY <1>4, Depths

(* A text that no pair of parentheses encloses. *)
LEMMA BareFrame ==
  ASSUME NEW t, Whole(t), Ends(t, FirstChar(t), LastChar(t)), ~Wrapped(t)
  PROVE  Framed(t, FirstChar(t), LastChar(t))
<1> DEFINE a == FirstChar(t)
           b == LastChar(t)
<1>1. Base(t) = 0 /\ Top(t) = a..b
  BY DEF Base, Top
<1>2. Ends(t, a, b)
  OBVIOUS
<1> HIDE DEF a, b
<1>3. a \in 1..Len(t) /\ b \in a..Len(t) /\ Len(t) \in Nat
  BY <1>2, Depths DEF Ends
<1>4. Depth(t)[a - 1] = 0
  BY <1>2, NothingBefore
<1>5. Text(t)
  <2>1. a..b \subseteq 1..Len(t)
    BY <1>3
  <2> QED BY <1>1, <2>1 DEF Text
<1>6. \A j \in a-1..b : Depth(t)[j] >= 0
  <2>1. \A j \in a-1..b : j \in 0..Len(t)
    BY <1>3
  <2>2. \A j \in 0..Len(t) : Depth(t)[j] \in Nat
    BY Depths
  <2>3. \A j \in a-1..b : Depth(t)[j] \in Nat
    BY <2>1, <2>2
  <2> QED BY <2>3
<1>7. a \in Nat \ {0} /\ b \in Nat /\ a <= b + 1 /\ b <= Len(t)
  BY <1>3
<1>8. /\ \A j \in 1..a-1 : t[j] \in Spaces \cup {"("}
      /\ \A j \in b+1..Len(t) : t[j] \in Spaces \/ (t[j] = ")" /\ Depth(t)[j] < Base(t))
  BY <1>2 DEF Ends
<1>9. Depth(t)[a - 1] = Base(t) /\ \A j \in a-1..b : Depth(t)[j] >= Base(t)
  BY <1>1, <1>4, <1>6
<1>10. Framed(t, a, b)
  BY <1>1, <1>5, <1>7, <1>8, <1>9 DEF Framed
<1> QED BY <1>10 DEF a, b

(* A text that one pair of parentheses encloses. *)
LEMMA WrappedFrame ==
  ASSUME NEW t, Whole(t), Ends(t, FirstChar(t), LastChar(t)), Wrapped(t),
         Closing(t, FirstChar(t)) = LastChar(t)
  PROVE  Framed(t, FirstChar(t) + 1, LastChar(t) - 1)
<1> DEFINE a == FirstChar(t)
           b == LastChar(t)
<1>1. Base(t) = 1 /\ Top(t) = a+1..b-1 /\ t[a] = "(" /\ Closing(t, a) = b
  BY DEF Base, Top, Wrapped
<1>2. Ends(t, a, b)
  OBVIOUS
<1> HIDE DEF a, b
<1>3. a \in 1..Len(t) /\ b \in a..Len(t) /\ Len(t) \in Nat
  BY <1>2, Depths DEF Ends
<1>4. Depth(t)[a - 1] = 0
  BY <1>2, NothingBefore
<1>5. /\ b \in a+1..Len(t) /\ t[b] = ")"
      /\ Depth(t)[a] = Depth(t)[a - 1] + 1 /\ Depth(t)[b] = Depth(t)[a - 1]
      /\ \A j \in a..b-1 : Depth(t)[j] >= Depth(t)[a]
  <2>1. Closing(t, a) = b /\ t[a] = "(" /\ a \in 1..Len(t)
    BY <1>1, <1>3
  <2> QED BY <2>1, Enclosed
<1>6. Depth(t)[a] = 1 /\ Depth(t)[b] = 0 /\ \A j \in a..b-1 : Depth(t)[j] >= 1
  BY <1>4, <1>5
<1> DEFINE lo == a + 1
           hi == b - 1
<1>7. lo \in Nat \ {0} /\ hi \in Nat /\ lo <= hi + 1 /\ hi <= Len(t) /\ lo - 1 = a /\ hi + 1 = b
  BY <1>3, <1>5
<1>8. Text(t)
  <2>1. a+1..b-1 \subseteq 1..Len(t)
    BY <1>3
  <2> QED BY <1>1, <2>1 DEF Text
<1>9. \A j \in 1..a : t[j] \in Spaces \cup {"("}
  <2> SUFFICES ASSUME NEW j \in 1..a PROVE t[j] \in Spaces \cup {"("}
    OBVIOUS
  <2>1. CASE j = a
    BY <1>1, <2>1
  <2>2. CASE j # a
    <3>1. j \in 1..a-1
      BY <1>3, <2>2
    <3> QED BY <1>2, <3>1 DEF Ends
  <2> QED BY <2>1, <2>2
<1>10. \A j \in b..Len(t) : t[j] \in Spaces \/ (t[j] = ")" /\ Depth(t)[j] < Base(t))
  <2> SUFFICES ASSUME NEW j \in b..Len(t)
               PROVE  t[j] \in Spaces \/ (t[j] = ")" /\ Depth(t)[j] < Base(t))
    OBVIOUS
  <2>1. CASE j = b
    BY <1>1, <1>5, <1>6, <2>1
  <2>2. CASE j # b
    <3>1. j \in b+1..Len(t)
      BY <1>3, <2>2
    <3> QED BY <1>2, <3>1 DEF Ends
  <2> QED BY <2>1, <2>2
<1>11. Top(t) = lo..hi
  BY <1>1
<1> HIDE DEF lo, hi
<1>12. Framed(t, lo, hi)
  BY <1>1, <1>6, <1>7, <1>8, <1>9, <1>10, <1>11 DEF Framed
<1> QED BY <1>12 DEF lo, hi, a, b

-----------------------------------------------------------------------------
(* What the parser makes of a text: the outcome, and what was read.        *)

Parsed(t) == ParseCapabilities(t)

(* The text is refused, as the grammar would have it. *)
Refused(t) == Parsed(t).error # "OK" /\ ~IsText(t)

(* The text is good or not as its sections are. *)
AsSections(t) ==
  /\ SectionsRead(t, Parsed(t))
  /\ IsText(t) <=> Good(t)

LEMMA TextIs ==
  ASSUME NEW t
  PROVE  IsText(t) <=>
           /\ t # <<>> /\ Len(t) <= MaxTextBytes /\ Balanced(t)
           /\ \E i \in 1..Len(t) : t[i] \notin Spaces
           /\ Wrapped(t) => Closing(t, FirstChar(t)) = LastChar(t)
           /\ Good(t)
  BY DEF IsText, Good, Balanced

LEMMA NothingRead ==
  /\ Nothing \in Readings /\ Nothing.error = "OK"
  /\ Malformed(Nothing).error # "OK"
  /\ \A e \in {"ARGUMENT", "CAPABILITIES_TOO_LARGE", "CAPABILITIES_MALFORMED"} : Fails(Nothing, e).error = e
  BY DEF Nothing, Readings, Malformed, Fails

LEMMA BalanceFails ==
  ASSUME NEW t \in Seq(Alphabet), Balance(t) # "OK"
  PROVE  Fails(Nothing, Balance(t)).error # "OK"
<1>1. Balance(t) \in {"OK", "ARGUMENT", "CAPABILITIES_TOO_LARGE", "CAPABILITIES_MALFORMED"}
  BY DEF Balance
<1> HIDE DEF Balance
<1> QED BY <1>1, NothingRead

LEMMA TextIsParsed ==
  ASSUME NEW t \in Seq(Alphabet)
  PROVE  Refused(t) \/ AsSections(t)
<1> DEFINE first == FirstChar(t)
           last == LastChar(t)
<1>1. Parsed(t) =
        IF t = <<>> THEN Fails(Nothing, "ARGUMENT")
        ELSE IF Len(t) > MaxTextBytes THEN Fails(Nothing, "CAPABILITIES_TOO_LARGE")
        ELSE IF Balance(t) # "OK" THEN Fails(Nothing, Balance(t))
        ELSE IF first > Len(t) THEN Malformed(Nothing)
        ELSE IF ~Wrapped(t) THEN Sections(t, first, last, Nothing)
        ELSE IF Closing(t, first) # last THEN Malformed(Nothing)
        ELSE Sections(t, first + 1, last - 1, Nothing)
  BY DEF Parsed, ParseCapabilities, Wrapped
<1>2. Len(t) \in Nat /\ MaxTextBytes \in Nat
  BY ParserAssumption
<1> HIDE DEF first, last
<1>3. CASE t = <<>>
  <2>1. Parsed(t) = Fails(Nothing, "ARGUMENT")
    BY <1>1, <1>3
  <2>2. ~IsText(t)
    BY <1>3, TextIs
  <2> QED BY <2>1, <2>2, NothingRead DEF Refused
<1>4. CASE t # <<>> /\ Len(t) > MaxTextBytes
  <2>1. Parsed(t) = Fails(Nothing, "CAPABILITIES_TOO_LARGE")
    BY <1>1, <1>4
  <2>2. ~IsText(t)
    BY <1>2, <1>4, TextIs
  <2> QED BY <2>1, <2>2, NothingRead DEF Refused
<1>5. CASE t # <<>> /\ ~(Len(t) > MaxTextBytes) /\ Balance(t) # "OK"
  <2>1. Parsed(t) = Fails(Nothing, Balance(t))
    BY <1>1, <1>5
  <2>2. ~IsText(t)
    BY <1>5, TextIs, BalanceIs
  <2> QED BY <1>5, <2>1, <2>2, BalanceFails DEF Refused
<1>6. CASE t # <<>> /\ ~(Len(t) > MaxTextBytes) /\ Balance(t) = "OK"
  <2>1. Whole(t) /\ Balanced(t)
    BY <1>6, BalanceIs DEF Whole
  <2>2. Parsed(t) =
          IF first > Len(t) THEN Malformed(Nothing)
          ELSE IF ~Wrapped(t) THEN Sections(t, first, last, Nothing)
          ELSE IF Closing(t, first) # last THEN Malformed(Nothing)
          ELSE Sections(t, first + 1, last - 1, Nothing)
    BY <1>1, <1>6
  <2>3. CASE \A i \in 1..Len(t) : t[i] \in Spaces
    <3>1. first > Len(t)
      <4>1. /\ first \in 1..Len(t)+1
            /\ first <= Len(t) => t[first] \notin Spaces
        <5>1. Len(t) \in Nat /\ 1 \in Nat /\ 1 <= Len(t) + 1
          BY <1>2
        <5> QED BY <5>1, PastIs DEF FirstChar, first
      <4>2. ~(first <= Len(t))
        BY <2>3, <4>1
      <4> QED BY <1>2, <4>1, <4>2
    <3>2. ~IsText(t)
      BY <2>3, TextIs
    <3> QED BY <2>2, <3>1, <3>2, NothingRead DEF Refused
  <2>4. CASE \E i \in 1..Len(t) : t[i] \notin Spaces
    <3>1. Ends(t, FirstChar(t), LastChar(t))
      BY <2>4, EndsAre
    <3>2. ~(first > Len(t))
      BY <1>2, <3>1 DEF Ends, first
    <3>3. CASE ~Wrapped(t)
      <4>1. Parsed(t) = Sections(t, first, last, Nothing)
        BY <2>2, <3>2, <3>3
      <4>2. Framed(t, first, last)
        BY <2>1, <3>1, <3>3, BareFrame DEF first, last
      <4>3. SectionsRead(t, Parsed(t))
        BY <4>1, <4>2, SectionsAreRead
      <4>4. IsText(t) <=> Good(t)
        BY <1>2, <1>6, <2>1, <2>4, <3>3, TextIs
      <4> QED BY <4>3, <4>4 DEF AsSections
    <3>4. CASE Wrapped(t) /\ Closing(t, first) # last
      <4>1. Parsed(t) = Malformed(Nothing)
        BY <2>2, <3>2, <3>4
      <4>2. ~IsText(t)
        BY <3>4, TextIs DEF first, last
      <4> QED BY <4>1, <4>2, NothingRead DEF Refused
    <3>5. CASE Wrapped(t) /\ Closing(t, first) = last
      <4>1. Parsed(t) = Sections(t, first + 1, last - 1, Nothing)
        BY <2>2, <3>2, <3>5
      <4>2. Framed(t, first + 1, last - 1)
        BY <2>1, <3>1, <3>5, WrappedFrame DEF first, last
      <4>3. SectionsRead(t, Parsed(t))
        BY <4>1, <4>2, SectionsAreRead
      <4>4. IsText(t) <=> Good(t)
        BY <1>2, <1>6, <2>1, <2>4, <3>5, TextIs DEF first, last
      <4> QED BY <4>3, <4>4 DEF AsSections
    <3> QED BY <3>3, <3>4, <3>5
  <2> QED BY <2>3, <2>4
<1> QED BY <1>3, <1>4, <1>5, <1>6

(* Of every text, of any length and any nesting, and for every size of the *)
(* two tables, rss_ddc_parse_mccs_capabilities accepts exactly those the   *)
(* grammar allows, and what it reads of them is what they declare: the     *)
(* codes, their values and the order of these.                             *)
THEOREM ParserIsCorrect ==
  \A t \in Seq(Alphabet) : ReadRightly(t)
<1> SUFFICES ASSUME NEW t \in Seq(Alphabet) PROVE ReadRightly(t)
  OBVIOUS
<1> DEFINE caps == ParseCapabilities(t)
<1>1. CASE Refused(t)
  BY <1>1 DEF Refused, Parsed, ReadRightly
<1>2. CASE AsSections(t)
  <2>1. SectionsRead(t, caps) /\ (IsText(t) <=> Good(t))
    BY <1>2 DEF AsSections, Parsed
  <2> HIDE DEF caps
  <2>2. caps.error = "OK" <=> IsText(t)
    BY <2>1 DEF SectionsRead
  <2>3. ASSUME caps.error = "OK"
        PROVE  Read(caps) = Declared(t) /\ \A d \in Declared(t) : HasVcp(caps, d[1])
    <3>1. caps \in Readings
      BY <2>1 DEF SectionsRead
    <3>2. PICK p : Holds(t, p, caps) /\ CodesBefore(t, p) = CodePositions(t)
      BY <2>1, <2>3 DEF SectionsRead
    <3> QED BY <3>1, <3>2, ReadIsDeclared
  <2> QED BY <2>2, <2>3 DEF ReadRightly, caps
<1> QED BY <1>1, <1>2, TextIsParsed
-----------------------------------------------------------------------------
(* The texts of the monitors. *)

LEMMA PartsAreTexts ==
  ASSUME NEW t \in Seq(Alphabet), NEW m \in Nat \ {0}, NEW n \in Nat, n <= Len(t)
  PROVE  SubSeq(t, m, n) \in Seq(Alphabet)
<1>1. \A i \in m..n : t[i] \in Alphabet
  OBVIOUS
<1>2. m \in Int /\ n \in Int
  OBVIOUS
<1> QED BY <1>1, <1>2, SubSeqProperties

LEMMA ErrorsAreTexts ==
  ASSUME NEW t \in Seq(Alphabet), NEW u \in OneError(t)
  PROVE  u \in Seq(Alphabet)
<1> DEFINE Altered(i, s) == SubSeq(t, 1, i-1) \o s \o SubSeq(t, i + 1, Len(t))
           Added(i, c) == Append(SubSeq(t, 1, i), c) \o SubSeq(t, i + 1, Len(t))
           Strings == {<<>>} \cup {<<c>> : c \in Alphabet}
<1>1. ASSUME NEW i \in 1..Len(t), NEW s \in Strings PROVE Altered(i, s) \in Seq(Alphabet)
  <2>1. s \in Seq(Alphabet)
    <3>1. CASE s = <<>>
      BY <3>1
    <3>2. CASE s \in {<<c>> : c \in Alphabet}
      <4>1. PICK c \in Alphabet : s = <<c>>
        BY <3>2
      <4> QED BY <4>1
    <3> QED BY <3>1, <3>2
  <2>2. Len(t) \in Nat /\ 1 \in Nat \ {0} /\ i - 1 \in Nat /\ i - 1 <= Len(t)
        /\ i + 1 \in Nat \ {0} /\ Len(t) <= Len(t)
    OBVIOUS
  <2>3. SubSeq(t, 1, i-1) \in Seq(Alphabet) /\ SubSeq(t, i + 1, Len(t)) \in Seq(Alphabet)
    BY <2>2, PartsAreTexts
  <2> QED BY <2>1, <2>3, ConcatProperties
<1>2. ASSUME NEW i \in 0..Len(t), NEW c \in Alphabet PROVE Added(i, c) \in Seq(Alphabet)
  <2>1. Len(t) \in Nat /\ 1 \in Nat \ {0} /\ i \in Nat /\ i <= Len(t)
        /\ i + 1 \in Nat \ {0} /\ Len(t) <= Len(t)
    OBVIOUS
  <2>2. SubSeq(t, 1, i) \in Seq(Alphabet) /\ SubSeq(t, i + 1, Len(t)) \in Seq(Alphabet)
    BY <2>1, PartsAreTexts
  <2>3. Append(SubSeq(t, 1, i), c) \in Seq(Alphabet)
    BY <2>2
  <2> QED BY <2>2, <2>3, ConcatProperties
<1>3. OneError(t) = {Altered(i, s) : i \in 1..Len(t), s \in Strings}
                    \cup {Added(i, c) : i \in 0..Len(t), c \in Alphabet}
  BY DEF OneError
<1> HIDE DEF Altered, Added, Strings
<1> QED BY <1>1, <1>2, <1>3

(* Whatever texts the monitors hold: rss_ddc_parse_mccs_capabilities       *)
(* accepts of a monitor's text, of each beginning of it and of each text   *)
(* that one wrong, lost or extra character makes of it exactly what the    *)
(* grammar allows, and reads from it what it declares.                     *)
THEOREM ParserAlwaysRight == Spec => []ParserFollowsGrammar
<1> DEFINE TextInv == text \in Texts
<1>1. Init => TextInv
  BY DEF Init
<1>2. TextInv /\ [Next]_vars => TextInv'
  <2> SUFFICES ASSUME TextInv, [Next]_vars PROVE TextInv'
    OBVIOUS
  <2>1. UNCHANGED text
    BY DEF Next, Begin, Ask, ExchangeFails, Receive, Parse, vars, monitor, Return
  <2> QED BY <2>1
<1>3. TextInv => ParserFollowsGrammar
  <2> SUFFICES ASSUME text \in Texts PROVE ParserFollowsGrammar
    OBVIOUS
  <2> DEFINE chars == text.chars
  <2>1. /\ chars \in Seq(Alphabet) /\ text.length = Len(chars)
        /\ text.wholes = {n \in 1..text.length : IsText(SubSeq(chars, 1, n))}
    BY CharsAssumption
  <2> HIDE DEF chars
  <2>2. ASSUME NEW n \in 1..text.length
        PROVE  IsText(SubSeq(chars, 1, n)) <=> Accepts(SubSeq(chars, 1, n))
    <3>1. SubSeq(chars, 1, n) \in Seq(Alphabet)
      <4>1. 1 \in Nat \ {0} /\ n \in Nat /\ n <= Len(chars)
        BY <2>1
      <4> QED BY <2>1, <4>1, PartsAreTexts
    <3>2. ReadRightly(SubSeq(chars, 1, n))
      BY <3>1, ParserIsCorrect
    <3> QED BY <3>2 DEF ReadRightly, Accepts
  <2>3. text.wholes = {n \in 1..text.length : Accepts(SubSeq(chars, 1, n))}
    BY <2>1, <2>2
  <2>4. \A t \in {chars} \cup OneError(chars) : t \in Seq(Alphabet)
    BY <2>1, ErrorsAreTexts
  <2>5. \A t \in {chars} \cup OneError(chars) : ReadRightly(t)
    BY <2>4, ParserIsCorrect
  <2> QED BY <2>3, <2>5 DEF ParserFollowsGrammar, chars
<1> QED BY <1>1, <1>2, <1>3, PTL DEF Spec
=============================================================================
