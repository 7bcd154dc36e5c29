------------------------ MODULE MccsRetrievalProofs -------------------------
(***************************************************************************)
(* That a retrieval collects the monitor's text in order, within its       *)
(* bounds, and publishes nothing partial: for every text, every size of a  *)
(* fragment and of the collector, every request limit and every manner of  *)
(* answering.                                                              *)
(***************************************************************************)
EXTENDS MccsRetrieval, SequenceTheorems, TLAPS

(* Bytes 1 to n of the monitor's text. *)
Beginning(n) == [i \in 1..n |-> i]

(* The collector holds a beginning of the text that ends where the next    *)
(* request starts, and while the call runs it counts the fragments taken.  *)
CollectorOK ==
  /\ next_offset = Len(bytes) /\ bytes = Beginning(next_offset)
  /\ next_offset <= MaxBytes

CountsOK ==
  /\ asked <= MaxRequests
  /\ pc = "loop" => asked = request_count
  /\ pc = "reply" => asked = request_count + 1
  /\ ret = "CAPABILITIES_REQUEST_LIMIT" => asked = MaxRequests
  /\ ret # "CAPABILITIES_OFFSET_OVERFLOW"

(* Only a complete text reaches the parser, and only the parser says OK.   *)
ResultOK ==
  /\ pc # "returned" => ret = None
  /\ pc = "parse" => complete
  /\ ret = "OK" => complete /\ capabilities = bytes
  /\ capabilities # None =>
       /\ Len(capabilities) \in text.wholes
       /\ capabilities = Beginning(Len(capabilities))

IInv == TypeOK /\ CollectorOK /\ CountsOK /\ ResultOK

USE DEF Codes, FrameErrors, TransportErrors

-----------------------------------------------------------------------------
(* What a fragment brings and what it does to the collected text.          *)

LEMMA BeginningGrows ==
  ASSUME NEW n \in Nat, NEW k \in Nat
  PROVE  /\ Beginning(n) \in Seq(Nat) /\ Len(Beginning(n)) = n
         /\ Beginning(n) \o [i \in 1..k |-> n + i] = Beginning(n + k)
<1> DEFINE s == Beginning(n)
           t == [i \in 1..k |-> n + i]
           u == Beginning(n + k)
<1>1. s \in Seq(Nat) /\ Len(s) = n /\ t \in Seq(Nat) /\ Len(t) = k
  BY DEF Beginning
<1>2. u \in Seq(Nat) /\ Len(u) = n + k
  BY DEF Beginning
<1> HIDE DEF s, t, u
<1>3. /\ s \o t \in Seq(Nat) /\ Len(s \o t) = n + k
      /\ \A i \in 1..(n + k) : (s \o t)[i] = IF i <= n THEN s[i] ELSE t[i - n]
  BY <1>1, ConcatProperties
<1>4. \A i \in 1..(n + k) : (s \o t)[i] = u[i]
  BY <1>3 DEF s, t, u, Beginning
<1>5. s \o t = u
  BY <1>2, <1>3, <1>4, SeqEqual
<1> QED
  BY <1>1, <1>5 DEF s, t, u

LEMMA NothingYet ==
  Len(<<>>) = 0 /\ <<>> = Beginning(0) /\ <<>> \in Seq(Nat)
  /\ 0 \in 0..OffsetMax /\ 0 \in 0..MaxCalls /\ 0 \in 0..MaxRequests + 1
<1>1. Beginning(0) \in Seq(Nat) /\ Len(Beginning(0)) = 0
  BY BeginningGrows
<1>2. Beginning(0) = <<>>
  <2> HIDE DEF Beginning
  <2> QED
    BY <1>1, EmptySeq
<1>3. 0 \in 0..OffsetMax /\ 0 \in 0..MaxCalls /\ 0 \in 0..MaxRequests + 1
  BY LimitAssumption
<1> QED
  BY <1>1, <1>2, <1>3

LEMMA AnswersAreFragments ==
  ASSUME TypeOK, NEW fragment \in Answers(next_offset)
  PROVE  fragment \in Fragments
<1>1. text.length \in Nat /\ next_offset \in 0..OffsetMax /\ FragmentMax \in Nat
  BY TextAssumption, LimitAssumption DEF TypeOK
<1>2. Remaining(next_offset) \in 0..FragmentMax
  BY <1>1 DEF Remaining
<1>3. CASE fragment \in sent
  BY <1>3 DEF TypeOK
<1>4. CASE fragment \notin sent
  <2>1. manner \in {"exact", "short", "erratic"}
    BY MannerAssumption DEF TypeOK
  <2>2. PICK n \in 0..Remaining(next_offset) :
          fragment = [offset |-> next_offset, length |-> n]
    BY <1>2, <1>4, <2>1 DEF Answers
  <2> QED
    BY <1>1, <1>2, <2>2 DEF Fragments
<1> QED
  BY <1>3, <1>4

LEMMA RefusalIsACode ==
  ASSUME NEW fragment
  PROVE  Refusal(fragment) \in Codes \cup {None} /\ Refusal(fragment) # "OK"
         /\ Refusal(fragment) # "CAPABILITIES_REQUEST_LIMIT"
BY NoneAssumption DEF Refusal

-----------------------------------------------------------------------------
LEMMA InitInv == Init => IInv
<1> SUFFICES ASSUME Init PROVE IInv
  OBVIOUS
<1>1. TypeOK
  BY NothingYet DEF Init, TypeOK
<1>2. CollectorOK
  BY LimitAssumption, NothingYet DEF Init, CollectorOK
<1>3. CountsOK
  BY LimitAssumption, NoneAssumption DEF Init, CountsOK
<1>4. ResultOK
  BY NoneAssumption DEF Init, ResultOK
<1> QED
  BY <1>1, <1>2, <1>3, <1>4 DEF IInv

LEMMA TakeInv ==
  ASSUME IInv, NEW fragment \in Answers(next_offset), pc = "reply",
         Refusal(fragment) = None, Take(fragment), ret' = ret,
         sent' = sent \cup {fragment},
         UNCHANGED <<text, manner, calls, asked, capabilities>>
  PROVE  IInv'
<1>1. fragment \in Fragments
  BY AnswersAreFragments DEF IInv
<1>2. /\ fragment.offset \in 0..OffsetMax /\ fragment.length \in Nat
      /\ next_offset \in Nat /\ MaxBytes \in Nat /\ OffsetMax \in Nat
      /\ MaxBytes <= OffsetMax /\ next_offset <= MaxBytes
      /\ Len(bytes) = next_offset /\ bytes = Beginning(next_offset)
  BY <1>1, LimitAssumption DEF Fragments, IInv, TypeOK, CollectorOK
<1>3. /\ fragment.offset = next_offset
      /\ next_offset + fragment.length <= MaxBytes
  BY <1>2, NoneAssumption DEF Refusal
<1>4. next_offset' = next_offset + fragment.length /\ next_offset' \in 0..OffsetMax
  BY <1>2, <1>3 DEF Take
<1>5. /\ bytes' = Beginning(next_offset') /\ bytes' \in Seq(Nat)
      /\ Len(bytes') = next_offset'
  <2>1. Payload(fragment) = [i \in 1..fragment.length |-> next_offset + i]
    BY <1>3 DEF Payload
  <2>2. bytes' = Beginning(next_offset) \o [i \in 1..fragment.length |-> next_offset + i]
    BY <1>2, <2>1 DEF Take
  <2>3. bytes' = Beginning(next_offset + fragment.length)
    BY <1>2, <2>2, BeginningGrows
  <2>4. next_offset + fragment.length \in Nat
    BY <1>2
  <2> HIDE DEF Beginning
  <2> QED
    BY <1>4, <2>3, <2>4, BeginningGrows
<1>6. TypeOK'
  BY <1>1, <1>4, <1>5 DEF IInv, TypeOK, Take
<1>7. CollectorOK'
  BY <1>3, <1>4, <1>5 DEF CollectorOK
<1>8. CountsOK'
  BY DEF IInv, TypeOK, CountsOK, Take
<1>9. ResultOK'
  <2>1. ret # "OK"
    BY NoneAssumption DEF IInv, ResultOK
  <2> QED
    BY <2>1 DEF IInv, ResultOK, Take
<1> QED
  BY <1>6, <1>7, <1>8, <1>9 DEF IInv
LEMMA RefuseInv ==
  ASSUME IInv, NEW fragment \in Answers(next_offset), pc = "reply",
         Refusal(fragment) # None, Refuse(fragment),
         sent' = sent \cup {fragment},
         UNCHANGED <<text, manner, calls, asked, capabilities>>
  PROVE  IInv'
<1>1. fragment \in Fragments
  BY AnswersAreFragments DEF IInv
<1>2. Refusal(fragment) \in Codes /\ Refusal(fragment) # "OK"
      /\ Refusal(fragment) # "CAPABILITIES_REQUEST_LIMIT"
  BY RefusalIsACode
<1>3. Refusal(fragment) # "CAPABILITIES_OFFSET_OVERFLOW"
  <2>1. /\ fragment.length \in Nat /\ next_offset \in Nat
        /\ Len(bytes) = next_offset /\ next_offset <= MaxBytes
        /\ MaxBytes \in Nat /\ OffsetMax \in Nat /\ MaxBytes <= OffsetMax
    BY <1>1, LimitAssumption DEF Fragments, IInv, TypeOK, CollectorOK
  <2> QED
    BY <2>1, NoneAssumption DEF Refusal
<1>4. TypeOK'
  BY <1>1, <1>2 DEF IInv, TypeOK, Refuse, Return
<1>5. CollectorOK' /\ CountsOK' /\ ResultOK'
  BY <1>2, <1>3 DEF IInv, CollectorOK, CountsOK, ResultOK, Refuse, Return
<1> QED
  BY <1>4, <1>5 DEF IInv

LEMMA StepInv == IInv /\ [Next]_vars => IInv'
<1> SUFFICES ASSUME IInv, [Next]_vars PROVE IInv'
  OBVIOUS
<1>1. CASE Begin
  <2>1. TypeOK'
    <3>1. calls' \in 0..MaxCalls
      BY <1>1, LimitAssumption DEF Begin, IInv, TypeOK
    <3> QED
      BY <1>1, <3>1, NothingYet DEF Begin, Return, monitor, IInv, TypeOK
  <2>2. CollectorOK'
    BY <1>1, LimitAssumption, NothingYet DEF Begin, CollectorOK
  <2>3. CountsOK' /\ ResultOK'
    BY <1>1, LimitAssumption, NoneAssumption
    DEF Begin, Return, monitor, IInv, CountsOK, ResultOK
  <2> QED
    BY <2>1, <2>2, <2>3 DEF IInv
<1>2. CASE Ask
  <2>1. asked = request_count /\ asked <= MaxRequests /\ asked \in Nat
        /\ MaxRequests \in Nat
    BY <1>2, LimitAssumption DEF Ask, IInv, CountsOK, TypeOK
  <2>2. TypeOK'
    BY <1>2, <2>1 DEF Ask, CountRequest, Return, monitor, collector, IInv, TypeOK
  <2>3. CollectorOK'
    BY <1>2 DEF Ask, collector, IInv, CollectorOK
  <2>4. CountsOK' /\ ResultOK'
    BY <1>2, <2>1, NoneAssumption
    DEF Ask, CountRequest, Return, monitor, collector, IInv, CountsOK, ResultOK
  <2> QED
    BY <2>2, <2>3, <2>4 DEF IInv
<1>3. CASE ExchangeFails
  <2>1. TypeOK'
    BY <1>3 DEF ExchangeFails, Return, monitor, collector, IInv, TypeOK
  <2>2. CollectorOK' /\ CountsOK' /\ ResultOK'
    BY <1>3, NoneAssumption DEF ExchangeFails, Return, monitor, collector, IInv,
       CollectorOK, CountsOK, ResultOK
  <2> QED
    BY <2>1, <2>2 DEF IInv
<1>4. CASE Receive
  <2>1. PICK fragment \in Answers(next_offset) :
          /\ sent' = sent \cup {fragment}
          /\ IF Refusal(fragment) = None
             THEN Take(fragment) /\ UNCHANGED ret
             ELSE Refuse(fragment)
    BY <1>4 DEF Receive
  <2>2. CASE Refusal(fragment) = None
    BY <1>4, <2>1, <2>2, TakeInv DEF Receive
  <2>3. CASE Refusal(fragment) # None
    BY <1>4, <2>1, <2>3, RefuseInv DEF Receive
  <2> QED
    BY <2>2, <2>3
<1>5. CASE Parse
  <2>1. TypeOK'
    BY <1>5 DEF Parse, Return, monitor, collector, IInv, TypeOK
  <2>2. CollectorOK' /\ CountsOK'
    BY <1>5, NoneAssumption DEF Parse, Return, monitor, collector, IInv,
       CollectorOK, CountsOK
  <2>3. ResultOK'
    <3>1. bytes = Beginning(Len(bytes))
      BY DEF IInv, CollectorOK
    <3> QED
      BY <1>5, <3>1, NoneAssumption
      DEF Parse, Return, monitor, collector, IInv, ResultOK
  <2> QED
    BY <2>1, <2>2, <2>3 DEF IInv
<1>6. CASE UNCHANGED vars
  BY <1>6 DEF vars, monitor, collector, IInv, TypeOK, CollectorOK, CountsOK,
     ResultOK
<1> QED
  BY <1>1, <1>2, <1>3, <1>4, <1>5, <1>6 DEF Next

-----------------------------------------------------------------------------
THEOREM Invariance == Spec => []IInv
<1> QED
  BY InitInv, StepInv, PTL DEF Spec

(* The variables keep their types: offsets stay within sixteen bits and    *)
(* the results are codes of the library.                                   *)
THEOREM TypeCorrect == Spec => []TypeOK
<1>1. IInv => TypeOK
  BY DEF IInv
<1> QED
  BY <1>1, Invariance, PTL

(* collector_append never leaves a gap, a repetition or a wrong offset,    *)
(* whichever fragments the monitor sends and however often.                *)
THEOREM FragmentsAreInOrder == Spec => []CollectedInOrder
<1>1. IInv => CollectedInOrder
  BY DEF IInv, CollectorOK, Beginning, CollectedInOrder
<1> QED
  BY <1>1, Invariance, PTL

(* The retrieval loop's limits hold for every size of them, the request    *)
(* limit is reported exactly when it is reached, and the overflow check of *)
(* the sixteen-bit offset can not fail.                                    *)
THEOREM Bounded == Spec => []RetrievalIsBounded
<1>1. IInv => RetrievalIsBounded
  BY DEF IInv, CollectorOK, CountsOK, RetrievalIsBounded
<1> QED
  BY <1>1, Invariance, PTL

(* The caller's structure is written from a text that the monitor ended    *)
(* and the parser accepted, and from nothing else.                         *)
THEOREM OnlyWholeTextsArePublished == Spec => []NothingPartialIsPublished
<1>1. IInv => NothingPartialIsPublished
  BY DEF IInv, ResultOK, Beginning, NothingPartialIsPublished
<1> QED
  BY <1>1, Invariance, PTL
-----------------------------------------------------------------------------
(* A text of the full size.                                                *)

Fits == manner = "exact" /\ text.length <= MaxBytes

(* Of a monitor that fills its fragments, what was collected so far is as  *)
(* many full fragments as were taken, or the whole text, of which the last *)
(* fragment alone may be shorter; so the requests can not run out before   *)
(* the text does.                                                          *)
ExactOK ==
  Fits =>
    /\ next_offset <= text.length
    /\ complete => next_offset = text.length
    /\ pc \in {"loop", "reply"} =>
         /\ ~complete
         /\ \/ next_offset = request_count * FragmentMax
            \/ next_offset = text.length
         /\ request_count > 0 => request_count * FragmentMax < next_offset + FragmentMax
    /\ complete \/ ret \notin {"CAPABILITIES_REQUEST_LIMIT", "CAPABILITIES_TOO_LARGE"}

LEMMA OneMore ==
  ASSUME NEW n \in Nat
  PROVE  /\ n * FragmentMax \in Nat
         /\ (n + 1) * FragmentMax = n * FragmentMax + FragmentMax
         /\ 0 * FragmentMax = 0
BY LimitAssumption

(* The limit leaves a request for the terminator of the longest text. *)
LEMMA LimitIsEnough == MaxBytes + FragmentMax <= MaxRequests * FragmentMax
<1> DEFINE k == MaxRequests - 1
<1>1. k \in Nat /\ MaxRequests = k + 1
  BY LimitAssumption
<1>2. MaxBytes <= k * FragmentMax
  BY RequestAssumption
<1>3. k * FragmentMax \in Nat /\ (k + 1) * FragmentMax = k * FragmentMax + FragmentMax
  BY <1>1, OneMore
<1>4. MaxRequests * FragmentMax = k * FragmentMax + FragmentMax
  BY <1>1, <1>3
<1> DEFINE product == k * FragmentMax
<1> HIDE DEF k, product
<1> QED
  BY <1>2, <1>3, <1>4, LimitAssumption DEF product

(* What such a monitor answers. *)
LEMMA ExactAnswer ==
  ASSUME TypeOK, Fits, next_offset <= text.length, NEW fragment \in Answers(next_offset)
  PROVE  /\ fragment.offset = next_offset
         /\ fragment.length \in Nat /\ next_offset + fragment.length <= text.length
         /\ \/ fragment.length = FragmentMax
            \/ fragment.length < FragmentMax /\ next_offset + fragment.length = text.length
<1>1. text.length \in Nat /\ next_offset \in Nat /\ FragmentMax \in Nat \ {0}
  BY TextAssumption, LimitAssumption DEF TypeOK
<1>2. fragment = [offset |-> next_offset, length |-> Remaining(next_offset)]
  BY DEF Answers, Fits
<1>3. Remaining(next_offset) = IF text.length - next_offset < FragmentMax
                               THEN text.length - next_offset ELSE FragmentMax
  BY <1>1 DEF Remaining
<1> QED
  BY <1>1, <1>2, <1>3

LEMMA ExactStep == IInv /\ ExactOK /\ [Next]_vars => ExactOK'
<1> SUFFICES ASSUME IInv, ExactOK, [Next]_vars, Fits' PROVE ExactOK'
  BY DEF ExactOK
<1>0. Fits /\ text' = text
  BY DEF Next, vars, monitor, Begin, Ask, ExchangeFails, Receive, Parse, Fits
<1>1. /\ text.length \in Nat /\ next_offset \in Nat /\ FragmentMax \in Nat \ {0}
      /\ request_count \in Nat
  BY TextAssumption, LimitAssumption DEF IInv, TypeOK
<1>2. CASE Begin
  <2>1. /\ next_offset' = 0 /\ request_count' = 0 /\ complete' = FALSE
        /\ ret' \in {None, "SYSTEM"} /\ 0 * FragmentMax = 0
    BY <1>2, OneMore DEF Begin, Return
  <2> QED
    BY <1>0, <1>1, <2>1, NoneAssumption DEF ExactOK
<1>3. CASE Ask
  <2>1. request_count < MaxRequests
    <3> SUFFICES ASSUME request_count >= MaxRequests PROVE FALSE
      BY <1>1, LimitAssumption
    <3>1. request_count = MaxRequests
      BY <1>1, <1>3, LimitAssumption DEF Ask, IInv, CountsOK
    <3>2. MaxRequests * FragmentMax < next_offset + FragmentMax /\ next_offset <= MaxBytes
      BY <1>0, <1>1, <1>3, <3>1, LimitAssumption DEF Ask, ExactOK, Fits
    <3>3. MaxRequests * FragmentMax \in Nat
      BY LimitAssumption, OneMore
    <3> DEFINE product == MaxRequests * FragmentMax
    <3> HIDE DEF product
    <3> QED
      BY <1>1, <3>2, <3>3, LimitIsEnough, LimitAssumption DEF product
  <2>2. pc' = "reply" /\ UNCHANGED <<ret, next_offset, request_count, complete>>
    BY <1>1, <1>3, <2>1, LimitAssumption DEF Ask, collector
  <2> QED
    BY <1>0, <1>3, <2>2 DEF Ask, ExactOK
<1>4. CASE ExchangeFails
  BY <1>0, <1>4 DEF ExchangeFails, Return, collector, ExactOK
<1>5. CASE Receive
  <2>1. PICK fragment \in Answers(next_offset) :
          IF Refusal(fragment) = None
          THEN Take(fragment) /\ UNCHANGED ret
          ELSE Refuse(fragment)
    BY <1>5 DEF Receive
  <2>2. pc = "reply" /\ next_offset <= text.length /\ text.length <= MaxBytes
        /\ Len(bytes) = next_offset /\ MaxBytes \in Nat
    BY <1>0, <1>5, LimitAssumption DEF Receive, ExactOK, Fits, IInv, CollectorOK
  <2>3. /\ fragment.offset = next_offset
        /\ fragment.length \in Nat /\ next_offset + fragment.length <= text.length
        /\ \/ fragment.length = FragmentMax
           \/ fragment.length < FragmentMax /\ next_offset + fragment.length = text.length
    BY <1>0, <2>2, ExactAnswer DEF IInv
  <2>4. CASE Refusal(fragment) = None
    <3>1. /\ request_count' = request_count + 1 /\ ret' = ret
          /\ complete' = (fragment.length = 0)
          /\ next_offset' = next_offset + fragment.length
          /\ pc' = IF fragment.length = 0 THEN "parse" ELSE "loop"
      BY <2>1, <2>4 DEF Take
    <3>2. ret = None
      BY <2>2 DEF IInv, ResultOK
    <3>3. CASE fragment.length = 0
      BY <1>0, <1>1, <2>2, <2>3, <3>1, <3>2, <3>3, NoneAssumption DEF ExactOK
    <3>4. CASE fragment.length # 0
      <4>1. next_offset = request_count * FragmentMax
        BY <1>0, <1>1, <2>2, <2>3, <3>4 DEF ExactOK
      <4>2. request_count' * FragmentMax = next_offset + FragmentMax
        BY <1>1, <3>1, <4>1, OneMore
      <4>3. /\ next_offset' <= text.length /\ next_offset < next_offset'
            /\ next_offset' = request_count' * FragmentMax \/ next_offset' = text.length
        BY <1>1, <2>3, <3>1, <3>4, <4>2
      <4>4. request_count' * FragmentMax < next_offset' + FragmentMax
        BY <1>1, <2>3, <3>1, <4>2, <4>3
      <4> QED
        BY <1>0, <3>1, <3>2, <3>4, <4>3, <4>4, NoneAssumption DEF ExactOK
    <3> QED
      BY <3>3, <3>4
  <2>5. CASE Refusal(fragment) # None
    <3>1. Refusal(fragment) # "CAPABILITIES_TOO_LARGE"
      BY <1>1, <2>2, <2>3, NoneAssumption DEF Refusal
    <3>2. Refusal(fragment) # "CAPABILITIES_REQUEST_LIMIT"
      BY <2>5, RefusalIsACode
    <3>3. /\ UNCHANGED <<next_offset, complete>> /\ pc' = "returned"
          /\ ret' = Refusal(fragment)
      BY <2>1, <2>5 DEF Refuse, Return
    <3> QED
      BY <1>0, <3>1, <3>2, <3>3 DEF ExactOK
  <2> QED
    BY <2>4, <2>5
<1>6. CASE Parse
  <2>1. complete /\ pc' = "returned" /\ UNCHANGED <<next_offset, complete>>
    BY <1>6 DEF Parse, Return, collector, IInv, ResultOK
  <2> QED
    BY <1>0, <2>1 DEF ExactOK
<1>7. CASE UNCHANGED vars
  BY <1>0, <1>7 DEF vars, monitor, collector, ExactOK
<1> QED
  BY <1>2, <1>3, <1>4, <1>5, <1>6, <1>7 DEF Next

(* A text as long as the library's buffer can be read from a monitor that  *)
(* fills its fragments: neither the request limit nor the buffer stops it, *)
(* for every fragment size whose requests are enough for the buffer.       *)
THEOREM FullSizeFits == Spec => []FullSizeIsRetrievable
<1>1. Init => ExactOK
  BY TextAssumption, NoneAssumption DEF Init, ExactOK, Fits
<1>2. IInv /\ ExactOK => FullSizeIsRetrievable
  BY DEF IInv, CollectorOK, ExactOK, Fits, FullSizeIsRetrievable
<1> QED
  BY <1>1, <1>2, ExactStep, Invariance, PTL DEF Spec
-----------------------------------------------------------------------------
(* How many steps a retrieval has left at most. *)

StepsLeft ==
  CASE pc = "loop" -> 2 * (MaxRequests - asked) + 2
    [] pc = "reply" -> 2 * (MaxRequests - asked) + 3
    [] pc = "parse" -> 1
    [] OTHER -> 0

LEMMA StepsAreCounted ==
  IInv => StepsLeft \in 0..2 * MaxRequests + 2
<1> SUFFICES ASSUME IInv PROVE StepsLeft \in 0..2 * MaxRequests + 2
  OBVIOUS
<1>1. /\ asked \in Nat /\ asked <= MaxRequests /\ MaxRequests \in Nat
      /\ pc = "reply" => asked = request_count + 1 /\ request_count \in Nat
      /\ pc \in {"idle", "loop", "reply", "parse", "returned"}
  BY LimitAssumption DEF IInv, CountsOK, TypeOK
<1> QED
  BY <1>1 DEF StepsLeft

LEMMA StepsGoDown ==
  IInv /\ IInv' /\ (Ask \/ ExchangeFails \/ Receive \/ Parse) => StepsLeft' < StepsLeft
<1> SUFFICES ASSUME IInv, IInv', Ask \/ ExchangeFails \/ Receive \/ Parse
             PROVE  StepsLeft' < StepsLeft
  OBVIOUS
<1>1. /\ asked \in Nat /\ asked <= MaxRequests /\ MaxRequests \in Nat
      /\ asked' \in Nat /\ asked' <= MaxRequests
  BY LimitAssumption DEF IInv, CountsOK, TypeOK
<1>2. CASE Ask
  <2>1. pc = "loop" /\ (pc' = "returned" \/ (pc' = "reply" /\ asked' = asked + 1))
    BY <1>1, <1>2 DEF Ask, Return, CountRequest
  <2> QED
    BY <1>1, <2>1 DEF StepsLeft
<1>3. CASE ExchangeFails
  <2>1. pc = "reply" /\ pc' = "returned"
    BY <1>3 DEF ExchangeFails, Return
  <2> QED
    BY <1>1, <2>1 DEF StepsLeft
<1>4. CASE Receive
  <2>1. pc = "reply" /\ asked' = asked /\ pc' \in {"loop", "parse", "returned"}
    BY <1>4 DEF Receive, Take, Refuse, Return
  <2> QED
    BY <1>1, <2>1 DEF StepsLeft
<1>5. CASE Parse
  <2>1. pc = "parse" /\ pc' = "returned"
    BY <1>5 DEF Parse, Return
  <2> QED
    BY <1>1, <2>1 DEF StepsLeft
<1> QED
  BY <1>2, <1>3, <1>4, <1>5

(* The retrieval loop can not go on: every step of it, whatever the        *)
(* monitor answers, leaves fewer to come, and there are never more than    *)
(* two for each request allowed and two.                                   *)
THEOREM RetrievalIsShort ==
  Spec => [](StepsLeft \in 0..2 * MaxRequests + 2)
            /\ [][(Ask \/ ExchangeFails \/ Receive \/ Parse) => StepsLeft' < StepsLeft]_vars
<1>1. IInv /\ IInv' /\ [Next]_vars =>
        [(Ask \/ ExchangeFails \/ Receive \/ Parse) => StepsLeft' < StepsLeft]_vars
  BY StepsGoDown
<1> QED
  BY <1>1, StepsAreCounted, Invariance, PTL DEF Spec
=============================================================================
