---------------------- MODULE ValidationRunnersProofs ----------------------
(***************************************************************************)
(* The safety properties of ValidationRunners for every range of           *)
(* brightness, set of displays and input values, and every bound on the    *)
(* calls, on what a monitor drops or holds back and on who interferes.     *)
(*                                                                         *)
(* What a reversible SET may conclude from a value it reads depends on     *)
(* what the monitor has yet to take: RestorationOK says, at every step of  *)
(* the call, where the two values it sent are.                             *)
(***************************************************************************)
EXTENDS ValidationRunners, TLAPS

Restoring == {"restore", "restore_settle", "restore_verify"}
Sending == {"target", "settle", "verify"}
Reversing == {"pre_get"} \cup Sending \cup Restoring

(* What a plan holds, and which operation can be where. *)
PlanOK ==
  \A i \in DOMAIN plan :
    /\ plan[i].do \in {"delay", "read", "write"}
    /\ plan[i].code = Brightness => plan[i].value \in Values

ControlOK ==
  /\ pc \in {"resolve", "vcp"} => op \in {"alt", "input", "picture"} /\ plan # <<>>
  /\ pc = "vcp" => op # "alt"
  /\ pc \in {"construct", "run", "release"} => op \in {"get", "set", "alt"}
  /\ pc = "release" => ret \in Codes \ {"OK"}
  /\ pc \in Reversing => op = "reversible"
  /\ pc \in Sending \cup Restoring =>
       /\ report.original \in Values /\ report.target \in Values
       /\ report.target # report.original
  /\ pc \in Restoring => after \in [code : Errors, replaced : BOOLEAN]

Typed == TypeOK /\ PlanOK /\ ControlOK

LEMMA Constants ==
  /\ None \notin Values
  /\ \A v \in Values : v \in Nat
  BY ValueAssumption, NoneAssumption

LEMMA EventTypes ==
  /\ \A what \in {"delay", "read", "construct", "release"} : Event(what) \in Events
  /\ \A v \in Values : Write(Brightness, v) \in Events
  /\ \A v \in InputValues : Write("0xf4", v) \in Events /\ Write("0x60", v) \in Events
  /\ Write("GET", None) \in Events
  /\ Write("0x15", 49) \in Events /\ Write("0x15", 1) \in Events
  BY DEF Event, Write, Events

LEMMA PlanHead ==
  ASSUME plan \in Seq(Events), plan # <<>>
  PROVE  /\ Head(plan) \in Events /\ Tail(plan) \in Seq(Events)
         /\ Head(plan) = plan[1] /\ 1 \in DOMAIN plan
         /\ Len(Tail(plan)) = Len(plan) - 1 /\ Len(plan) \in Nat \ {0}
         /\ \A i \in 1..Len(plan) - 1 : Tail(plan)[i] = plan[i + 1]
  OBVIOUS

(* Every call begins with a plan of its own, or is rejected. *)
LEMMA Beginning ==
  ASSUME NEW o, NEW l, NEW p, Begin(o, l, p), TypeOK,
         o \in {"get", "set", "alt", "input", "picture", "reversible"},
         l \in {"resolve", "construct", "pre_get"}, p \in Seq(Events)
  PROVE  TypeOK'
<1>1. EmptyReport \in Reports
  BY DEF EmptyReport, Reports, Outcomes, Errors
<1>2. calls' \in 0..MaxCalls
  BY BoundAssumption DEF Begin, TypeOK
<1>3. late' \in BOOLEAN /\ touched' \in BOOLEAN
  BY DEF Begin
<1>4. report' \in Reports
  BY <1>1 DEF Begin, TypeOK
<1>5. UNCHANGED <<brightness, maximum, pending, dropped, touches>>
  BY DEF Begin, monitor
<1> QED BY <1>2, <1>3, <1>4, <1>5 DEF Begin, TypeOK

LEMMA Rejecting ==
  ASSUME NEW o, NEW code \in Codes, Reject(o, code), TypeOK,
         o \in {"get", "set", "alt", "input", "picture", "reversible"}
  PROVE  TypeOK'
<1>1. calls' \in 0..MaxCalls
  BY BoundAssumption DEF Reject, TypeOK
<1>2. late' \in BOOLEAN /\ touched' \in BOOLEAN
  BY DEF Reject
<1>3. UNCHANGED <<brightness, maximum, pending, dropped, touches, report>>
  BY DEF Reject, monitor
<1> QED BY <1>1, <1>2, <1>3 DEF Reject, Return, TypeOK

(* What may happen to the monitor. *)
MonitorTyped ==
  /\ brightness \in Values /\ maximum \in Maxima /\ pending \in Seq(Values)
  /\ Len(pending) <= MaxPending /\ dropped \in 0..MaxDrops

LEMMA MonitorArrives ==
  ASSUME MonitorTyped, NEW v \in Values, Arrives(v)
  PROVE  /\ MonitorTyped' /\ Final' = v
         /\ dropped' = dropped /\ brightness' = brightness /\ maximum' = maximum
         /\ pending' = Append(pending, v)
  BY BoundAssumption DEF MonitorTyped, Arrives, Final

LEMMA MonitorAccepts ==
  ASSUME MonitorTyped, NEW v \in Values, Accepts(v)
  PROVE  /\ MonitorTyped' /\ brightness' = brightness /\ maximum' = maximum
         /\ \/ Final' = v /\ dropped' = dropped /\ pending' = Append(pending, v)
            \/ Final' = Final /\ dropped' = dropped + 1 /\ pending' = pending
<1>1. CASE Arrives(v)
  BY <1>1, MonitorArrives
<1>2. CASE ~Arrives(v)
  BY <1>2, BoundAssumption DEF Accepts, MonitorTyped, Final
<1> QED BY <1>1, <1>2

LEMMA MonitorTakes ==
  ASSUME MonitorTyped, Take
  PROVE  MonitorTyped' /\ Final' = Final
<1>1. /\ Len(pending) \in Nat \ {0} /\ Head(pending) = pending[1]
      /\ Len(Tail(pending)) = Len(pending) - 1 /\ Tail(pending) \in Seq(Values)
      /\ \A i \in 1..Len(pending) - 1 : Tail(pending)[i] = pending[i + 1]
      /\ Head(pending) \in Values
  BY DEF MonitorTyped, Take
<1>2. MonitorTyped'
  BY <1>1, BoundAssumption DEF MonitorTyped, Take
<1>3. CASE Len(pending) = 1
  <2>1. pending' = <<>> /\ brightness' = pending[1]
    BY <1>1, <1>3 DEF Take
  <2>2. Final' = pending[1]
    BY <2>1 DEF Final
  <2>3. Final = pending[1]
    BY <1>3 DEF Final, Take
  <2> QED BY <1>2, <2>2, <2>3
<1>4. CASE Len(pending) # 1
  <2>1. Len(pending') = Len(pending) - 1 /\ pending' # <<>>
    <3>1. Len(Tail(pending)) \in Nat \ {0}
      BY <1>1, <1>4
    <3>2. Tail(pending) # <<>>
      BY <3>1, Len(<<>>) = 0
    <3> QED BY <1>1, <3>2 DEF Take
  <2>2. pending'[Len(pending')] = pending[Len(pending)]
    <3>1. Len(pending) - 1 \in 1..Len(pending) - 1
      BY <1>1, <1>4
    <3>2. Tail(pending)[Len(pending) - 1] = pending[Len(pending)]
      BY <1>1, <3>1
    <3> QED BY <2>1, <3>2 DEF Take
  <2>3. Final' = pending[Len(pending)]
    BY <2>1, <2>2 DEF Final
  <2> QED BY <1>2, <2>3 DEF Final, Take
<1> QED BY <1>3, <1>4

LEMMA TypeInit == Init => Typed
<1> SUFFICES ASSUME Init PROVE Typed
  OBVIOUS
<1>1. report \in Reports
  BY DEF Init, EmptyReport, Reports, Outcomes, Errors
<1>2. calls \in 0..MaxCalls /\ touches \in 0..MaxTouches /\ dropped \in 0..MaxDrops
  BY BoundAssumption DEF Init
<1>3. pending \in Seq(Values) /\ Len(pending) <= MaxPending
  BY BoundAssumption DEF Init
<1>4. touched \in BOOLEAN /\ late \in BOOLEAN
  BY DEF Init
<1>5. plan \in Seq(Events) /\ trace \in Seq(Events)
  BY DEF Init
<1>6. TypeOK
  BY <1>1, <1>2, <1>3, <1>4, <1>5 DEF Init, TypeOK
<1>7. PlanOK
  BY DEF PlanOK, Init
<1>8. ControlOK
  BY DEF ControlOK, Init, Reversing, Sending, Restoring
<1> QED BY <1>6, <1>7, <1>8 DEF Typed

(* The steps that leave the monitor and the call to others. *)
LEMMA Surroundings ==
  ASSUME Typed, Take \/ \E v \in Values : Touch(v)
  PROVE  Typed'
<1>1. CASE Take
  <2>1. MonitorTyped' BY <1>1, MonitorTakes DEF Typed, TypeOK, MonitorTyped
  <2> QED BY <1>1, <2>1
        DEF Take, Typed, TypeOK, PlanOK, ControlOK, MonitorTyped, others, call, runner
<1>2. ASSUME NEW v \in Values, Touch(v) PROVE Typed'
  BY <1>2, BoundAssumption DEF Touch, Typed, TypeOK, PlanOK, ControlOK, call, runner
<1> QED BY <1>1, <1>2

(* Every way to begin a call. *)
Beginnings ==
  \/ \E correlated \in BOOLEAN :
       \/ GetValidation(correlated) \/ ReversibleSet(correlated)
       \/ \E v \in Values : SetValidation(correlated, v)
  \/ \E v \in InputValues :
       \/ \E provider \in {"DCPDP13", "PS190"}, count \in 0..3 :
            AltInputRunner(provider, v, count)
       \/ \E method \in {"STANDARD", "LG_ALT", "UNKNOWN"} : SetInput(method, v)
  \/ \E mode \in {"VIVID", "READER", "UNKNOWN"} : SetPictureMode(mode)

(* What a call may be to begin with. *)
Starts(o, l, p) ==
  /\ Begin(o, l, p) /\ p \in Seq(Events)
  /\ \/ /\ l = "resolve" /\ o \in {"alt", "input", "picture"}
        /\ \E e \in Events : (p = <<e>> \/ p = Delayed(e)) /\ e.do = "write"
                              /\ e.code # Brightness
     \/ /\ l = "construct" /\ o \in {"get", "alt"}
        /\ \A i \in DOMAIN p : p[i].do \in {"delay", "read", "write"}
                               /\ p[i].code # Brightness
     \/ /\ l = "construct" /\ o = "set"
        /\ \E v \in Values : p = Twice(Write(Brightness, v))
     \/ l = "pre_get" /\ o = "reversible" /\ p = <<>>

(* Why one may be refused. *)
Refuses(o, code) ==
  /\ Reject(o, code) /\ o \in {"get", "set", "alt", "input", "picture", "reversible"}
  /\ code \in Codes \ {"OK"} /\ (o = "reversible" => code = "SAFETY_GATE")

LEMMA BeginningsAre ==
  ASSUME Beginnings
  PROVE  (\E o, l, p : Starts(o, l, p)) \/ (\E o, code : Refuses(o, code))
<1> DEFINE Rejected == \E o, code : Refuses(o, code)
           Started == \E o, l, p : Starts(o, l, p)
<1>0. /\ "ARGUMENT" \in Codes /\ "SAFETY_GATE" \in Codes /\ "UNSUPPORTED_PROVIDER" \in Codes
  BY DEF Codes, BindingErrors, SetErrors
<1>01. ASSUME NEW o \in {"get", "set", "alt", "input", "picture", "reversible"},
              NEW code \in {"ARGUMENT", "SAFETY_GATE", "UNSUPPORTED_PROVIDER"},
              Reject(o, code), o = "reversible" => code = "SAFETY_GATE"
       PROVE  Rejected
  <2>1. Refuses(o, code)
    BY <1>0, <1>01 DEF Refuses
  <2> QED BY <2>1
<1>1. ASSUME NEW correlated \in BOOLEAN, GetValidation(correlated) PROVE Started \/ Rejected
  <2>1. CASE correlated
    <3> DEFINE p == <<Write("GET", None), Event("delay"), Event("read")>>
    <3>1. p \in Seq(Events) BY EventTypes
    <3>2. \A i \in DOMAIN p : p[i].do \in {"delay", "read", "write"} /\ p[i].code # Brightness
      <4>1. DOMAIN p = 1..3 /\ p[1] = Write("GET", None) /\ p[2] = Event("delay")
            /\ p[3] = Event("read")
        OBVIOUS
      <4> QED BY <4>1, NoneAssumption DEF Write, Event, Brightness
    <3>3. Starts("get", "construct", p)
      BY <1>1, <2>1, <3>1, <3>2 DEF GetValidation, Starts
    <3> QED BY <3>3
  <2>2. CASE ~correlated
    BY <1>01, <1>1, <2>2 DEF GetValidation
  <2> QED BY <2>1, <2>2
<1>2. ASSUME NEW correlated \in BOOLEAN, ReversibleSet(correlated) PROVE Started \/ Rejected
  <2>1. CASE correlated
    <3>1. Starts("reversible", "pre_get", <<>>)
      BY <1>2, <2>1 DEF ReversibleSet, Starts
    <3> QED BY <3>1
  <2>2. CASE ~correlated
    BY <1>01, <1>2, <2>2 DEF ReversibleSet
  <2> QED BY <2>1, <2>2
<1>3. ASSUME NEW correlated \in BOOLEAN, NEW v \in Values, SetValidation(correlated, v)
      PROVE  Started \/ Rejected
  <2>1. CASE correlated
    <3>1. Twice(Write(Brightness, v)) \in Seq(Events)
      BY EventTypes DEF Twice
    <3>2. Starts("set", "construct", Twice(Write(Brightness, v)))
      BY <1>3, <2>1, <3>1 DEF SetValidation, Starts
    <3> QED BY <3>2
  <2>2. CASE ~correlated
    BY <1>01, <1>3, <2>2 DEF SetValidation
  <2> QED BY <2>1, <2>2
<1>4. ASSUME NEW v \in InputValues, NEW provider, NEW count,
             AltInputRunner(provider, v, count)
      PROVE  Started \/ Rejected
  <2>1. ASSUME NEW p, Begin("alt", "construct", p),
               p = Delayed(Write("0xf4", v)) \/ p = Twice(Write("0xf4", v))
        PROVE  Started
    <3>1. p \in Seq(Events)
      <4>1. Delayed(Write("0xf4", v)) \in Seq(Events)
        BY EventTypes DEF Delayed
      <4>2. Twice(Write("0xf4", v)) \in Seq(Events)
        BY EventTypes DEF Twice
      <4> QED BY <2>1, <4>1, <4>2
    <3>2. \A i \in DOMAIN p : p[i].do \in {"delay", "read", "write"} /\ p[i].code # Brightness
      <4>1. \A i \in DOMAIN p : p[i] = Event("delay") \/ p[i] = Write("0xf4", v)
        BY <2>1 DEF Delayed, Twice
      <4> QED BY <4>1, NoneAssumption DEF Write, Event, Brightness
    <3>3. Starts("alt", "construct", p)
      BY <2>1, <3>1, <3>2 DEF Starts
    <3> QED BY <3>3
  <2> QED BY <1>01, <1>4, <2>1 DEF AltInputRunner
<1>5. ASSUME NEW o \in {"alt", "input", "picture"}, NEW e \in Events, NEW p,
             Begin(o, "resolve", p), p = <<e>> \/ p = Delayed(e),
             e.do = "write", e.code # Brightness
      PROVE  Started
  <2>1. p \in Seq(Events)
    <3>1. <<e>> \in Seq(Events) /\ Delayed(e) \in Seq(Events)
      BY EventTypes DEF Delayed
    <3> QED BY <1>5, <3>1
  <2>2. Starts(o, "resolve", p)
    BY <1>5, <2>1 DEF Starts
  <2> QED BY <2>2
<1>6. ASSUME NEW v \in InputValues, NEW method, SetInput(method, v)
      PROVE  Started \/ Rejected
  <2>1. /\ Write("0x60", v) \in Events /\ Write("0xf4", v) \in Events
        /\ Write("0x60", v).do = "write" /\ Write("0x60", v).code # Brightness
        /\ Write("0xf4", v).do = "write" /\ Write("0xf4", v).code # Brightness
    BY EventTypes DEF Write, Brightness
  <2>2. CASE Begin("input", "resolve", <<Write("0x60", v)>>)
    BY <1>5, <2>1, <2>2
  <2>3. CASE Begin("alt", "resolve", Delayed(Write("0xf4", v)))
    BY <1>5, <2>1, <2>3
  <2> QED BY <1>01, <1>6, <2>2, <2>3 DEF SetInput
<1>7. ASSUME NEW mode, SetPictureMode(mode) PROVE Started \/ Rejected
  <2>1. /\ Write("0x15", 49) \in Events /\ Write("0x15", 1) \in Events
        /\ Write("0x15", 49).do = "write" /\ Write("0x15", 49).code # Brightness
        /\ Write("0x15", 1).do = "write" /\ Write("0x15", 1).code # Brightness
    BY EventTypes DEF Write, Brightness
  <2>2. CASE Begin("picture", "resolve", <<Write("0x15", 49)>>)
    BY <1>5, <2>1, <2>2
  <2>3. CASE Begin("picture", "resolve", <<Write("0x15", 1)>>)
    BY <1>5, <2>1, <2>3
  <2> QED BY <1>01, <1>7, <2>2, <2>3 DEF SetPictureMode
<1> QED BY <1>1, <1>2, <1>3, <1>4, <1>6, <1>7 DEF Beginnings

LEMMA StartsTyped ==
  ASSUME Typed, NEW o, NEW l, NEW p, Starts(o, l, p)
  PROVE  Typed'
<1>1. TypeOK'
  BY Beginning DEF Starts, Typed
<1>2. plan' = p /\ pc' = l /\ op' = o
  BY DEF Starts, Begin
<1>3. \/ l = "resolve" /\ o \in {"alt", "input", "picture"} /\ p # <<>>
      \/ l = "construct" /\ o \in {"get", "set", "alt"}
      \/ l = "pre_get" /\ o = "reversible"
  <2>1. ASSUME NEW e, p = <<e>> \/ p = Delayed(e) PROVE p # <<>>
    BY <2>1 DEF Delayed
  <2> QED BY <2>1 DEF Starts
<1>4. ControlOK'
  BY <1>2, <1>3 DEF ControlOK, Reversing, Sending, Restoring
<1>5. \A i \in DOMAIN p : /\ p[i].do \in {"delay", "read", "write"}
                          /\ p[i].code = Brightness => p[i].value \in Values
  <2>1. CASE l = "resolve"
    <3>1. PICK e \in Events : (p = <<e>> \/ p = Delayed(e)) /\ e.do = "write"
                                /\ e.code # Brightness
      BY <2>1 DEF Starts
    <3>2. \A i \in DOMAIN p : p[i] = e \/ p[i] = Event("delay")
      BY <3>1 DEF Delayed
    <3> QED BY <3>1, <3>2, NoneAssumption DEF Event
  <2>2. CASE l = "construct" /\ o # "set"
    BY <2>2 DEF Starts
  <2>3. CASE o = "set"
    <3>1. PICK v \in Values : p = Twice(Write(Brightness, v))
      BY <2>3 DEF Starts
    <3>2. \A i \in DOMAIN p : p[i] = Write(Brightness, v) \/ p[i] = Event("delay")
      BY <3>1 DEF Twice
    <3> QED BY <3>2, NoneAssumption DEF Event, Write
  <2>4. CASE l = "pre_get"
    BY <2>4 DEF Starts
  <2> QED BY <1>3, <2>1, <2>2, <2>3, <2>4
<1>6. PlanOK'
  BY <1>2, <1>5 DEF PlanOK
<1> QED BY <1>1, <1>4, <1>6 DEF Typed

LEMMA RejectedTyped ==
  ASSUME Typed, NEW o, NEW code, Refuses(o, code)
  PROVE  Typed'
<1>1. TypeOK'
  BY Rejecting DEF Typed, Refuses
<1>2. plan' = <<>> /\ pc' = "returned"
  BY DEF Refuses, Reject, Return
<1> QED BY <1>1, <1>2 DEF Typed, PlanOK, ControlOK, Reversing, Sending, Restoring

(* A step of the transactions keeps its call, and of the plan a suffix.    *)
LEMMA TransactionsTyped ==
  ASSUME Typed, Resolve \/ Vcp \/ Construct \/ Transact \/ FailTransaction \/ Release
  PROVE  Typed'
<1> USE DEF Typed
<1>0. /\ \A what \in {"construct", "release"} : Event(what) \in Events
      /\ Errors \subseteq Codes /\ {"WRITE", "READ", "SYSTEM", "OK", "REPLY"} \subseteq Errors
      /\ {"SERVICE_CONSTRUCTION", "UNSUPPORTED_PROVIDER",
          "UNSUPPORTED_CAPABILITY", "SAFETY_GATE"} \subseteq Codes
      /\ BindingErrors \subseteq Codes /\ SetErrors \subseteq Codes
      /\ {"WRITE", "READ", "SYSTEM"} \subseteq Codes \ {"OK"}
  BY EventTypes DEF Codes, Errors, BindingErrors, SetErrors
<1>1. CASE Resolve
  <2>1. /\ pc' \in {"returned", "construct", "vcp"} /\ ret' \in Codes \cup {None}
        /\ pc' = "construct" => op = "alt"
        /\ pc' = "vcp" => op # "alt"
    BY <1>0, <1>1 DEF Resolve, Return, Goto, TargetFault, TypeOK
  <2> QED BY <1>1, <2>1
        DEF Resolve, TypeOK, PlanOK, ControlOK, monitor, others, call, runner,
            Reversing, Sending, Restoring
<1>2. CASE Vcp
  <2>1. Head(plan) \in Events
    BY <1>2, PlanHead DEF TypeOK, ControlOK, Vcp
  <2>2. trace' \in Seq(Events) /\ ret' \in Codes /\ pc' = "returned" /\ plan' = <<>>
    <3>1. CASE Did(Head(plan)) /\ (Return("OK") \/ Return("WRITE"))
      BY <1>0, <1>2, <2>1, <3>1 DEF Vcp, Did, Return, TypeOK
    <3>2. CASE UNCHANGED trace /\ \E e \in SetErrors \cup {"SERVICE_CONSTRUCTION"} : Return(e)
      BY <1>0, <1>2, <3>2 DEF Vcp, Return, TypeOK
    <3> QED BY <1>2, <3>1, <3>2 DEF Vcp
  <2> QED BY <1>2, <2>2
        DEF Vcp, Elsewhere, TypeOK, PlanOK, ControlOK, monitor, others, call,
            Reversing, Sending, Restoring
<1>3. CASE Construct
  <2>1. /\ trace' \in Seq(Events) /\ ret' \in Codes \cup {None}
        /\ pc' \in {"run", "returned"}
    <3>1. CASE Goto("run") /\ Did(Event("construct"))
      BY <1>0, <3>1 DEF Did, Goto, TypeOK
    <3>2. CASE Return("SERVICE_CONSTRUCTION") /\ UNCHANGED trace
      BY <1>0, <3>2 DEF Return, TypeOK
    <3> QED BY <1>3, <3>1, <3>2 DEF Construct
  <2> QED BY <1>3, <2>1
        DEF Construct, Elsewhere, TypeOK, PlanOK, ControlOK, monitor, others, call,
            Reversing, Sending, Restoring
<1>4. CASE Transact
  <2>1. PICK e : e = Head(plan)
    OBVIOUS
  <2>2. /\ e \in Events /\ e = plan[1] /\ 1 \in DOMAIN plan /\ Tail(plan) \in Seq(Events)
        /\ e.code = Brightness => e.value \in Values
    BY <1>4, <2>1, PlanHead DEF Transact, TypeOK, PlanOK
  <2>3. MonitorTyped'
    BY <1>4, <2>1, <2>2, MonitorAccepts DEF Transact, MonitorTyped, TypeOK, monitor
  <2>4. PlanOK'
    BY <1>4, PlanHead DEF Transact, PlanOK, TypeOK
  <2>5. trace' \in Seq(Events)
    BY <1>4, <2>1, <2>2 DEF Transact, Did, TypeOK
  <2> QED BY <1>4, <2>2, <2>3, <2>4, <2>5
        DEF Transact, Elsewhere, TypeOK, MonitorTyped, ControlOK, others, call,
            Reversing, Sending, Restoring
<1>5. CASE FailTransaction
  <2>1. PICK e : e = Head(plan)
    OBVIOUS
  <2>2. /\ e \in Events /\ e.code = Brightness => e.value \in Values
    BY <1>5, <2>1, PlanHead DEF FailTransaction, TypeOK, PlanOK
  <2>3. MonitorTyped'
    BY <1>5, <2>1, <2>2, MonitorArrives DEF FailTransaction, MonitorTyped, TypeOK, monitor
  <2>4. trace' \in Seq(Events) /\ ret' \in Codes \ {"OK"} /\ plan' = <<>> /\ pc' = "release"
    BY <1>0, <1>5, <2>1, <2>2 DEF FailTransaction, Did, TypeOK
  <2> QED BY <1>5, <2>3, <2>4
        DEF FailTransaction, Elsewhere, TypeOK, MonitorTyped, PlanOK, ControlOK, others,
            call, Reversing, Sending, Restoring
<1>6. CASE Release
  <2>1. trace' \in Seq(Events) /\ ret' \in Codes /\ pc' = "returned"
    BY <1>0, <1>6 DEF Release, Did, Return, TypeOK, ControlOK
  <2> QED BY <1>6, <2>1
        DEF Release, Elsewhere, TypeOK, PlanOK, ControlOK, monitor, others, call,
            Reversing, Sending, Restoring
<1> QED BY <1>1, <1>2, <1>3, <1>4, <1>5, <1>6

(* The steps of a reversible SET. *)
LEMMA AdjacentIs ==
  ASSUME NEW v \in Values, NEW max \in Values, Adjacent(v, max) # None
  PROVE  Adjacent(v, max) \in Values /\ Adjacent(v, max) # v
<1>1. /\ v \in Nat /\ max \in Nat /\ 0..v \subseteq Values /\ 0..max \subseteq Values
  BY ValueAssumption
<1>2. CASE v > 0
  <2>1. v - 1 \in 0..v BY <1>1, <1>2
  <2> QED BY <1>1, <1>2, <2>1 DEF Adjacent
<1>3. CASE ~(v > 0)
  <2>1. max > 0 /\ v < max
    BY <1>3 DEF Adjacent
  <2>2. v + 1 \in 0..max BY <1>1, <2>1
  <2> QED BY <1>1, <1>3, <2>1, <2>2 DEF Adjacent
<1> QED BY <1>2, <1>3

LEMMA Reporting ==
  ASSUME report \in Reports, NEW o \in Outcomes, NEW e \in Errors, NEW v \in Values,
         NEW t \in Values
  PROVE  /\ [report EXCEPT !.outcome = o] \in Reports
         /\ [report EXCEPT !.outcome = o, !.original = v] \in Reports
         /\ [report EXCEPT !.original = v, !.target = t] \in Reports
         /\ [report EXCEPT !.written = TRUE] \in Reports
         /\ [report EXCEPT !.verify_error = e, !.outcome = o] \in Reports
         /\ [report EXCEPT !.restoring = TRUE, !.restore_error = e, !.outcome = o] \in Reports
         /\ [report EXCEPT !.restoring = TRUE, !.restored = TRUE] \in Reports
  BY DEF Reports

Reversals ==
  PreGet \/ TargetSet \/ Settle \/ Verify \/ RestoreSet \/ RestoreSettle \/ RestoreVerify

LEMMA ReversalsTyped ==
  ASSUME Typed, Reversals
  PROVE  Typed'
<1> USE DEF Typed
<1>0. /\ Errors \subseteq Codes /\ ReadErrors \subseteq Errors
      /\ {"WRITE", "SYSTEM", "OK", "VERIFY_MISMATCH"} \subseteq Errors /\ "ARGUMENT" \in Codes
      /\ {"OK", "PRE_GET_FAILED", "NO_ADJACENT_TARGET", "TARGET_WRITE_FAILED",
          "TARGET_VERIFY_FAILED", "RESTORE_WRITE_FAILED", "RESTORE_VERIFY_FAILED"}
             \subseteq Outcomes
  BY DEF Codes, Errors, ReadErrors, Outcomes
<1>1. pc \in Reversing /\ op = "reversible"
  BY DEF Reversals, PreGet, TargetSet, Settle, Verify, RestoreSet, RestoreSettle,
         RestoreVerify, ControlOK, Reversing, Sending, Restoring
<1>2. Step
  BY DEF Reversals, PreGet, TargetSet, Settle, Verify, RestoreSet, RestoreSettle,
         RestoreVerify
<1>3. MonitorTyped
  BY DEF TypeOK, MonitorTyped
<1>4. ASSUME MonitorTyped', report' \in Reports,
             pc' \in Reversing \cup {"returned"}, ret' \in Codes \cup {None},
             after' \in [code : Errors, replaced : BOOLEAN] \cup {None},
             pc' \in Sending \cup Restoring =>
               /\ report'.original \in Values /\ report'.target \in Values
               /\ report'.target # report'.original,
             pc' \in Restoring => after' \in [code : Errors, replaced : BOOLEAN]
      PROVE  Typed'
  <2>1. TypeOK'
    BY <1>2, <1>4 DEF Step, MonitorTyped, TypeOK, others, call, runner, Reversing, Sending,
                      Restoring
  <2>2. PlanOK'
    BY <1>2 DEF Step, PlanOK, runner
  <2>3. ControlOK'
    BY <1>1, <1>2, <1>4 DEF ControlOK, Step, call, Reversing, Sending, Restoring
  <2> QED BY <2>1, <2>2, <2>3
<1>5. CASE PreGet
  <2>1. MonitorTyped' /\ after' = after
    BY <1>3, <1>5 DEF PreGet, monitor, MonitorTyped
  <2>2. CASE /\ report' = [report EXCEPT !.outcome = "PRE_GET_FAILED"]
             /\ \E e \in ReadErrors : Return(e)
    BY <1>0, <1>4, <2>1, <2>2, Reporting DEF Return, TypeOK, Sending, Restoring
  <2>3. CASE /\ report' = [report EXCEPT !.outcome = "NO_ADJACENT_TARGET",
                                         !.original = brightness]
             /\ Return("ARGUMENT")
    <3>1. brightness \in Values
      BY DEF TypeOK
    <3>2. report' \in Reports
      BY <1>0, <2>3, <3>1, Reporting DEF TypeOK
    <3> QED BY <1>0, <1>4, <2>1, <2>3, <3>2 DEF Return, TypeOK, Sending, Restoring
  <2>4. CASE /\ Adjacent(brightness, maximum) # None
             /\ report' = [report EXCEPT !.original = brightness,
                                         !.target = Adjacent(brightness, maximum)]
             /\ Goto("target")
    <3>1. brightness \in Values /\ maximum \in Values
      BY ValueAssumption DEF TypeOK
    <3>2. Adjacent(brightness, maximum) \in Values
          /\ Adjacent(brightness, maximum) # brightness
      BY <2>4, <3>1, AdjacentIs
    <3>3. report' \in Reports
      BY <2>4, <3>1, <3>2, <1>0, Reporting DEF TypeOK
    <3>4. report'.original = brightness /\ report'.target = Adjacent(brightness, maximum)
      BY <2>4 DEF TypeOK, Reports
    <3> QED BY <1>4, <2>1, <2>4, <3>1, <3>2, <3>3, <3>4
            DEF Goto, TypeOK, Reversing, Sending, Restoring
  <2> QED BY <1>5, <2>2, <2>3, <2>4 DEF PreGet
<1>6. CASE TargetSet
  <2>1. report.target \in Values /\ after' = after
    BY <1>6 DEF TargetSet, ControlOK, Sending
  <2>2. MonitorTyped'
    BY <1>3, <1>6, <2>1, MonitorArrives, MonitorAccepts DEF TargetSet, monitor, MonitorTyped
  <2>3. /\ report' \in Reports /\ report'.target = report.target
        /\ report'.original = report.original
        /\ pc' \in {"returned", "settle"} /\ ret' \in Codes \cup {None}
    <3>1. CASE report' = [report EXCEPT !.outcome = "TARGET_WRITE_FAILED"] /\ Return("WRITE")
      <4>1. report' \in Reports
        BY <1>0, <3>1, <2>1, Reporting DEF TypeOK
      <4>2. report'.target = report.target /\ report'.original = report.original
        BY <3>1 DEF TypeOK, Reports
      <4> QED BY <1>0, <3>1, <4>1, <4>2 DEF Return
    <3>2. CASE report' = [report EXCEPT !.written = TRUE] /\ Goto("settle")
      <4>1. report' \in Reports
        BY <1>0, <3>2, <2>1, Reporting DEF TypeOK
      <4>2. report'.target = report.target /\ report'.original = report.original
        BY <3>2 DEF TypeOK, Reports
      <4> QED BY <3>2, <4>1, <4>2 DEF Goto, TypeOK
    <3> QED BY <1>6, <3>1, <3>2 DEF TargetSet
  <2> QED BY <1>4, <1>6, <2>1, <2>2, <2>3
          DEF TargetSet, TypeOK, ControlOK, Reversing, Sending, Restoring
<1>7. ASSUME NEW e \in Errors, NEW b \in BOOLEAN, Unverified(e, b), UNCHANGED monitor,
             pc \in Sending
      PROVE  Typed'
  <2>1. MonitorTyped'
    BY <1>3, <1>7 DEF monitor, MonitorTyped
  <2>2. /\ report' \in Reports /\ report'.target = report.target
        /\ report'.original = report.original
    <3>1. report' \in Reports
      BY <1>0, <1>7, Reporting DEF Unverified, TypeOK, ControlOK
    <3>2. report'.target = report.target /\ report'.original = report.original
      BY <1>7 DEF Unverified, TypeOK, Reports
    <3> QED BY <3>1, <3>2
  <2>3. after' \in [code : Errors, replaced : BOOLEAN]
    BY <1>7 DEF Unverified
  <2> QED BY <1>4, <1>7, <2>1, <2>2, <2>3
          DEF Unverified, Goto, TypeOK, ControlOK, Reversing, Sending, Restoring
<1>8. CASE Settle
  <2>1. CASE Goto("verify") /\ UNCHANGED <<report, after>>
    <3>1. MonitorTyped'
      BY <1>3, <1>8 DEF Settle, monitor, MonitorTyped
    <3> QED BY <1>4, <1>8, <2>1, <3>1
            DEF Settle, Goto, TypeOK, ControlOK, Reversing, Sending, Restoring
  <2>2. CASE Unverified("SYSTEM", FALSE)
    BY <1>0, <1>7, <1>8, <2>2 DEF Settle, Sending
  <2> QED BY <1>8, <2>1, <2>2 DEF Settle
<1>9. CASE Verify
  <2>1. CASE Verified
    <3>1. MonitorTyped'
      BY <1>3, <1>9 DEF Verify, monitor, MonitorTyped
    <3>2. after' \in [code : Errors, replaced : BOOLEAN]
      BY <1>0, <2>1 DEF Verified
    <3> QED BY <1>4, <1>9, <2>1, <3>1, <3>2
            DEF Verify, Verified, Goto, TypeOK, ControlOK, Reversing, Sending, Restoring
  <2>2. CASE Unverified("VERIFY_MISMATCH", TRUE)
    BY <1>0, <1>7, <1>9, <2>2 DEF Verify, Sending
  <2>3. ASSUME NEW e \in ReadErrors, Unverified(e, FALSE) PROVE Typed'
    BY <1>0, <1>7, <1>9, <2>3 DEF Verify, Sending
  <2> QED BY <1>9, <2>1, <2>2, <2>3 DEF Verify
<1>10. ASSUME NEW o \in Outcomes, NEW e \in Errors, Unrestored(o, e), MonitorTyped',
              after' = after, pc \in Restoring
       PROVE  Typed'
  <2>1. report' \in Reports
    BY <1>10, Reporting, Constants DEF Unrestored, TypeOK, ControlOK
  <2>2. ret' \in Codes
    BY <1>0, <1>10 DEF Unrestored, Return, ControlOK
  <2> QED BY <1>4, <1>10, <2>1, <2>2
          DEF Unrestored, Return, TypeOK, ControlOK, Reversing, Sending, Restoring
<1>11. CASE RestoreSet
  <2>1. report.original \in Values /\ after' = after
    BY <1>11 DEF RestoreSet, ControlOK, Restoring
  <2>2. MonitorTyped'
    BY <1>3, <1>11, <2>1, MonitorArrives, MonitorAccepts DEF RestoreSet, monitor, MonitorTyped
  <2>3. CASE Unrestored("RESTORE_WRITE_FAILED", "WRITE")
    BY <1>0, <1>10, <1>11, <2>1, <2>2, <2>3 DEF RestoreSet, Restoring
  <2>4. CASE /\ report' = [report EXCEPT !.restoring = TRUE, !.restored = TRUE]
             /\ Goto("restore_settle")
    <3>1. /\ report' \in Reports /\ report'.target = report.target
          /\ report'.original = report.original
      <4>1. report' \in Reports
        BY <1>0, <2>1, <2>4, Reporting DEF TypeOK
      <4>2. report'.target = report.target /\ report'.original = report.original
        BY <2>4 DEF TypeOK, Reports
      <4> QED BY <4>1, <4>2
    <3> QED BY <1>4, <1>11, <2>1, <2>2, <2>4, <3>1
            DEF RestoreSet, Goto, TypeOK, ControlOK, Reversing, Sending, Restoring
  <2> QED BY <1>11, <2>3, <2>4 DEF RestoreSet
<1>12. CASE RestoreSettle
  <2>1. MonitorTyped' /\ after' = after /\ pc \in Restoring
    BY <1>3, <1>12 DEF RestoreSettle, monitor, MonitorTyped, Restoring
  <2>2. CASE Goto("restore_verify") /\ UNCHANGED report
    BY <1>4, <2>1, <2>2 DEF Goto, TypeOK, ControlOK, Reversing, Sending, Restoring
  <2> QED BY <1>0, <1>10, <1>12, <2>1, <2>2 DEF RestoreSettle
<1>13. CASE RestoreVerify
  <2>1. MonitorTyped' /\ after' = after /\ pc \in Restoring
    BY <1>3, <1>13 DEF RestoreVerify, monitor, MonitorTyped, Restoring
  <2>2. CASE Return(after.code) /\ UNCHANGED report
    BY <1>0, <1>4, <2>1, <2>2 DEF Return, TypeOK, ControlOK, Reversing, Sending, Restoring
  <2>3. ASSUME NEW e \in Errors, Unrestored("RESTORE_VERIFY_FAILED", e) PROVE Typed'
    BY <1>0, <1>10, <2>1, <2>3
  <2> QED BY <1>0, <1>13, <2>2, <2>3 DEF RestoreVerify
<1> QED BY <1>5, <1>6, <1>8, <1>9, <1>11, <1>12, <1>13 DEF Reversals

LEMMA Steps ==
  Next <=> \/ Beginnings
           \/ Resolve \/ Vcp \/ Construct \/ Transact \/ FailTransaction \/ Release
           \/ Reversals \/ Take \/ \E v \in Values : Touch(v)
  BY DEF Next, Beginnings, Reversals

LEMMA TypeStep == Typed /\ [Next]_vars => Typed'
<1> SUFFICES ASSUME Typed, [Next]_vars PROVE Typed'
  OBVIOUS
<1>1. CASE Beginnings
  BY <1>1, BeginningsAre, StartsTyped, RejectedTyped
<1>2. CASE UNCHANGED vars
  BY <1>2 DEF vars, monitor, others, call, runner, Typed, TypeOK, PlanOK, ControlOK
<1> QED BY <1>1, <1>2, Steps, TransactionsTyped, ReversalsTyped, Surroundings

(* Types: whatever the calls, a report names values of the monitor's       *)
(* range, and no plan outlives its call.                                   *)
THEOREM TypeCorrect == Spec => []TypeOK
<1>1. Typed => TypeOK
  BY DEF Typed
<1> QED BY <1>1, TypeInit, TypeStep, PTL DEF Spec
-----------------------------------------------------------------------------
(* The report of a reversible SET. *)

Fields(written, restoring, e, outcome) ==
  /\ report.written = written
  /\ report.restoring = restoring /\ report.restored = restoring
  /\ report.verify_error = e /\ report.restore_error = "OK" /\ report.outcome = outcome

(* What it says at each step. *)
ReportOK ==
  /\ pc \in {"pre_get", "target"} => Fields(FALSE, FALSE, "OK", "OK")
  /\ pc \in {"settle", "verify"} => Fields(TRUE, FALSE, "OK", "OK")
  /\ pc \in Restoring =>
       /\ Fields(TRUE, pc # "restore", after.code,
                 IF after.code = "OK" THEN "OK" ELSE "TARGET_VERIFY_FAILED")
       /\ after.code = "OK" => after.replaced

Told == Typed /\ ReportOK /\ ReportIsTrue

LEMMA ReportUnchanged ==
  ASSUME Told, UNCHANGED <<report, after>>,
         op' \in {"reversible"} => pc' = pc /\ ret' = ret /\ op' = op,
         op' \notin {"reversible"} => pc' \notin Reversing
  PROVE  ReportOK' /\ ReportIsTrue'
<1>1. CASE op' = "reversible"
  BY <1>1 DEF Told, ReportOK, ReportIsTrue, Fields
<1>2. CASE op' # "reversible"
  BY <1>2 DEF ReportOK, ReportIsTrue, Reversing, Sending, Restoring
<1> QED BY <1>1, <1>2

LEMMA ReportReversals ==
  ASSUME Told, Reversals
  PROVE  ReportOK' /\ ReportIsTrue'
<1> USE DEF Told, Typed
<1>0. /\ report \in Reports /\ op' = op
      /\ {"READ", "REPLY", "WRITE", "SYSTEM", "VERIFY_MISMATCH"} \cap {"OK"} = {}
  BY DEF TypeOK, Reversals, PreGet, TargetSet, Settle, Verify, RestoreSet, RestoreSettle,
         RestoreVerify, Step, call
<1>1. CASE PreGet
  <2>1. Fields(FALSE, FALSE, "OK", "OK")
    BY <1>1 DEF PreGet, ReportOK
  <2>2. CASE /\ report' = [report EXCEPT !.outcome = "PRE_GET_FAILED"]
             /\ \E e \in ReadErrors : Return(e)
    BY <1>0, <2>1, <2>2 DEF Fields, Reports, Return, ReadErrors, ReportOK, ReportIsTrue, Restoring
  <2>3. CASE /\ report' = [report EXCEPT !.outcome = "NO_ADJACENT_TARGET",
                                         !.original = brightness]
             /\ Return("ARGUMENT")
    BY <1>0, <2>1, <2>3 DEF Fields, Reports, Return, ReportOK, ReportIsTrue, Restoring
  <2>4. CASE /\ report' = [report EXCEPT !.original = brightness,
                                         !.target = Adjacent(brightness, maximum)]
             /\ Goto("target")
    BY <1>0, <2>1, <2>4 DEF Fields, Reports, Goto, ReportOK, ReportIsTrue, Restoring
  <2> QED BY <1>1, <2>2, <2>3, <2>4 DEF PreGet
<1>2. CASE TargetSet
  <2>1. Fields(FALSE, FALSE, "OK", "OK")
    BY <1>2 DEF TargetSet, ReportOK
  <2>2. CASE report' = [report EXCEPT !.outcome = "TARGET_WRITE_FAILED"] /\ Return("WRITE")
    BY <1>0, <2>1, <2>2 DEF Fields, Reports, Return, ReportOK, ReportIsTrue, Restoring
  <2>3. CASE report' = [report EXCEPT !.written = TRUE] /\ Goto("settle")
    BY <1>0, <2>1, <2>3 DEF Fields, Reports, Goto, ReportOK, ReportIsTrue, Restoring
  <2> QED BY <1>2, <2>2, <2>3 DEF TargetSet
<1>3. ASSUME pc \in {"settle", "verify"},
             NEW e \in {"READ", "REPLY", "SYSTEM", "VERIFY_MISMATCH"}, NEW b, Unverified(e, b)
      PROVE  ReportOK' /\ ReportIsTrue'
  <2>1. Fields(TRUE, FALSE, "OK", "OK")
    BY <1>3 DEF ReportOK
  <2> QED BY <1>0, <1>3, <2>1
          DEF Fields, Reports, Unverified, Goto, ReportOK, ReportIsTrue, Restoring
<1>4. CASE Settle
  <2>1. CASE Goto("verify") /\ UNCHANGED <<report, after>>
    BY <1>4, <2>1 DEF Settle, Goto, ReportOK, ReportIsTrue, Fields, Restoring
  <2> QED BY <1>3, <1>4, <2>1 DEF Settle
<1>5. CASE Verify
  <2>1. CASE Verified
    BY <1>5, <2>1 DEF Verify, Verified, Goto, ReportOK, ReportIsTrue, Fields, Restoring
  <2> QED BY <1>3, <1>5, <2>1 DEF Verify, ReadErrors
<1>6. ASSUME pc \in Restoring, NEW o, NEW e \in {"READ", "REPLY", "WRITE", "SYSTEM", "VERIFY_MISMATCH"},
             Unrestored(o, e),
             \/ o = "RESTORE_WRITE_FAILED" /\ pc = "restore"
             \/ o = "RESTORE_VERIFY_FAILED" /\ pc # "restore"
      PROVE  ReportOK' /\ ReportIsTrue'
  <2>1. after.code \in Errors /\ after.replaced \in BOOLEAN
    BY <1>6 DEF ControlOK
  <2>2. /\ Fields(TRUE, pc # "restore", after.code,
                 IF after.code = "OK" THEN "OK" ELSE "TARGET_VERIFY_FAILED")
        /\ after.code = "OK" => after.replaced
    BY <1>6 DEF ReportOK
  <2>3. /\ report'.written = TRUE /\ report'.restoring = TRUE
        /\ report'.restored = (pc # "restore") /\ report'.verify_error = after.code
        /\ report'.restore_error = e /\ report'.outcome = o
    BY <1>0, <1>6, <2>2 DEF Fields, Unrestored, Reports
  <2>4. pc' = "returned" /\ ret' \in {e, after.code} /\ ret' # "OK"
    BY <1>6, <2>2 DEF Unrestored, Return
  <2> QED BY <1>6, <2>3, <2>4 DEF ReportOK, ReportIsTrue, Restoring
<1>7. CASE RestoreSet
  <2>1. CASE /\ report' = [report EXCEPT !.restoring = TRUE, !.restored = TRUE]
             /\ Goto("restore_settle")
    BY <1>0, <1>7, <2>1 DEF RestoreSet, Goto, ReportOK, ReportIsTrue, Fields, Restoring, Reports
  <2> QED BY <1>6, <1>7, <2>1 DEF RestoreSet, Restoring
<1>8. CASE RestoreSettle
  <2>1. CASE Goto("restore_verify") /\ UNCHANGED report
    BY <1>8, <2>1 DEF RestoreSettle, Goto, ReportOK, ReportIsTrue, Fields, Restoring
  <2> QED BY <1>6, <1>8, <2>1 DEF RestoreSettle, Restoring
<1>9. CASE RestoreVerify
  <2>1. CASE Return(after.code) /\ UNCHANGED report
    <3>1. Fields(TRUE, TRUE, after.code,
                 IF after.code = "OK" THEN "OK" ELSE "TARGET_VERIFY_FAILED")
      BY <1>9 DEF RestoreVerify, ReportOK, Restoring
    <3> QED BY <2>1, <3>1 DEF Return, ReportOK, ReportIsTrue, Fields, Restoring
  <2>2. ASSUME NEW e \in {"READ", "REPLY", "VERIFY_MISMATCH"},
               Unrestored("RESTORE_VERIFY_FAILED", e)
        PROVE  ReportOK' /\ ReportIsTrue'
    BY <1>6, <1>9, <2>2 DEF RestoreVerify, Restoring
  <2> QED BY <1>9, <2>1, <2>2 DEF RestoreVerify, ReadErrors
<1> QED BY <1>1, <1>2, <1>4, <1>5, <1>7, <1>8, <1>9 DEF Reversals

LEMMA ReportStep == Told /\ [Next]_vars => Told'
<1> SUFFICES ASSUME Told, [Next]_vars PROVE ReportOK' /\ ReportIsTrue'
  BY TypeStep DEF Told
<1>1. CASE Beginnings
  <2>1. ASSUME NEW o, NEW l, NEW p, Starts(o, l, p) PROVE ReportOK' /\ ReportIsTrue'
    <3>1. CASE o = "reversible"
      BY <2>1, <3>1
         DEF Starts, Begin, EmptyReport, ReportOK, ReportIsTrue, Fields, Restoring
    <3>2. CASE o # "reversible"
      BY <2>1, <3>2 DEF Starts, Begin, ReportOK, ReportIsTrue, Restoring
    <3> QED BY <3>1, <3>2
  <2>2. ASSUME NEW o, NEW code, Refuses(o, code) PROVE ReportOK' /\ ReportIsTrue'
    BY <2>2 DEF Refuses, Reject, Return, ReportOK, ReportIsTrue, Restoring
  <2> QED BY <1>1, <2>1, <2>2, BeginningsAre
<1>2. CASE Resolve \/ Vcp \/ Construct \/ Transact \/ FailTransaction \/ Release
  <2>1. op # "reversible" /\ op' = op /\ UNCHANGED <<report, after>>
    BY <1>2 DEF Told, Typed, ControlOK, Resolve, Vcp, Construct, Transact, FailTransaction,
                Release, Elsewhere, call
  <2>2. Typed'
    BY <1>2, TransactionsTyped DEF Told
  <2> QED BY <2>1, <2>2, ReportUnchanged DEF Typed, ControlOK
<1>3. CASE Take \/ (\E v \in Values : Touch(v)) \/ UNCHANGED vars
  BY <1>3 DEF Told, ReportOK, ReportIsTrue, Fields, Take, Touch, vars, call
<1> QED BY <1>1, <1>2, <1>3, Steps, ReportReversals

(* The report and the value a reversible SET returns agree, whichever of   *)
(* its steps fail and in whatever combination.                             *)
THEOREM ReportsAreTrue == Spec => []ReportIsTrue
<1>1. Init => Told
  BY TypeInit DEF Init, Told, ReportOK, ReportIsTrue, Restoring
<1>2. Told => ReportIsTrue
  BY DEF Told
<1> QED BY <1>1, <1>2, ReportStep, PTL DEF Spec
-----------------------------------------------------------------------------
(* Where the two values of a reversible SET are. *)

Shows(v) == pending = <<>> /\ brightness = v
Owes(v, w) == (pending = <<w>> /\ brightness = v) \/ Shows(v) \/ Shows(w)

RestorationOK ==
  op = "reversible" /\ ~touched =>
    /\ pc \in {"restore_settle", "restore_verify"} => Final = report.original \/ dropped > 0
    /\ ~late =>
         /\ pc = "pre_get" => pending = <<>>
         /\ pc = "target" => Shows(report.original)
         /\ pc \in {"settle", "verify"} => Owes(report.original, report.target)
         /\ pc = "restore" /\ after.code = "OK" => Shows(report.target)
         /\ pc \in {"restore_settle", "restore_verify"} /\ after.code = "OK" =>
              Owes(report.target, report.original)

Safe == Told /\ RestorationOK /\ MonitorIsPutBack

LEMMA Owing ==
  ASSUME MonitorTyped, NEW v \in Values, NEW w \in Values
  PROVE  /\ Shows(v) /\ Accepts(w) => Owes(v, w)'
         /\ Owes(v, w) /\ Take => Owes(v, w)'
         /\ Shows(v) => Final = v
         /\ Owes(v, w) /\ brightness = w /\ v # w => Shows(w)
<1>1. ASSUME Shows(v), Accepts(w) PROVE Owes(v, w)'
  <2>1. brightness' = v /\ (pending' = Append(<<>>, w) \/ pending' = <<>>)
    BY <1>1, MonitorAccepts DEF Shows
  <2> QED BY <2>1 DEF Owes, Shows
<1>2. ASSUME Owes(v, w), Take PROVE Owes(v, w)'
  <2>1. pending = <<w>>
    BY <1>2 DEF Owes, Shows, Take
  <2>2. pending' = <<>> /\ brightness' = w
    BY <1>2, <2>1 DEF Take
  <2> QED BY <2>2 DEF Owes, Shows
<1>3. Shows(v) => Final = v
  BY DEF Shows, Final
<1>4. Owes(v, w) /\ brightness = w /\ v # w => Shows(w)
  BY DEF Owes, Shows
<1> QED BY <1>1, <1>2, <1>3, <1>4

LEMMA PutBackSteps ==
  ASSUME Safe, Reversals
  PROVE  RestorationOK' /\ MonitorIsPutBack'
<1> USE DEF Safe, Told, Typed
<1>0. /\ report \in Reports /\ UNCHANGED <<op, late, touched, touches>> /\ op = "reversible"
      /\ MonitorTyped
      /\ pc \in Sending \cup Restoring =>
           /\ report.original \in Values /\ report.target \in Values
           /\ report.target # report.original
  BY DEF TypeOK, Reversals, PreGet, TargetSet, Settle, Verify, RestoreSet, RestoreSettle,
         RestoreVerify, Step, call, others, MonitorTyped, ControlOK, Reversing, Sending, Restoring
<1>00. ReportIsTrue'
  BY ReportReversals
<1>1. CASE PreGet
  <2>1. UNCHANGED <<pending, brightness>> /\ ~report.written /\ ~report'.written
    BY <1>0, <1>1 DEF PreGet, monitor, ReportOK, Fields, Reports
  <2>2. pc' = "target" => report'.original = brightness
    BY <1>0, <1>1 DEF PreGet, Return, Reports
  <2>3. pc' \in {"target", "returned"}
    BY <1>1 DEF PreGet, Return, Goto
  <2>4. ~touched /\ ~late => pending = <<>>
    BY <1>0, <1>1 DEF PreGet, RestorationOK
  <2> QED BY <1>0, <2>1, <2>2, <2>3, <2>4 DEF RestorationOK, MonitorIsPutBack, Shows
<1>2. CASE TargetSet
  <2>1. CASE report' = [report EXCEPT !.outcome = "TARGET_WRITE_FAILED"] /\ Return("WRITE")
    <3>1. ~report'.written
      BY <1>0, <1>2, <2>1 DEF TargetSet, ReportOK, Fields, Reports
    <3> QED BY <2>1, <3>1 DEF Return, RestorationOK, MonitorIsPutBack
  <2>2. CASE /\ report' = [report EXCEPT !.written = TRUE]
             /\ Goto("settle") /\ Accepts(report.target)
    <3>1. report'.original = report.original /\ report'.target = report.target
      BY <1>0, <2>2 DEF Reports
    <3>2. ~touched /\ ~late => Owes(report.original, report.target)'
      <4> DEFINE o == report.original
                 t == report.target
      <4>1. o \in Values /\ t \in Values /\ Accepts(t)
        BY <1>0, <1>2, <2>2 DEF TargetSet, Sending
      <4>2. ~touched /\ ~late => Shows(o)
        BY <1>0, <1>2 DEF TargetSet, RestorationOK
      <4> HIDE DEF o, t
      <4>3. ~touched /\ ~late => (pending' = <<t>> /\ brightness' = o)
                               \/ (pending' = <<>> /\ brightness' = o)
                               \/ (pending' = <<>> /\ brightness' = t)
        BY <1>0, <4>1, <4>2, Owing DEF Owes, Shows
      <4> QED BY <3>1, <4>3 DEF o, t, Owes, Shows
    <3> QED BY <1>0, <2>2, <3>2 DEF Goto, RestorationOK, MonitorIsPutBack
  <2> QED BY <1>2, <2>1, <2>2 DEF TargetSet
<1>3. ASSUME Settle \/ Verify PROVE RestorationOK' /\ MonitorIsPutBack'
  <2>1. /\ UNCHANGED <<pending, brightness>> /\ pc' \in {"verify", "restore"}
        /\ pc \in {"settle", "verify"}
    BY <1>3 DEF Settle, Verify, Verified, Unverified, Goto, monitor
  <2>2. report'.original = report.original /\ report'.target = report.target
    BY <1>0, <1>3 DEF Settle, Verify, Verified, Unverified, Reports
  <2>3. pc' = "restore" /\ after'.code = "OK" => brightness = report.target
    BY <1>3 DEF Settle, Verify, Verified, Unverified, Goto, ReadErrors
  <2>4. ~touched /\ ~late => Owes(report.original, report.target)
    BY <1>0, <2>1 DEF RestorationOK
  <2>5. ~touched /\ ~late /\ brightness = report.target => Shows(report.target)
    BY <1>0, <2>1, <2>4, Owing DEF Sending
  <2> QED BY <1>0, <2>1, <2>2, <2>3, <2>4, <2>5
          DEF RestorationOK, MonitorIsPutBack, Shows, Owes
<1>4. ASSUME NEW o, NEW e, Unrestored(o, e),
             o \in {"RESTORE_WRITE_FAILED", "RESTORE_VERIFY_FAILED"}
      PROVE  RestorationOK' /\ MonitorIsPutBack'
  <2>1. pc' = "returned" /\ report'.restoring = TRUE /\ report'.outcome = o
    BY <1>0, <1>4 DEF Unrestored, Return, Reports
  <2> QED BY <1>4, <2>1 DEF RestorationOK, MonitorIsPutBack
<1>5. CASE RestoreSet
  <2>1. CASE /\ report' = [report EXCEPT !.restoring = TRUE, !.restored = TRUE]
             /\ Goto("restore_settle") /\ Accepts(report.original)
    <3>1. report'.original = report.original /\ report'.target = report.target /\ after' = after
      BY <1>0, <1>5, <2>1 DEF Reports, RestoreSet
    <3> DEFINE o == report.original
               t == report.target
    <3>2. o \in Values /\ t \in Values /\ Accepts(o)
      BY <1>0, <1>5, <2>1 DEF RestoreSet, Restoring
    <3>3. ~touched /\ ~late /\ after.code = "OK" => Shows(t)
      BY <1>0, <1>5 DEF RestoreSet, RestorationOK
    <3>4. Final' = o \/ dropped' > 0
      BY <1>0, <3>2, MonitorAccepts DEF MonitorTyped
    <3> HIDE DEF o, t
    <3>5. ~touched /\ ~late /\ after.code = "OK" =>
                (pending' = <<o>> /\ brightness' = t)
                  \/ (pending' = <<>> /\ brightness' = t)
                  \/ (pending' = <<>> /\ brightness' = o)
      BY <1>0, <3>2, <3>3, Owing DEF Owes, Shows
    <3> QED BY <1>0, <2>1, <3>1, <3>4, <3>5
            DEF Goto, RestorationOK, MonitorIsPutBack, Owes, Shows, o, t
  <2> QED BY <1>4, <1>5, <2>1 DEF RestoreSet
<1>6. CASE RestoreSettle
  <2>1. CASE Goto("restore_verify") /\ UNCHANGED report
    <3>1. UNCHANGED <<pending, brightness, dropped, after, Final>>
      BY <1>6 DEF RestoreSettle, monitor, Final
    <3> QED BY <1>0, <1>6, <2>1, <3>1
            DEF RestoreSettle, Goto, RestorationOK, MonitorIsPutBack, Owes, Shows
  <2> QED BY <1>4, <1>6, <2>1 DEF RestoreSettle
<1>7. CASE RestoreVerify
  <2>1. CASE brightness = report.original /\ Return(after.code) /\ UNCHANGED report
    <3>1. UNCHANGED <<pending, brightness, dropped, after, Final>>
      BY <1>7 DEF RestoreVerify, monitor, Final
    <3>2. Fields(TRUE, TRUE, after.code,
                 IF after.code = "OK" THEN "OK" ELSE "TARGET_VERIFY_FAILED")
      BY <1>7 DEF RestoreVerify, ReportOK, Restoring
    <3>3. ~touched => Final = report.original \/ dropped > 0
      BY <1>0, <1>7 DEF RestoreVerify, RestorationOK
    <3>4. ~touched /\ ~late /\ after.code = "OK" => Final = report.original
      BY <1>0, <1>7, <2>1, Owing DEF RestoreVerify, RestorationOK, Restoring
    <3> QED BY <1>0, <2>1, <3>1, <3>2, <3>3, <3>4
            DEF Return, RestorationOK, MonitorIsPutBack, Fields
  <2> QED BY <1>4, <1>7, <2>1 DEF RestoreVerify
<1> QED BY <1>1, <1>2, <1>3, <1>5, <1>6, <1>7 DEF Reversals

LEMMA PutBackStep == Safe /\ [Next]_vars => Safe'
<1> SUFFICES ASSUME Safe, [Next]_vars PROVE RestorationOK' /\ MonitorIsPutBack'
  BY ReportStep DEF Safe
<1>1. CASE Beginnings
  <2>1. ASSUME NEW o, NEW l, NEW p, Starts(o, l, p)
        PROVE  RestorationOK' /\ MonitorIsPutBack'
    BY <2>1 DEF Starts, Begin, RestorationOK, MonitorIsPutBack, monitor
  <2>2. ASSUME NEW o, NEW code, Refuses(o, code) PROVE RestorationOK' /\ MonitorIsPutBack'
    BY <2>2 DEF Refuses, Reject, Return, RestorationOK, MonitorIsPutBack
  <2> QED BY <1>1, <2>1, <2>2, BeginningsAre
<1>2. CASE Resolve \/ Vcp \/ Construct \/ Transact \/ FailTransaction \/ Release
  <2>1. op # "reversible" /\ op' = op
    BY <1>2 DEF Safe, Told, Typed, ControlOK, Resolve, Vcp, Construct, Transact,
                FailTransaction, Release, Elsewhere, call
  <2> QED BY <2>1 DEF RestorationOK, MonitorIsPutBack
<1>3. CASE Take
  <2>1. /\ UNCHANGED <<op, pc, ret, report, after, touched, late, dropped>> /\ Final' = Final
        /\ MonitorTyped
    BY <1>3, MonitorTakes DEF Safe, Told, Typed, TypeOK, MonitorTyped, Take, others, call
  <2> DEFINE o == report.original
             t == report.target
  <2>2. ASSUME NEW v \in Values, NEW w \in Values
        PROVE  /\ Owes(v, w) => (pending' = <<w>> /\ brightness' = v)
                                 \/ (pending' = <<>> /\ brightness' = v)
                                 \/ (pending' = <<>> /\ brightness' = w)
               /\ ~Shows(v) /\ pending # <<>>
    BY <1>3, <2>1, Owing DEF Owes, Shows, Take
  <2>3. pc \in Sending \cup Restoring => o \in Values /\ t \in Values
    BY DEF Safe, Told, Typed, ControlOK
  <2>4. RestorationOK'
    <3>1. CASE pc \in {"pre_get", "target"}
      BY <1>3, <2>1, <3>1 DEF Safe, RestorationOK, Shows, Take
    <3>2. CASE pc \in {"settle", "verify"}
      BY <2>1, <2>2, <2>3, <3>2 DEF Safe, RestorationOK, Owes, Shows, Sending
    <3>3. CASE pc = "restore"
      BY <1>3, <2>1, <3>3 DEF Safe, RestorationOK, Shows, Take
    <3>4. CASE pc \in {"restore_settle", "restore_verify"}
      BY <2>1, <2>2, <2>3, <3>4 DEF Safe, RestorationOK, Owes, Shows, Restoring
    <3> QED BY <2>1, <3>1, <3>2, <3>3, <3>4 DEF RestorationOK
  <2> QED BY <2>1, <2>4 DEF Safe, MonitorIsPutBack
<1>4. CASE \E v \in Values : Touch(v)
  BY <1>4 DEF Safe, RestorationOK, MonitorIsPutBack, Touch, call
<1>5. CASE UNCHANGED vars
  BY <1>5 DEF Safe, RestorationOK, MonitorIsPutBack, Owes, Shows, Final, vars, monitor,
              others, call
<1> QED BY <1>1, <1>2, <1>3, <1>4, <1>5, Steps, PutBackSteps

(* A monitor whose brightness a reversible SET changed is put back, will   *)
(* be, or its report says that it may not be; but for the two cases the    *)
(* property names, whatever the monitor drops.                             *)
THEOREM MonitorsArePutBack == Spec => []MonitorIsPutBack
<1>1. Init => Safe
  <2>1. Init => Told
    BY TypeInit DEF Init, Told, ReportOK, ReportIsTrue, Restoring
  <2> QED BY <2>1, NoneAssumption DEF Init, Safe, RestorationOK, MonitorIsPutBack
<1>2. Safe => MonitorIsPutBack
  BY DEF Safe
<1> QED BY <1>1, <1>2, PutBackStep, PTL DEF Spec
-----------------------------------------------------------------------------
(* The service of a call, and the frames of a validation SET. *)

Transfers == {"delay", "read", "write"}

TraceOK ==
  op \in {"get", "set", "alt"} =>
    /\ pc \in {"idle", "resolve", "construct"} => trace = <<>>
    /\ pc \in {"run", "release"} =>
         /\ trace # <<>> /\ trace[1].do = "construct"
         /\ \A i \in 2..Len(trace) : trace[i].do \in Transfers
    /\ pc = "returned" => \/ trace = <<>>
                          \/ /\ Len(trace) > 1 /\ trace[1].do = "construct"
                             /\ trace[Len(trace)].do = "release"
                             /\ \A i \in 2..Len(trace) - 1 : trace[i].do \in Transfers

Served == Typed /\ TraceOK

LEMMA Appending ==
  ASSUME NEW s \in Seq(Events), NEW e \in Events
  PROVE  /\ Append(s, e) \in Seq(Events) /\ Len(Append(s, e)) = Len(s) + 1
         /\ Append(s, e)[Len(s) + 1] = e
         /\ \A i \in 1..Len(s) : Append(s, e)[i] = s[i]
         /\ Len(s) \in Nat /\ (s # <<>> => Len(s) > 0) /\ Append(s, e) # <<>>
  OBVIOUS

LEMMA TraceTransfer ==
  ASSUME trace \in Seq(Events), trace # <<>>, trace[1].do = "construct",
         \A i \in 2..Len(trace) : trace[i].do \in Transfers,
         NEW e \in Events, Did(e)
  PROVE  /\ trace' # <<>> /\ trace'[1].do = "construct"
         /\ e.do \in Transfers => \A i \in 2..Len(trace') : trace'[i].do \in Transfers
         /\ e.do = "release" => /\ Len(trace') > 1 /\ trace'[Len(trace')].do = "release"
                                /\ \A i \in 2..Len(trace') - 1 : trace'[i].do \in Transfers
<1> DEFINE n == Len(trace)
<1>1. /\ n \in Nat /\ n > 0 /\ Len(trace') = n + 1 /\ trace'[n + 1] = e /\ trace' # <<>>
      /\ \A i \in 1..n : trace'[i] = trace[i]
  BY Appending DEF Did
<1> HIDE DEF n
<1>2. \A i \in 2..n : trace'[i].do \in Transfers
  BY <1>1 DEF n
<1> QED BY <1>1, <1>2

LEMMA TraceStep == Served /\ [Next]_vars => Served'
<1> SUFFICES ASSUME Served, [Next]_vars PROVE TraceOK'
  BY TypeStep DEF Served
<1> USE DEF Served, Typed
<1>1. CASE Beginnings
  <2>1. ASSUME NEW o, NEW l, NEW p, Starts(o, l, p) PROVE TraceOK'
    BY <2>1 DEF Starts, Begin, TraceOK
  <2>2. ASSUME NEW o, NEW code, Refuses(o, code) PROVE TraceOK'
    BY <2>2 DEF Refuses, Reject, Return, TraceOK
  <2> QED BY <1>1, <2>1, <2>2, BeginningsAre
<1>2. CASE Resolve
  BY <1>2 DEF Resolve, Goto, Return, TraceOK, call, runner, ControlOK
<1>3. CASE Vcp
  BY <1>3 DEF Vcp, Elsewhere, call, TraceOK, ControlOK
<1>4. CASE Construct
  <2>1. trace = <<>> /\ op' = op /\ op \in {"get", "set", "alt"}
    BY <1>4 DEF Construct, Elsewhere, call, TraceOK, ControlOK
  <2>2. CASE Goto("run") /\ Did(Event("construct"))
    <3>1. trace' = <<Event("construct")>> /\ pc' = "run"
      BY <2>1, <2>2 DEF Did, Goto
    <3>2. trace' # <<>> /\ trace'[1].do = "construct" /\ Len(trace') = 1
      BY <3>1 DEF Event
    <3> QED BY <3>1, <3>2 DEF TraceOK
  <2>3. CASE Return("SERVICE_CONSTRUCTION") /\ UNCHANGED trace
    BY <2>1, <2>3 DEF Return, TraceOK
  <2> QED BY <1>4, <2>2, <2>3 DEF Construct
<1>5. CASE Transact \/ FailTransaction
  <2>1. PICK e : e = Head(plan)
    OBVIOUS
  <2>2. e \in Events /\ e.do \in Transfers /\ Did(e) /\ op' = op
        /\ op \in {"get", "set", "alt"} /\ pc = "run" /\ pc' \in {"run", "release"}
    BY <1>5, <2>1, PlanHead
       DEF Transact, FailTransaction, TypeOK, PlanOK, Transfers, ControlOK, Elsewhere, call
  <2>3. /\ trace \in Seq(Events) /\ trace # <<>> /\ trace[1].do = "construct"
        /\ \A i \in 2..Len(trace) : trace[i].do \in Transfers
    BY <2>2 DEF TraceOK, TypeOK
  <2>4. /\ trace' # <<>> /\ trace'[1].do = "construct"
        /\ \A i \in 2..Len(trace') : trace'[i].do \in Transfers
    BY <2>2, <2>3, TraceTransfer
  <2> QED BY <2>2, <2>4 DEF TraceOK
<1>6. CASE Release
  <2>1. /\ Event("release") \in Events /\ Event("release").do = "release"
        /\ Did(Event("release")) /\ op' = op /\ op \in {"get", "set", "alt"}
        /\ pc \in {"run", "release"} /\ pc' = "returned"
    BY <1>6, EventTypes DEF Release, Event, ControlOK, Elsewhere, call, Return
  <2>2. /\ trace \in Seq(Events) /\ trace # <<>> /\ trace[1].do = "construct"
        /\ \A i \in 2..Len(trace) : trace[i].do \in Transfers
    BY <2>1 DEF TraceOK, TypeOK
  <2>3. /\ trace' # <<>> /\ trace'[1].do = "construct"
        /\ Len(trace') > 1 /\ trace'[Len(trace')].do = "release"
        /\ \A i \in 2..Len(trace') - 1 : trace'[i].do \in Transfers
    BY <2>1, <2>2, TraceTransfer
  <2> QED BY <2>1, <2>3 DEF TraceOK
<1>7. CASE Reversals
  BY <1>7, ReversalsTyped
     DEF ControlOK, TraceOK, Reversals, PreGet, TargetSet, Settle, Verify, RestoreSet,
         RestoreSettle, RestoreVerify, Step, call, Reversing, Sending, Restoring
<1>8. CASE Take \/ (\E v \in Values : Touch(v)) \/ UNCHANGED vars
  BY <1>8 DEF TraceOK, Take, Touch, vars, call, runner
<1> QED BY <1>1, <1>2, <1>3, <1>4, <1>5, <1>6, <1>7, <1>8, Steps

(* Every service a call constructs is released once and last, and nothing  *)
(* is transferred without one, whichever transaction fails.                *)
THEOREM ServicesAreReleased == Spec => []ServiceIsReleased
<1>1. Init => Served
  BY TypeInit DEF Init, Served, TraceOK
<1>2. Served => ServiceIsReleased
  <2> SUFFICES ASSUME Served, op \in {"get", "set", "alt"}
               PROVE  /\ {i \in DOMAIN trace : trace[i].do = "construct"}
                            = (IF trace = <<>> THEN {} ELSE {1})
                      /\ {i \in DOMAIN trace : trace[i].do = "release"}
                            = (IF trace # <<>> /\ pc = "returned" THEN {Len(trace)} ELSE {})
    BY DEF ServiceIsReleased
  <2>1. /\ trace \in Seq(Events) /\ DOMAIN trace = 1..Len(trace) /\ Len(trace) \in Nat
        /\ (trace = <<>> <=> Len(trace) = 0)
    BY DEF Served, Typed, TypeOK
  <2>2. pc \in {"idle", "resolve", "construct", "run", "release", "returned"}
    BY DEF Served, Typed, TypeOK, ControlOK, Reversing, Sending, Restoring
  <2>3. CASE trace = <<>>
    BY <2>1, <2>3
  <2>4. CASE trace # <<>> /\ pc \in {"run", "release"}
    <3>1. /\ trace[1].do = "construct"
          /\ \A i \in 2..Len(trace) : trace[i].do \notin {"construct", "release"}
      BY <2>4 DEF Served, TraceOK, Transfers
    <3> QED BY <2>1, <2>4, <3>1
  <2>5. CASE trace # <<>> /\ pc = "returned"
    <3>1. /\ Len(trace) > 1 /\ trace[1].do = "construct" /\ trace[Len(trace)].do = "release"
          /\ \A i \in 2..Len(trace) - 1 : trace[i].do \notin {"construct", "release"}
      BY <2>5 DEF Served, TraceOK, Transfers
    <3> QED BY <2>1, <2>5, <3>1
  <2> QED BY <2>2, <2>3, <2>4, <2>5 DEF Served, TraceOK
<1> QED BY <1>1, <1>2, TraceStep, PTL DEF Spec
-----------------------------------------------------------------------------
(* Where the two frames of a validation SET are. *)

(* What v has yet to be sent, and what follows from the frames before. *)
Landing(v) ==
  LET w == Write(Brightness, v)
      d == Event("delay")
      lands == ~touched => Final = v \/ dropped > 0
  IN  \/ plan = <<d, w, d, w>>
      \/ plan = <<w, d, w>>
      \/ (plan = <<d, w>> \/ plan = <<w>>) /\ lands
      \/ /\ plan = <<>> /\ trace # <<>> /\ trace[Len(trace)] = w
         /\ ~touched => Final = v \/ dropped > 1

SetOK ==
  /\ op = "set" /\ pc = "construct" => \E v \in Values : plan = Twice(Write(Brightness, v))
  /\ op = "set" /\ pc = "run" => \E v \in Values : Landing(v)

Lands == Typed /\ SetOK /\ SetLands

LEMMA LandingTransacts ==
  ASSUME Typed, NEW v \in Values, Landing(v), Transact
  PROVE  Landing(v)'
<1> DEFINE w == Write(Brightness, v)
           d == Event("delay")
<1>1. /\ w.code = Brightness /\ w.value = v /\ d.code # Brightness
      /\ UNCHANGED touched /\ touched \in BOOLEAN /\ MonitorTyped /\ dropped \in Nat
      /\ trace \in Seq(Events) /\ w \in Events
      /\ trace' = Append(trace, Head(plan)) /\ plan' = Tail(plan) /\ plan # <<>>
  BY NoneAssumption, EventTypes
     DEF Write, Event, Transact, Elsewhere, others, Typed, TypeOK, MonitorTyped, Did
<1>2. ASSUME Head(plan) = w
      PROVE  Final' = v \/ (Final' = Final /\ dropped' = dropped + 1)
  <2>1. Accepts(v)
    BY <1>1, <1>2 DEF Transact
  <2> QED BY <1>1, <2>1, MonitorAccepts
<1>3. ASSUME Head(plan) = d PROVE Final' = Final /\ dropped' = dropped
  BY <1>1, <1>3 DEF Transact, monitor, Final
<1>4. CASE plan = <<d, w, d, w>>
  <2>1. plan' = <<w, d, w>>
    BY <1>1, <1>4
  <2> QED BY <2>1 DEF Landing
<1>5. CASE plan = <<w, d, w>>
  <2>1. plan' = <<d, w>> /\ Head(plan) = w
    BY <1>1, <1>5
  <2>2. Final' = v \/ dropped' > 0
    BY <1>1, <1>2, <2>1
  <2> QED BY <2>1, <2>2 DEF Landing
<1>6. CASE plan = <<d, w>> /\ (~touched => Final = v \/ dropped > 0)
  <2>1. plan' = <<w>> /\ Head(plan) = d
    BY <1>1, <1>6
  <2> QED BY <1>1, <1>3, <1>6, <2>1 DEF Landing
<1>7. CASE plan = <<w>> /\ (~touched => Final = v \/ dropped > 0)
  <2>1. plan' = <<>> /\ Head(plan) = w
    BY <1>1, <1>7
  <2>2. ~touched => Final' = v \/ dropped' > 1
    BY <1>1, <1>2, <1>7, <2>1
  <2>3. trace' # <<>> /\ trace'[Len(trace')] = w
    BY <1>1, <2>1, Appending
  <2> QED BY <1>1, <2>1, <2>2, <2>3 DEF Landing
<1> QED BY <1>1, <1>4, <1>5, <1>6, <1>7 DEF Landing

LEMMA LandsStep == Lands /\ [Next]_vars => Lands'
<1> SUFFICES ASSUME Lands, [Next]_vars PROVE SetOK' /\ SetLands'
  BY TypeStep DEF Lands
<1> USE DEF Lands, Typed
<1>1. CASE Beginnings
  <2>1. ASSUME NEW o, NEW l, NEW p, Starts(o, l, p) PROVE SetOK' /\ SetLands'
    BY <2>1 DEF Starts, Begin, SetOK, SetLands
  <2>2. ASSUME NEW o, NEW code, Refuses(o, code) PROVE SetOK' /\ SetLands'
    BY <2>2 DEF Refuses, Reject, Return, SetOK, SetLands
  <2> QED BY <1>1, <2>1, <2>2, BeginningsAre
<1>2. CASE Resolve \/ Vcp
  BY <1>2 DEF Resolve, Vcp, Elsewhere, call, ControlOK, SetOK, SetLands
<1>3. CASE Construct
  <2>1. CASE op = "set"
    <3>1. PICK v \in Values : plan = Twice(Write(Brightness, v))
      BY <1>3, <2>1 DEF Construct, SetOK
    <3>2. plan' = plan /\ op' = op
      BY <1>3 DEF Construct, Elsewhere, call
    <3>3. Landing(v)'
      BY <3>1, <3>2 DEF Landing, Twice
    <3> QED BY <1>3, <3>3 DEF Construct, Goto, Return, SetOK, SetLands
  <2>2. CASE op # "set"
    BY <1>3, <2>2 DEF Construct, Elsewhere, call, SetOK, SetLands
  <2> QED BY <2>1, <2>2
<1>4. CASE Transact
  <2>1. op' = op /\ pc' = "run" /\ pc = "run"
    BY <1>4 DEF Transact, Elsewhere, call
  <2>2. CASE op = "set"
    <3>1. PICK v \in Values : Landing(v)
      BY <2>1, <2>2 DEF SetOK
    <3>2. Landing(v)'
      BY <1>4, <3>1, LandingTransacts
    <3> QED BY <2>1, <3>2 DEF SetOK, SetLands
  <2> QED BY <2>1, <2>2 DEF SetOK, SetLands
<1>5. CASE FailTransaction
  BY <1>5 DEF FailTransaction, SetOK, SetLands
<1>6. CASE Release
  <2>1. /\ op' = op /\ pc' = "returned"
        /\ ret' = "OK" => pc = "run" /\ plan = <<>>
        /\ UNCHANGED <<brightness, pending, dropped, touched, Final>>
        /\ trace' = Append(trace, Event("release")) /\ trace \in Seq(Events)
    BY <1>6 DEF Release, Elsewhere, call, Return, monitor, others, Final, Did, ControlOK, TypeOK
  <2>2. CASE op = "set" /\ ret' = "OK"
    <3>1. PICK v \in Values : Landing(v)
      BY <2>1, <2>2 DEF SetOK
    <3>2. /\ trace # <<>> /\ trace[Len(trace)] = Write(Brightness, v)
          /\ ~touched => Final = v \/ dropped > 1
      <4>1. plan = <<>>
        BY <2>1, <2>2
      <4> QED BY <3>1, <4>1 DEF Landing
    <3>3. trace'[Len(trace') - 1] = Write(Brightness, v)
      <4> DEFINE n == Len(trace)
      <4>1. n \in Nat /\ n > 0 /\ Len(trace') = n + 1 /\ \A i \in 1..n : trace'[i] = trace[i]
        BY <2>1, <3>2, EventTypes, Appending
      <4> HIDE DEF n
      <4>2. Len(trace') - 1 = n /\ trace'[n] = trace[n]
        BY <4>1
      <4> QED BY <3>2, <4>2 DEF n
    <3>4. dropped \in Nat
      BY DEF TypeOK
    <3> QED BY <2>1, <3>2, <3>3, <3>4 DEF SetOK, SetLands, Write
  <2> QED BY <1>6, <2>1, <2>2 DEF SetOK, SetLands, Release, Return
<1>7. CASE Reversals
  BY <1>7 DEF Reversals, PreGet, TargetSet, Settle, Verify, RestoreSet, RestoreSettle,
              RestoreVerify, Step, call, SetOK, SetLands, ControlOK, Reversing, Sending,
              Restoring
<1>8. CASE Take
  <2>1. /\ UNCHANGED <<op, pc, ret, plan, trace, touched, dropped>> /\ Final' = Final
    BY <1>8, MonitorTakes DEF TypeOK, MonitorTyped, Take, others, call, runner
  <2>2. \A v \in Values : Landing(v) => Landing(v)'
    BY <2>1 DEF Landing
  <2> QED BY <2>1, <2>2 DEF SetOK, SetLands
<1>9. CASE \E v \in Values : Touch(v)
  <2>1. UNCHANGED <<op, pc, plan, trace, ret>> /\ touched'
    BY <1>9 DEF Touch, call, runner
  <2>2. \A v \in Values : Landing(v) => Landing(v)'
    BY <2>1 DEF Landing
  <2> QED BY <2>1, <2>2 DEF SetOK, SetLands
<1>10. CASE UNCHANGED vars
  <2>1. UNCHANGED <<op, pc, plan, trace, ret, touched, dropped, Final>>
    BY <1>10 DEF vars, monitor, call, runner, others, Final
  <2>2. \A v \in Values : Landing(v) => Landing(v)'
    BY <2>1 DEF Landing
  <2> QED BY <2>1, <2>2 DEF SetOK, SetLands
<1> QED BY <1>1, <1>2, <1>3, <1>4, <1>5, <1>6, <1>7, <1>8, <1>9, <1>10, Steps

(* A validation SET survives the loss of one of its two frames, and a      *)
(* monitor that takes them late.                                           *)
THEOREM SetsLand == Spec => []SetLands
<1>1. Init => Lands
  BY TypeInit, NoneAssumption DEF Init, Lands, SetOK, SetLands
<1>2. Lands => SetLands
  BY DEF Lands
<1> QED BY <1>1, <1>2, LandsStep, PTL DEF Spec
=============================================================================
