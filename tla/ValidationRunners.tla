------------------------- MODULE ValidationRunners -------------------------
(***************************************************************************)
(* The operations whose transactions are guarded by evidence: the          *)
(* validation GET and SET of ddc/get_validation.c and set_validation.c,    *)
(* the reversible SET, the alternate input selection of LG and the picture *)
(* mode.  A thread runs one call after the other on a monitor that takes   *)
(* what it is sent in order and in its own time, may drop what it          *)
(* accepted, and whose brightness somebody else may change.                *)
(***************************************************************************)
EXTENDS Integers, Sequences, FiniteSets

CONSTANTS
  Values,         \* brightness values, 0..n
  Maxima,         \* maxima a monitor may report
  Displays,       \* what rss_macos_resolve_binding may find
  Profiled,       \* the product and role of the one profiled LG monitor
  InputValues,    \* values of an input a caller may ask for
  MaxPending,     \* bound on the values a monitor has yet to take
  MaxDrops,       \* values a monitor accepts and drops
  MaxTouches,     \* bound on the changes by somebody else
  MaxCalls,       \* bound on the calls
  None

ASSUME ValueAssumption ==
  /\ \A v \in Values : v \in Nat /\ v < 65536 /\ 0..v \subseteq Values
  /\ Maxima \subseteq Values
ASSUME BoundAssumption ==
  /\ MaxPending \in Nat /\ MaxDrops \in Nat /\ MaxTouches \in Nat
  /\ MaxCalls \in Nat

Brightness == "0x10"             \* RSS_DDC_DCPDP_SERVICE_SET_VALIDATION_VCP
AltInputs == {144, 145, 208}     \* rss_ddc_lg_alt_input_value_is_supported
ASSUME NoneAssumption == None \notin Int /\ None # Brightness

ReadErrors == {"READ", "REPLY"}
BindingErrors == {"SYSTEM", "NOT_FOUND", "DISCOVERY", "SAFETY_GATE"}
SetErrors == {"UNSUPPORTED_PROVIDER", "UNSUPPORTED_CAPABILITY", "SAFETY_GATE"}

VARIABLES
  brightness, maximum,   \* of the monitor
  pending,        \* values it was sent and has not taken
  dropped,        \* values it accepted and dropped
  touches,        \* changes by somebody else
  touched,        \* whether there was one since the call began
  late,           \* whether the monitor was behind when the call began
  calls, pc, op,
  plan,           \* the transactions left to a call
  trace,          \* history: what a call did with its service
  report,         \* of a reversible SET
  after,          \* the error a reversible SET returns once it restored, and
                  \* whether a failed restoration is returned instead
  ret

monitor == <<brightness, maximum, pending, dropped>>
others == <<touches, touched, late>>
call == <<calls, op>>
runner == <<plan, trace>>
vars == <<monitor, others, call, pc, runner, report, after, ret>>

-----------------------------------------------------------------------------
(* The monitor. *)

Take ==
  /\ pending # <<>> /\ brightness' = Head(pending) /\ pending' = Tail(pending)
  /\ UNCHANGED <<maximum, dropped, others, call, pc, runner, report, after, ret>>

Touch(v) ==
  /\ touches < MaxTouches /\ touches' = touches + 1 /\ touched' = TRUE
  /\ brightness' = v
  /\ UNCHANGED <<maximum, pending, dropped, late, call, pc, runner, report, after, ret>>

Arrives(v) ==
  /\ Len(pending) < MaxPending /\ pending' = Append(pending, v)
  /\ UNCHANGED <<brightness, maximum, dropped>>

(* A value that was accepted arrives, or is one of the few that do not.    *)
Accepts(v) ==
  \/ Arrives(v)
  \/ /\ dropped < MaxDrops /\ dropped' = dropped + 1
     /\ UNCHANGED <<brightness, maximum, pending>>

(* What the monitor will show once it has taken all it was sent. *)
Final == IF pending = <<>> THEN brightness ELSE pending[Len(pending)]

-----------------------------------------------------------------------------
(* How a call begins: with a plan, or with an error. *)

Goto(l) == pc' = l /\ UNCHANGED ret
Return(code) == pc' = "returned" /\ ret' = code

(* init_report *)
EmptyReport ==
  [outcome |-> "OK", original |-> None, target |-> None,
   written |-> FALSE, restoring |-> FALSE, restored |-> FALSE,
   verify_error |-> "OK", restore_error |-> "OK"]

Begin(o, l, transactions) ==
  /\ pc \in {"idle", "returned"} /\ calls < MaxCalls /\ calls' = calls + 1
  /\ op' = o /\ pc' = l /\ plan' = transactions /\ ret' = None
  /\ trace' = <<>> /\ after' = None /\ touched' = FALSE /\ late' = (pending # <<>>)
  /\ report' = IF o = "reversible" THEN EmptyReport ELSE report
  /\ UNCHANGED <<monitor, touches>>

(* A call that is refused leaves the caller's report as it was. *)
Reject(o, code) ==
  /\ pc \in {"idle", "returned"} /\ calls < MaxCalls /\ calls' = calls + 1
  /\ op' = o /\ Return(code) /\ plan' = <<>>
  /\ trace' = <<>> /\ after' = None /\ touched' = FALSE /\ late' = (pending # <<>>)
  /\ UNCHANGED <<monitor, touches, report>>

Event(what) == [do |-> what, code |-> None, value |-> None]
Write(code, v) == [do |-> "write", code |-> code, value |-> v]

(* rss_ddc_run_dcpdpservice_get_validation *)
GetValidation(correlated) ==
  IF correlated
  THEN Begin("get", "construct", <<Write("GET", None), Event("delay"), Event("read")>>)
  ELSE Reject("get", "SAFETY_GATE")

Delayed(frame) == <<Event("delay"), frame>>

(* Mutant: the frame is sent once. *)
MutTwice(frame) == Delayed(frame)

Twice(frame) == <<Event("delay"), frame, Event("delay"), frame>>

(* rss_ddc_run_dcpdpservice_set_validation *)
SetValidation(correlated, v) ==
  IF correlated THEN Begin("set", "construct", Twice(Write(Brightness, v)))
                ELSE Reject("set", "SAFETY_GATE")

(* rss_ddc_run_lg_alt_input_with_write_count *)
AltInputRunner(provider, v, count) ==
  IF provider # "DCPDP13" THEN Reject("alt", "UNSUPPORTED_PROVIDER")
  ELSE IF count \notin 1..2 \/ v \notin AltInputs THEN Reject("alt", "ARGUMENT")
  ELSE Begin("alt", "construct", IF count = 1 THEN Delayed(Write("0xf4", v))
                                 ELSE Twice(Write("0xf4", v)))

(* rss_ddc_set_input: the value of the alternate method is checked before  *)
(* a display is looked for; the standard method is a plain SET of 0x60.    *)
SetInput(method, v) ==
  IF method = "STANDARD" THEN Begin("input", "resolve", <<Write("0x60", v)>>)
  ELSE IF method = "LG_ALT" /\ v \in AltInputs
  THEN Begin("alt", "resolve", Delayed(Write("0xf4", v)))
  ELSE Reject("alt", "ARGUMENT")

(* rss_ddc_set_picture_mode, rss_ddc_lg_hdr_qhd_picture_mode_raw_value *)
SetPictureMode(mode) ==
  IF mode = "VIVID" THEN Begin("picture", "resolve", <<Write("0x15", 49)>>)
  ELSE IF mode = "READER" THEN Begin("picture", "resolve", <<Write("0x15", 1)>>)
  ELSE Reject("picture", "ARGUMENT")

(* rss_ddc_validate_lg_alt_input_target asks for the gate first, and       *)
(* rss_ddc_validate_lg_hdr_qhd_picture_mode_target for the profile.        *)
TargetFault(d) ==
  LET profiled == /\ d.product = Profiled[1] /\ d.transport = Profiled[2]
                  /\ op = "picture" => d.external
  IN  IF d.provider = "UNKNOWN" THEN "UNSUPPORTED_PROVIDER"
      ELSE IF d.provider # "DCPDP13" THEN "UNSUPPORTED_CAPABILITY"
      ELSE IF op = "alt" /\ ~d.gate THEN "SAFETY_GATE"
      ELSE IF ~profiled THEN "UNSUPPORTED_CAPABILITY"
      ELSE IF ~d.gate THEN "SAFETY_GATE" ELSE "OK"

(* rss_macos_set_lg_alt_input_snapshot, _set_lg_picture_mode_snapshot *)
Resolve ==
  /\ pc = "resolve"
  /\ \/ \E e \in BindingErrors : Return(e)
     \/ \E d \in Displays :
          IF op # "input" /\ TargetFault(d) # "OK" THEN Return(TargetFault(d))
          ELSE IF op = "alt" THEN Goto("construct") ELSE Goto("vcp")
  /\ UNCHANGED <<monitor, others, call, runner, report, after>>

-----------------------------------------------------------------------------
(* The transactions. *)

Elsewhere == UNCHANGED <<others, call, report, after>>
Did(e) == trace' = Append(trace, e)

(* rss_ddc_set_vcp, whose wire is SetVerify's matter.  It may be refused   *)
(* before its frames; the profile of a picture mode rules out most of that. *)
Vcp ==
  /\ pc = "vcp" /\ plan' = <<>> /\ UNCHANGED monitor /\ Elsewhere
  /\ \/ Did(Head(plan)) /\ (Return("OK") \/ Return("WRITE"))
     \/ /\ UNCHANGED trace
        /\ \/ Return("SERVICE_CONSTRUCTION")
           \/ op = "input" /\ \E e \in SetErrors : Return(e)

Construct ==
  /\ pc = "construct" /\ UNCHANGED <<monitor, plan>> /\ Elsewhere
  /\ \/ Goto("run") /\ Did(Event("construct"))
     \/ Return("SERVICE_CONSTRUCTION") /\ UNCHANGED trace

(* The next transaction, if it succeeds. *)
Transact ==
  /\ pc = "run" /\ plan # <<>> /\ Elsewhere
  /\ plan' = Tail(plan) /\ Did(Head(plan)) /\ UNCHANGED <<pc, ret>>
  /\ IF Head(plan).code = Brightness THEN Accepts(Head(plan).value)
     ELSE UNCHANGED monitor

(* If it fails, no other follows; a value may have arrived all the same.   *)
FailTransaction ==
  /\ pc = "run" /\ plan # <<>> /\ Elsewhere
  /\ plan' = <<>> /\ Did(Head(plan)) /\ pc' = "release"
  /\ ret' = CASE Head(plan).do = "write" -> "WRITE" [] Head(plan).do = "read" -> "READ"
              [] OTHER -> "SYSTEM"
  /\ \/ UNCHANGED monitor
     \/ Head(plan).code = Brightness /\ Arrives(Head(plan).value)

(* Mutant: the service is released when all went well. *)
MutRelease ==
  /\ pc = "release" \/ (pc = "run" /\ plan = <<>>)
  /\ IF pc = "run" THEN Did(Event("release")) ELSE UNCHANGED trace
  /\ IF pc = "release" THEN Return(ret)
     ELSE Return("OK") \/ (op = "get" /\ Return("REPLY"))
  /\ UNCHANGED <<monitor, plan>> /\ Elsewhere

(* The reply of a GET is parsed when the service is gone. *)
Release ==
  /\ pc = "release" \/ (pc = "run" /\ plan = <<>>)
  /\ Did(Event("release"))
  /\ IF pc = "release" THEN Return(ret)
     ELSE Return("OK") \/ (op = "get" /\ Return("REPLY"))
  /\ UNCHANGED <<monitor, plan>> /\ Elsewhere

-----------------------------------------------------------------------------
(* rss_ddc_run_dcpdpservice_reversible_set_validation.  The GET and SET it *)
(* is given fail as those above do.                                        *)

ReversibleSet(correlated) ==
  IF correlated THEN Begin("reversible", "pre_get", <<>>)
                ELSE Reject("reversible", "SAFETY_GATE")

Step == UNCHANGED <<others, call, runner>>

(* Mutant: the brightness goes down whenever there is a range. *)
MutAdjacent(original, max) ==
  IF original > 0 \/ max > 0 THEN (original - 1) % 65536 ELSE None

(* rss_ddc_dcpdpservice_set_validation_adjacent_target *)
Adjacent(original, max) ==
  IF original > 0 THEN original - 1
  ELSE IF max > 0 /\ original < max THEN original + 1 ELSE None

PreGet ==
  /\ pc = "pre_get" /\ Step /\ UNCHANGED <<monitor, after>>
  /\ \/ /\ report' = [report EXCEPT !.outcome = "PRE_GET_FAILED"]
        /\ \E e \in ReadErrors : Return(e)
     \/ LET target == Adjacent(brightness, maximum)
        IN  IF target = None
            THEN /\ report' = [report EXCEPT !.outcome = "NO_ADJACENT_TARGET",
                                             !.original = brightness]
                 /\ Return("ARGUMENT")
            ELSE /\ report' = [report EXCEPT !.original = brightness, !.target = target]
                 /\ Goto("target")

TargetSet ==
  /\ pc = "target" /\ Step /\ UNCHANGED after
  /\ \/ /\ report' = [report EXCEPT !.outcome = "TARGET_WRITE_FAILED"]
        /\ Return("WRITE") /\ (UNCHANGED monitor \/ Arrives(report.target))
     \/ /\ report' = [report EXCEPT !.written = TRUE]
        /\ Goto("settle") /\ Accepts(report.target)

(* The target could not be verified: restore, and return that error unless *)
(* a failure of the restoration replaces it.                               *)
Unverified(e, replaced) ==
  /\ report' = [report EXCEPT !.verify_error = e, !.outcome = "TARGET_VERIFY_FAILED"]
  /\ after' = [code |-> e, replaced |-> replaced]
  /\ Goto("restore")

Settle ==
  /\ pc = "settle" /\ Step /\ UNCHANGED monitor
  /\ \/ Goto("verify") /\ UNCHANGED <<report, after>>
     \/ Unverified("SYSTEM", FALSE)

Verified ==
  /\ brightness = report.target /\ UNCHANGED report
  /\ after' = [code |-> "OK", replaced |-> TRUE] /\ Goto("restore")

(* Mutant: a target that can not be read is not restored. *)
MutVerify ==
  /\ pc = "verify" /\ Step /\ UNCHANGED monitor
  /\ \/ \E e \in ReadErrors : Return(e) /\ UNCHANGED <<report, after>>
     \/ brightness # report.target /\ Unverified("VERIFY_MISMATCH", TRUE)
     \/ Verified

(* A GET that fails hides a failure of the restoration from the return     *)
(* value; one that reads another value does not.                           *)
Verify ==
  /\ pc = "verify" /\ Step /\ UNCHANGED monitor
  /\ \/ \E e \in ReadErrors : Unverified(e, FALSE)
     \/ brightness # report.target /\ Unverified("VERIFY_MISMATCH", TRUE)
     \/ Verified

(* attempt_restoration and the end of the call. *)

Unrestored(outcome, e) ==
  /\ report' = [report EXCEPT !.restoring = TRUE, !.restore_error = e,
                              !.outcome = outcome]
  /\ Return(IF after.replaced THEN e ELSE after.code)

RestoreSet ==
  /\ pc = "restore" /\ Step /\ UNCHANGED after
  /\ \/ /\ Unrestored("RESTORE_WRITE_FAILED", "WRITE")
        /\ UNCHANGED monitor \/ Arrives(report.original)
     \/ /\ report' = [report EXCEPT !.restoring = TRUE, !.restored = TRUE]
        /\ Goto("restore_settle") /\ Accepts(report.original)

RestoreSettle ==
  /\ pc = "restore_settle" /\ Step /\ UNCHANGED <<monitor, after>>
  /\ \/ Goto("restore_verify") /\ UNCHANGED report
     \/ Unrestored("RESTORE_VERIFY_FAILED", "SYSTEM")

(* Mutant: the outcome of the verification is lost with a restoration. *)
MutRestoreVerify ==
  /\ pc = "restore_verify" /\ Step /\ UNCHANGED <<monitor, after>>
  /\ \/ \E e \in ReadErrors : Unrestored("RESTORE_VERIFY_FAILED", e)
     \/ brightness # report.original /\ Unrestored("RESTORE_VERIFY_FAILED", "VERIFY_MISMATCH")
     \/ /\ brightness = report.original /\ Return(after.code)
        /\ report' = [report EXCEPT !.outcome = "OK"]

RestoreVerify ==
  /\ pc = "restore_verify" /\ Step /\ UNCHANGED <<monitor, after>>
  /\ \/ \E e \in ReadErrors : Unrestored("RESTORE_VERIFY_FAILED", e)
     \/ /\ brightness # report.original
        /\ Unrestored("RESTORE_VERIFY_FAILED", "VERIFY_MISMATCH")
     \/ brightness = report.original /\ Return(after.code) /\ UNCHANGED report

-----------------------------------------------------------------------------
Init ==
  /\ brightness \in Values /\ maximum \in Maxima /\ pending = <<>>
  /\ dropped = 0 /\ touches = 0 /\ touched = FALSE /\ late = FALSE /\ calls = 0
  /\ pc = "idle" /\ op = None /\ plan = <<>> /\ trace = <<>>
  /\ report = EmptyReport /\ after = None /\ ret = None

Next ==
  \/ \E correlated \in BOOLEAN :
       \/ GetValidation(correlated) \/ ReversibleSet(correlated)
       \/ \E v \in Values : SetValidation(correlated, v)
  \/ \E v \in InputValues :
       \/ \E provider \in {"DCPDP13", "PS190"}, count \in 0..3 :
            AltInputRunner(provider, v, count)
       \/ \E method \in {"STANDARD", "LG_ALT", "UNKNOWN"} : SetInput(method, v)
  \/ \E mode \in {"VIVID", "READER", "UNKNOWN"} : SetPictureMode(mode)
  \/ Resolve \/ Vcp \/ Construct \/ Transact \/ FailTransaction \/ Release
  \/ PreGet \/ TargetSet \/ Settle \/ Verify
  \/ RestoreSet \/ RestoreSettle \/ RestoreVerify
  \/ Take \/ \E v \in Values : Touch(v)

Spec == Init /\ [][Next]_vars

-----------------------------------------------------------------------------
(* Properties. *)

Events == [do : {"delay", "read", "write", "construct", "release"},
           code : {None, "GET", "0xf4", "0x60", "0x15", Brightness},
           value : InputValues \cup Values \cup {None, 49, 1}]
Errors == {"OK", "SYSTEM", "WRITE", "READ", "REPLY", "VERIFY_MISMATCH"}
Codes == Errors \cup BindingErrors \cup SetErrors \cup
         {"ARGUMENT", "SERVICE_CONSTRUCTION"}
Outcomes == {"OK", "PRE_GET_FAILED", "NO_ADJACENT_TARGET", "TARGET_WRITE_FAILED",
             "TARGET_VERIFY_FAILED", "RESTORE_WRITE_FAILED", "RESTORE_VERIFY_FAILED"}
Reports ==
  [outcome : Outcomes, original : Values \cup {None}, target : Values \cup {None},
   written : BOOLEAN, restoring : BOOLEAN, restored : BOOLEAN,
   verify_error : Errors, restore_error : Errors]

(* The type invariant. *)
TypeOK ==
  /\ brightness \in Values /\ maximum \in Maxima /\ pending \in Seq(Values)
  /\ Len(pending) <= MaxPending
  /\ dropped \in 0..MaxDrops /\ touches \in 0..MaxTouches /\ touched \in BOOLEAN /\ late \in BOOLEAN
  /\ calls \in 0..MaxCalls
  /\ pc \in {"idle", "resolve", "vcp", "construct", "run", "release", "pre_get",
             "target", "settle", "verify", "restore", "restore_settle",
             "restore_verify", "returned"}
  /\ op \in {None, "get", "set", "alt", "input", "picture", "reversible"}
  /\ plan \in Seq(Events) /\ trace \in Seq(Events)
  /\ report \in Reports
  /\ after \in [code : Errors, replaced : BOOLEAN] \cup {None}
  /\ ret \in Codes \cup {None}

(* Whichever transaction fails: a service is constructed once, released    *)
(* once and last, and nothing is transferred without it.                   *)
ServiceIsReleased ==
  LET is(what) == {i \in DOMAIN trace : trace[i].do = what}
  IN  op \in {"get", "set", "alt"} =>
        /\ is("construct") = IF trace = <<>> THEN {} ELSE {1}
        /\ is("release") = IF trace # <<>> /\ pc = "returned" THEN {Len(trace)} ELSE {}

(* A validation SET that succeeds has set the monitor, though that dropped *)
(* a frame or is yet to take it: the frame is sent twice.                  *)
SetLands ==
  op = "set" /\ pc = "returned" /\ ret = "OK" /\ ~touched /\ dropped <= 1 =>
    Final = trace[Len(trace) - 1].value

(* A reversible SET that changed the monitor tries to restore it, whatever *)
(* failed in between.  Nobody else interfering, the monitor then is or     *)
(* will be where it was or the outcome says that it may not be.  Only when *)
(* the target was not read back, or the monitor was still behind when the  *)
(* call began, can it drop the restoring value and nobody see it.          *)
MonitorIsPutBack ==
  op = "reversible" /\ pc = "returned" /\ ret # "SAFETY_GATE" =>
    /\ report.written => report.restoring
    /\ report.written /\ ~touched =>
         \/ Final = report.original
         \/ report.outcome \in {"RESTORE_WRITE_FAILED", "RESTORE_VERIFY_FAILED"}
         \/ dropped > 0 /\ (late \/ report.outcome = "TARGET_VERIFY_FAILED")

(* The report of a reversible SET and what it returned tell one story: a   *)
(* success has no error, a failed restoration goes before a failed         *)
(* verification, and the error returned is one of the two.                 *)
ReportIsTrue ==
  op = "reversible" /\ pc = "returned" /\ ret # "SAFETY_GATE" =>
    /\ ret = "OK" <=> report.outcome = "OK"
    /\ report.written <=> report.restoring
    /\ report.restored => report.restoring
    /\ report.restore_error # "OK" <=>
         report.outcome \in {"RESTORE_WRITE_FAILED", "RESTORE_VERIFY_FAILED"}
    /\ report.outcome = "RESTORE_WRITE_FAILED" => ~report.restored
    /\ report.outcome \in {"OK", "TARGET_VERIFY_FAILED", "RESTORE_VERIFY_FAILED"} =>
         report.restored
    /\ report.verify_error # "OK" /\ report.restore_error = "OK" <=>
         report.outcome = "TARGET_VERIFY_FAILED"
    /\ report.written => ret \in {report.verify_error, report.restore_error}
=============================================================================
