----------------------------- MODULE SetVerify -----------------------------
(***************************************************************************)
(* One caller's VCP operations (GET, SET, Set-and-Verify) against monitors *)
(* that come and go: the orchestration of core/verify.c, the macOS adapter *)
(* of core/rss_ddc.c that re-resolves the display before every             *)
(* verification GET, and the GET and SET transactions of the providers.    *)
(*                                                                         *)
(* The environment attaches and detaches monitors, reuses display ids,     *)
(* reorders the display list and lets a monitor apply an accepted SET      *)
(* late or never.  A `hotplug' value is one of two assumptions on it:      *)
(*   "anytime"  a monitor may come or go between any two steps, and the    *)
(*              services of a monitor that has gone refuse every transfer; *)
(*   "pauses"   a registry entry may outlive its monitor and address what  *)
(*              is now on the port, but monitors come and go only while    *)
(*              no operation runs or while it sleeps.                      *)
(***************************************************************************)
EXTENDS Naturals, FiniteSets

CONSTANTS
  Monitors,       \* the physical monitors
  Ports,          \* the display pipes, each with its own service proxy
  DisplayIds,     \* CoreGraphics display ids (not 0), reused after a detach
  Values,         \* 16-bit values of the one control code the calls use
  Requests,       \* the calls a caller may make
  Uuid,           \* display UUID of a monitor
  Product,        \* product name of a monitor
  PortProvider,   \* provider class (and role) seen on a port
  MaxRetries,     \* RSS_DDC_VERIFY_MAX_RETRIES
  MaxDelay,       \* RSS_DDC_VERIFY_MAX_DELAY_MS
  MaxAttaches,    \* bound on the monitors attached in a behaviour
  NoLink, NoIdentity, NoRequest, NoValue, NoResult   \* absent values

Codes == {"OK", "ARGUMENT", "NOT_FOUND", "UNSUPPORTED_PROVIDER",
          "UNSUPPORTED_CAPABILITY", "DISCOVERY", "SAFETY_GATE",
          "SERVICE_CONSTRUCTION", "WRITE", "READ", "REPLY_LENGTH",
          "REPLY_SOURCE", "REPLY_COMMAND", "REPLY_STATUS", "REPLY_VCP",
          "REPLY_CHECKSUM", "VERIFY_MISMATCH", "VERIFY_RETRY_EXHAUSTED",
          "VERIFY_UNAVAILABLE", "SYSTEM"}

ReplyErrors == {"REPLY_LENGTH", "REPLY_SOURCE", "REPLY_COMMAND",
                "REPLY_STATUS", "REPLY_VCP", "REPLY_CHECKSUM"}

Providers == {"PS190", "DCPDP13", "DCPDP_SERVICE", "MCDP29XX", "UNKNOWN"}

(* rss_ddc_verify_error_is_retryable *)
Retryable == {"SERVICE_CONSTRUCTION", "READ", "SYSTEM"} \cup ReplyErrors

Policies == [settle_ms : Nat, retry_count : Nat, retry_delay_ms : Nat]

Request == [op : {"get", "set", "set_verify"}, index : Nat, vcp : Nat,
            value : Values, policy : Policies]

(* A monitor on a port under a display id: one attachment, never repeated. *)
Link == [mon : Monitors, port : Ports, id : DisplayIds, epoch : Nat]

Identity == [id : DisplayIds, uuid : {Uuid[m] : m \in Monitors},
             product : {Product[m] : m \in Monitors},
             provider : Providers]

ASSUME MonitorAssumption ==
  /\ Uuid = [m \in Monitors |-> Uuid[m]]
  /\ Product = [m \in Monitors |-> Product[m]]
  /\ PortProvider \in [Ports -> Providers]
ASSUME UuidAssumption ==
  \A m, n \in Monitors : Uuid[m] = Uuid[n] => m = n
ASSUME RequestAssumption ==
  /\ Requests \subseteq Request
  /\ MaxRetries \in Nat /\ MaxDelay \in Nat /\ MaxAttaches \in Nat
ASSUME AbsentAssumption ==
  /\ NoLink \notin Link
  /\ NoIdentity \notin Identity
  /\ NoRequest \notin Request
  /\ NoValue \notin Values
  /\ NoResult \notin [from : Monitors, current : Values]

VARIABLES
  hotplug,        \* the assumption on the environment, fixed for a behaviour
  links,          \* the monitors attached now
  attaches,       \* how many were attached since the start
  val,            \* the control's value on each monitor
  pending,        \* a SET a monitor has accepted and not yet applied
  pc,             \* where the call is
  req,            \* its arguments
  id,             \* the display id found at the list index, else 0
  binding,        \* the service binding in use
  identity,       \* evidence captured before the SET
  attempt,        \* number of the verification attempt, 0 before the first
  ret,            \* what the call returned
  result,         \* the caller's result, with the monitor it came from
  \* What the bus has seen of the current call:
  landed,         \* monitors that took a SET frame
  asked,          \* monitors that took a GET request
  setWrites,      \* SET frames accepted
  gets            \* GET transactions begun

env  == <<hotplug, links, attaches, val, pending>>
call == <<pc, req, id, binding, identity, attempt, ret, result>>
bus  == <<landed, asked, setWrites, gets>>
vars == <<env, call, bus>>

Sleeping == {"idle", "returned", "settle", "backoff"}
Locations == Sleeping \cup {"list", "service", "identity", "set_construct",
               "set_write", "get_construct", "get_write", "get_read"}

TypeOK ==
  /\ hotplug \in {"anytime", "pauses"}
  /\ links \in SUBSET Link
  /\ attaches \in 0..MaxAttaches
  /\ val \in [Monitors -> Values]
  /\ pending \in [Monitors -> Values \cup {NoValue}]
  /\ pc \in Locations
  /\ req \in Requests \cup {NoRequest}
  /\ id \in DisplayIds \cup {0}
  /\ binding \in Link \cup {NoLink}
  /\ identity \in Identity \cup {NoIdentity}
  /\ attempt \in Nat
  /\ ret \in Codes
  /\ result \in [from : Monitors, current : Values] \cup {NoResult}
  /\ landed \in SUBSET Monitors
  /\ asked \in SUBSET Monitors
  /\ setWrites \in 0..2
  /\ gets \in Nat

-----------------------------------------------------------------------------
(* The environment. *)

MayMove == hotplug = "anytime" \/ pc \in Sleeping

Attach(m, p, d) ==
  /\ MayMove
  /\ attaches < MaxAttaches
  /\ \A l \in links : l.mon # m /\ l.port # p /\ l.id # d
  /\ links' = links \cup
       {[mon |-> m, port |-> p, id |-> d, epoch |-> attaches + 1]}
  /\ attaches' = attaches + 1
  /\ UNCHANGED <<hotplug, val, pending, call, bus>>

Detach(l) ==
  /\ MayMove
  /\ links' = links \ {l}
  /\ UNCHANGED <<hotplug, attaches, val, pending, call, bus>>

(* A monitor acts on the SET it accepted, or drops it. *)
Settled(m) ==
  /\ pending[m] # NoValue
  /\ val' \in {val, [val EXCEPT ![m] = pending[m]]}
  /\ pending' = [pending EXCEPT ![m] = NoValue]
  /\ UNCHANGED <<hotplug, links, attaches, call, bus>>

(* The monitors a transfer over binding b reaches. *)
Reached(b) ==
  IF hotplug = "anytime" THEN {l.mon : l \in links \cap {b}}
                         ELSE {l.mon : l \in {k \in links : k.port = b.port}}

-----------------------------------------------------------------------------
(* How a call ends, waits or tries again. *)

Goto(l) == pc' = l /\ UNCHANGED <<ret, attempt>>

Finish(code) == pc' = "returned" /\ ret' = code /\ UNCHANGED attempt

PolicyIsValid(p) ==
  /\ p.retry_count <= MaxRetries
  /\ p.settle_ms <= MaxDelay
  /\ p.retry_delay_ms <= MaxDelay

(* The next attempt starts with a fresh lookup of the list index. *)
NextAttempt == pc' = "list" /\ attempt' = attempt + 1 /\ UNCHANGED ret

(* Mutant: the window is closed one attempt early. *)
MutJudgeOffByOne(code) ==
  \/ /\ code \notin Retryable \cup {"VERIFY_MISMATCH"}
     /\ Finish(code)
  \/ /\ code \in Retryable \cup {"VERIFY_MISMATCH"}
     /\ attempt >= req.policy.retry_count
     /\ Finish(IF code = "VERIFY_MISMATCH" THEN code
                                           ELSE "VERIFY_RETRY_EXHAUSTED")
  \/ /\ code \in Retryable \cup {"VERIFY_MISMATCH"}
     /\ attempt < req.policy.retry_count
     /\ NextAttempt

Judge(code) ==
  \/ /\ code \notin Retryable \cup {"VERIFY_MISMATCH"}
     /\ Finish(code)
  \/ /\ code \in Retryable \cup {"VERIFY_MISMATCH"}
     /\ attempt = req.policy.retry_count + 1
     /\ Finish(IF code = "VERIFY_MISMATCH" THEN code
                                           ELSE "VERIFY_RETRY_EXHAUSTED")
  \/ /\ code \in Retryable \cup {"VERIFY_MISMATCH"}
     /\ attempt <= req.policy.retry_count
     /\ IF req.policy.retry_delay_ms # 0 THEN Goto("backoff")
                                         ELSE NextAttempt

(* Mutants: the failure is reported as it is; it is retried uncounted. *)
MutCannotResolvePlain(code) == Finish(code)

MutCannotResolveRetried(code) ==
  IF attempt = 0 THEN Finish(code) ELSE Goto("list")

(* A resolution failure ends the call, in a verification as UNAVAILABLE. *)
CannotResolve(code) ==
  Finish(IF attempt = 0 THEN code ELSE "VERIFY_UNAVAILABLE")

(* Mutant: one accepted frame is taken for a SET. *)
MutSetDoneOneFrame(code) ==
  IF req.op = "set" \/ (code # "OK" /\ setWrites = 0) THEN Finish(code)
  ELSE NextAttempt

SetDone(code) ==
  IF req.op = "set" \/ code # "OK" THEN Finish(code)
  ELSE IF req.policy.settle_ms # 0 THEN Goto("settle")
  ELSE NextAttempt

GetFails(code) == IF req.op = "get" THEN Finish(code) ELSE Judge(code)

-----------------------------------------------------------------------------
(* The caller. *)

ArgumentsRejected(r) ==
  \/ r.op # "get" /\ r.vcp = 0
  \/ r.op = "set_verify" /\ ~PolicyIsValid(r.policy)
  \/ r.index = 0

Call(r) ==
  /\ pc \in {"idle", "returned"}
  /\ req' = r
  /\ \/ ArgumentsRejected(r) /\ pc' = "returned" /\ ret' = "ARGUMENT"
     \/ ~ArgumentsRejected(r) /\ pc' = "list" /\ ret' = "OK"
  /\ attempt' = 0
  /\ id' = 0
  /\ binding' = NoLink
  /\ identity' = NoIdentity
  /\ result' = NoResult
  /\ landed' = {} /\ asked' = {} /\ setWrites' = 0 /\ gets' = 0
  /\ UNCHANGED env

-----------------------------------------------------------------------------
(* Resolution of the list index, before the operation and again before     *)
(* every verification GET.                                                 *)

(* online_display_id_for_index: the list has no order a caller could rely  *)
(* on, so an index denotes any of the displays that are online now.        *)
FindDisplay ==
  /\ pc = "list"
  /\ \/ /\ req.index <= Cardinality(links)
        /\ \E l \in links : id' = l.id
        /\ Goto("service")
     \/ /\ \/ req.index > Cardinality(links) /\ CannotResolve("NOT_FOUND")
           \/ \E e \in {"DISCOVERY", "SYSTEM"} : CannotResolve(e)
        /\ UNCHANGED id
  /\ UNCHANGED <<env, req, binding, identity, result, bus>>

(* service_for_display and the provider's safety gates: one proxy of the   *)
(* selected display, or a refusal.                                         *)
Correlate ==
  /\ pc = "service"
  /\ \/ /\ \E l \in links : l.id = id /\ binding' = l
        /\ Goto(CASE req.op = "get" -> "get_construct"
                  [] req.op = "set" -> "set_construct"
                  [] OTHER -> "identity")
     \/ /\ \E e \in {"DISCOVERY", "SAFETY_GATE"} : CannotResolve(e)
        /\ binding' = NoLink
  /\ id' = 0
  /\ UNCHANGED <<env, req, identity, result, bus>>

(* copy_identity_from_display: the UUID is asked of the display id, the    *)
(* rest was copied when the service was found.                             *)
Evidence(holder) ==
  [id |-> binding.id, uuid |-> Uuid[holder.mon],
   product |-> Product[binding.mon], provider |-> PortProvider[binding.port]]

Holders == {l \in links : l.id = binding.id}

CaptureIdentity ==
  /\ pc = "identity" /\ attempt = 0
  /\ \/ /\ \E l \in Holders : identity' = Evidence(l)
        /\ Goto("set_construct")
     \/ Finish("SAFETY_GATE") /\ UNCHANGED identity
  /\ UNCHANGED <<env, req, id, binding, result, bus>>

(* Mutant: the evidence is read again and not compared. *)
MutMatchAnyIdentity ==
  /\ pc = "identity" /\ attempt > 0
  /\ \/ Holders # {} /\ Goto("get_construct")
     \/ Finish("VERIFY_UNAVAILABLE")
  /\ UNCHANGED <<env, req, id, binding, identity, result, bus>>

(* A verification proceeds only on the evidence captured before the SET. *)
MatchIdentity ==
  /\ pc = "identity" /\ attempt > 0
  /\ \/ \E l \in Holders :
          IF Evidence(l) = identity THEN Goto("get_construct")
                                    ELSE Finish("VERIFY_UNAVAILABLE")
     \/ Finish("VERIFY_UNAVAILABLE")
  /\ UNCHANGED <<env, req, id, binding, identity, result, bus>>

-----------------------------------------------------------------------------
(* The providers' transactions. *)

(* The answer of a provider that has no VCP transport, or "OK". *)
Dispatch(b) ==
  CASE PortProvider[b.port] = "UNKNOWN" -> "UNSUPPORTED_PROVIDER"
    [] PortProvider[b.port] = "MCDP29XX" -> "UNSUPPORTED_CAPABILITY"
    [] OTHER -> "OK"

ConstructForSet ==
  /\ pc = "set_construct"
  /\ \/ Dispatch(binding) # "OK" /\ SetDone(Dispatch(binding))
     \/ Dispatch(binding) = "OK" /\ SetDone("SERVICE_CONSTRUCTION")
     \/ /\ Dispatch(binding) = "OK"
        /\ Reached(binding) # {}
        /\ Goto("set_write")
  /\ UNCHANGED <<env, req, id, binding, identity, result, bus>>

Frames == 2

(* Mutant: one frame too many. *)
MutWriteSetThrice ==
  /\ pc = "set_write"
  /\ \E m \in Reached(binding) :
       /\ pending' = [pending EXCEPT ![m] = req.value]
       /\ landed' = landed \cup {m}
       /\ setWrites' = setWrites + 1
       /\ IF setWrites <= Frames - 1 THEN Goto("set_write") ELSE SetDone("OK")
  /\ UNCHANGED <<hotplug, links, attaches, val, req, id, binding, identity,
                 result, asked, gets>>

(* Two identical frames, each able to change the monitor on its own. *)
WriteSet ==
  /\ pc = "set_write"
  /\ \/ \E m \in Reached(binding) :
          /\ pending' = [pending EXCEPT ![m] = req.value]
          /\ landed' = landed \cup {m}
          /\ setWrites' = setWrites + 1
          /\ IF setWrites + 1 < Frames THEN Goto("set_write")
                                     ELSE SetDone("OK")
     \/ SetDone("WRITE") /\ UNCHANGED <<pending, landed, setWrites>>
  /\ UNCHANGED <<hotplug, links, attaches, val, req, id, binding, identity,
                 result, asked, gets>>

(* Mutant: a retry repeats the SET. *)
MutWakeAndSetAgain ==
  /\ pc \in {"settle", "backoff"}
  /\ IF pc = "settle" THEN NextAttempt ELSE Goto("set_construct")
  /\ UNCHANGED <<env, req, id, binding, identity, result, bus>>

(* A sleep of the orchestrator ends and the next attempt begins. *)
Wake ==
  /\ pc \in {"settle", "backoff"}
  /\ NextAttempt
  /\ UNCHANGED <<env, req, id, binding, identity, result, bus>>

ConstructForGet ==
  /\ pc = "get_construct"
  /\ gets' = gets + 1
  /\ \/ Dispatch(binding) # "OK" /\ GetFails(Dispatch(binding))
     \/ Dispatch(binding) = "OK" /\ GetFails("SERVICE_CONSTRUCTION")
     \/ /\ Dispatch(binding) = "OK"
        /\ Reached(binding) # {}
        /\ Goto("get_write")
  /\ UNCHANGED <<env, req, id, binding, identity, result, landed, asked,
                 setWrites>>

WriteGet ==
  /\ pc = "get_write"
  /\ \/ Reached(binding) # {} /\ asked' = asked \cup Reached(binding)
        /\ Goto("get_read")
     \/ GetFails("WRITE") /\ UNCHANGED asked
  /\ UNCHANGED <<env, req, id, binding, identity, result, landed, setWrites,
                 gets>>

(* A reply is refused by the bus or by the parser, or carries the value of *)
(* the monitor the read reaches.                                           *)
ReadReply ==
  /\ pc = "get_read"
  /\ \/ (\E e \in {"READ"} \cup ReplyErrors : GetFails(e))
        /\ UNCHANGED result
     \/ \E m \in Reached(binding) :
          IF req.op = "get" \/ val[m] = req.value
          THEN Finish("OK") /\ result' = [from |-> m, current |-> val[m]]
          ELSE Judge("VERIFY_MISMATCH") /\ UNCHANGED result
  /\ UNCHANGED <<env, req, id, binding, identity, bus>>

-----------------------------------------------------------------------------
Init ==
  /\ hotplug \in {"anytime", "pauses"}
  /\ links \in {s \in SUBSET [mon : Monitors, port : Ports, id : DisplayIds,
                               epoch : {0}] :
                  \A k, l \in s : k.mon = l.mon \/ k.port = l.port
                                    \/ k.id = l.id => k = l}
  /\ attaches = 0
  /\ val \in [Monitors -> Values]
  /\ pending = [m \in Monitors |-> NoValue]
  /\ pc = "idle"
  /\ req = NoRequest
  /\ id = 0
  /\ binding = NoLink
  /\ identity = NoIdentity
  /\ attempt = 0
  /\ ret = "OK"
  /\ result = NoResult
  /\ landed = {} /\ asked = {} /\ setWrites = 0 /\ gets = 0

Environment ==
  \/ \E m \in Monitors, p \in Ports, d \in DisplayIds : Attach(m, p, d)
  \/ \E l \in links : Detach(l)
  \/ \E m \in Monitors : Settled(m)

Step ==
  \/ FindDisplay \/ Correlate \/ CaptureIdentity \/ MatchIdentity
  \/ ConstructForSet \/ WriteSet \/ Wake
  \/ ConstructForGet \/ WriteGet \/ ReadReply

Next == Environment \/ Step \/ \E r \in Requests : Call(r)

Spec == Init /\ [][Next]_vars

(* The library's thread keeps running: every call it makes into the system *)
(* returns and every sleep ends.  Nothing is assumed of the environment.   *)
FairSpec == Spec /\ WF_vars(Step)
-----------------------------------------------------------------------------
(* Properties. *)

(* One call speaks to one monitor: whatever is attached, detached or       *)
(* renumbered meanwhile, the SET frames and every GET request of a call    *)
(* arrive at the same physical monitor.  (macos_verify_get: a sibling that *)
(* inherited the list index is never addressed.)                           *)
OneMonitorPerCall == \A m, n \in landed \cup asked : m = n

(* `result' is written only when the call succeeds, and a verified SET     *)
(* succeeds only with the requested value read from the monitor that took  *)
(* both SET frames.                                                        *)
VerifiedIsTheTarget ==
  /\ result # NoResult => pc = "returned" /\ ret = "OK"
  /\ pc = "returned" /\ ret = "OK" /\ req.op = "set_verify" =>
       /\ result # NoResult
       /\ result.current = req.value
       /\ landed = {result.from} /\ setWrites = 2

(* The retry window: never more GETs than the policy's initial one and its *)
(* additional ones, and an exhaustion verdict only after all of them.      *)
WindowIsExhausted ==
  req # NoRequest /\ req.op = "set_verify" =>
    /\ gets <= req.policy.retry_count + 1
    /\ pc = "returned" /\ ret \in {"VERIFY_MISMATCH", "VERIFY_RETRY_EXHAUSTED"}
         => gets = req.policy.retry_count + 1

(* The SET is attempted once: no third frame is ever sent, and none after  *)
(* the first verification GET began, whatever that GET answers.            *)
SetIsNeverRepeated ==
  [][setWrites' > setWrites => gets = 0 /\ setWrites' <= 2]_vars

(* A call that began returns. *)
CallReturns == pc = "list" ~> pc = "returned"

Abstract == INSTANCE VerifiedSet WITH
  Refusals <- {"ARGUMENT", "NOT_FOUND", "UNSUPPORTED_PROVIDER",
               "UNSUPPORTED_CAPABILITY", "DISCOVERY", "SAFETY_GATE",
               "SERVICE_CONSTRUCTION", "SYSTEM"},
  Reports <- {"VERIFY_MISMATCH", "VERIFY_RETRY_EXHAUSTED",
              "VERIFY_UNAVAILABLE"},
  GetFailures <- {"READ"} \cup ReplyErrors,
  Unanswered <- "none",
  op <- IF req = NoRequest THEN "none" ELSE req.op,
  changed <- landed,
  complete <- setWrites = 2,
  verdict <- IF pc = "returned" THEN ret ELSE "none",
  witness <- IF result = NoResult THEN {} ELSE {result.from}

(* Every call keeps what VerifiedSet promises: in particular a refusal     *)
(* means that no frame was taken, a VERIFY_* code that the SET was, and a  *)
(* GET that fails can leave the caller in doubt only with WRITE.           *)
AnswersAreHonest == Abstract!Spec
=============================================================================
