-------------------------- MODULE SetVerifyProofs --------------------------
(***************************************************************************)
(* The safety properties of SetVerify for every set of monitors, ports,    *)
(* display ids, values and requests, every policy bound and every number   *)
(* of attachments, under both assumptions on the environment.              *)
(*                                                                         *)
(* Why one call stays with one monitor is not visible in any single state: *)
(* a display id can be given to another monitor between two steps, so the  *)
(* UUID read at the id need not be that of the bound service's monitor.    *)
(* The argument is that it is, whenever the binding can still transfer     *)
(* anything (EvidenceOK), because attachments are never repeated.          *)
(*                                                                         *)
(* The last section shows that SetVerify implements VerifiedSet.           *)
(***************************************************************************)
EXTENDS SetVerify, TLAPS

(* Ports and ids hold one attachment each, and epochs grow. *)
LinksOK ==
  /\ \A k, l \in links : k.port = l.port \/ k.id = l.id => k = l
  /\ \A l \in links : l.epoch <= attaches

Transferring == {"set_construct", "set_write",
                 "get_construct", "get_write", "get_read"}

(* A binding in use was attached once and, if monitors may only move       *)
(* during pauses, still is.                                                *)
BindingOK ==
  /\ binding # NoLink => binding.epoch <= attaches
  /\ pc \in Transferring \cup {"identity"} =>
       /\ binding # NoLink
       /\ hotplug = "pauses" => binding \in links

(* Which operation can be where, and how often it has tried. *)
ControlOK ==
  /\ (pc = "idle") <=> (req = NoRequest)
  /\ req # NoRequest /\ (attempt > 0 \/ pc \in {"settle", "backoff", "identity"})
       => req.op = "set_verify"
  /\ pc \in {"idle", "set_construct", "set_write", "settle"} => attempt = 0
  /\ pc \in {"set_construct", "set_write"} => req.op \in {"set", "set_verify"}
  /\ pc \in {"get_construct", "get_write", "get_read", "backoff"}
       => req.op = "get" \/ (req.op = "set_verify" /\ attempt > 0)

(* The attempts of the retry window and the GETs they began. *)
WindowOK ==
  req # NoRequest =>
  /\ req.op = "set_verify" => attempt <= req.policy.retry_count + 1
  /\ req.op = "set_verify" /\ pc = "backoff" => attempt <= req.policy.retry_count
  /\ attempt = 0 /\ req.op # "get" => gets = 0
  /\ req.op = "set_verify" /\ attempt > 0 =>
       /\ gets <= attempt
       /\ pc \in {"list", "service", "identity", "get_construct"}
            => gets = attempt - 1
       /\ pc \in {"get_write", "get_read", "backoff"} => gets = attempt

(* How far the SET has come. *)
FramesOK ==
  /\ (landed = {}) <=> (setWrites = 0)
  /\ pc \in {"idle", "list", "service", "identity", "set_construct"} /\ attempt = 0
       => setWrites = 0
  /\ pc = "set_write" => setWrites <= 1
  /\ attempt > 0 \/ pc = "settle" => setWrites = 2

(* The captured UUID is that of the bound monitor while the binding lives. *)
EvidenceOK ==
  req # NoRequest /\ req.op = "set_verify" /\ pc \in Transferring =>
    /\ identity # NoIdentity
    /\ binding \in links => identity.uuid = Uuid[binding.mon]

(* Every monitor the call has spoken to is the one it is about. *)
TouchedOK ==
  /\ pc \in {"idle", "list", "service", "identity", "set_construct"} /\ attempt = 0
       => landed \cup asked = {}
  /\ req # NoRequest /\ req.op = "set_verify" =>
       \A m \in landed \cup asked : identity # NoIdentity /\ Uuid[m] = identity.uuid
  /\ req # NoRequest /\ req.op # "set_verify" =>
       \A m \in landed \cup asked : binding # NoLink /\ m = binding.mon

ResultOK ==
  /\ result # NoResult => pc = "returned" /\ ret = "OK"
  /\ pc = "returned" /\ ret = "OK" /\ req # NoRequest /\ req.op = "set_verify" =>
       /\ result # NoResult
       /\ result.current = req.value
       /\ identity # NoIdentity
       /\ Uuid[result.from] = identity.uuid
       /\ setWrites = 2

IInv == TypeOK /\ LinksOK /\ BindingOK /\ ControlOK /\ WindowOK /\ FramesOK
          /\ EvidenceOK /\ TouchedOK /\ ResultOK /\ WindowIsExhausted
-----------------------------------------------------------------------------
(* How a call's control can move, whatever the code that moves it. *)
LEMMA ControlTypes ==
  ASSUME TypeOK, req \in Requests, NEW code \in Codes,
         Judge(code) \/ SetDone(code) \/ GetFails(code) \/ CannotResolve(code)
           \/ Finish(code)
  PROVE  pc' \in Locations /\ ret' \in Codes /\ attempt' \in Nat
  BY DEF TypeOK, Judge, SetDone, GetFails, CannotResolve, Finish, Goto,
         NextAttempt, Codes, Locations, Sleeping

LEMMA RequestTypes ==
  ASSUME NEW r \in Requests
  PROVE  /\ r.op \in {"get", "set", "set_verify"}
         /\ r.value \in Values
         /\ r.policy.retry_count \in Nat
  BY RequestAssumption DEF Request, Policies

LEMMA EvidenceType ==
  ASSUME TypeOK, binding # NoLink, NEW l \in links
  PROVE  Evidence(l) \in Identity
  BY MonitorAssumption DEF TypeOK, Evidence, Identity, Link

LEMMA TypeInit == Init => TypeOK
  BY RequestAssumption, AbsentAssumption
     DEF Init, TypeOK, Locations, Sleeping, Codes, Link

LEMMA TypeStep ==
  TypeOK /\ BindingOK /\ ControlOK /\ FramesOK /\ [Next]_vars => TypeOK'
<1> SUFFICES ASSUME TypeOK, BindingOK, ControlOK, FramesOK, [Next]_vars
             PROVE  TypeOK'
  OBVIOUS
<1>a. "OK" \in Codes /\ "ARGUMENT" \in Codes
  BY DEF Codes
<1>b. pc # "idle" => req \in Requests
  BY DEF TypeOK, ControlOK
<1>1. ASSUME NEW m \in Monitors, NEW p \in Ports, NEW d \in DisplayIds,
             Attach(m, p, d)
      PROVE  TypeOK'
  BY <1>1, RequestAssumption DEF Attach, TypeOK, Link, call, bus
<1>2. ASSUME NEW l \in links, Detach(l) PROVE TypeOK'
  BY <1>2 DEF Detach, TypeOK, call, bus
<1>3. ASSUME NEW m \in Monitors, Settled(m) PROVE TypeOK'
  BY <1>3 DEF Settled, TypeOK, call, bus
<1>4. ASSUME NEW r \in Requests, Call(r) PROVE TypeOK'
  BY <1>4 DEF Call, TypeOK, env, Locations, Sleeping, Codes
<1>5. CASE FindDisplay
  BY <1>5, <1>b, ControlTypes
     DEF FindDisplay, TypeOK, env, bus, Goto, Link, Locations, Codes
<1>6. CASE Correlate
  BY <1>6, <1>b, ControlTypes
     DEF Correlate, TypeOK, env, bus, Goto, Locations, Codes
<1>7. CASE CaptureIdentity
  <2>1. \A l \in Holders : Evidence(l) \in Identity
    BY <1>7, EvidenceType DEF CaptureIdentity, BindingOK, Holders
  <2>2. QED
    BY <1>7, <1>b, <2>1
       DEF CaptureIdentity, TypeOK, env, bus, Goto, Finish, Locations, Sleeping,
           Codes
<1>8. CASE MatchIdentity
  BY <1>8, <1>b
     DEF MatchIdentity, TypeOK, env, bus, Goto, Finish, Locations, Sleeping, Codes
<1>9. CASE ConstructForSet
  BY <1>9, <1>b, ControlTypes
     DEF ConstructForSet, TypeOK, env, bus, Goto, Dispatch, Locations, Codes
<1>10. CASE WriteSet
  BY <1>10, <1>b, ControlTypes, RequestTypes
     DEF WriteSet, Frames, TypeOK, FramesOK, Goto, Reached, Link, Locations, Codes
<1>11. CASE Wake
  BY <1>11, <1>b DEF Wake, TypeOK, env, bus, NextAttempt, Locations
<1>12. CASE ConstructForGet
  BY <1>12, <1>b, ControlTypes
     DEF ConstructForGet, TypeOK, env, Goto, Dispatch, Locations, Codes
<1>13. CASE WriteGet
  BY <1>13, <1>b, ControlTypes
     DEF WriteGet, TypeOK, env, Goto, Reached, Link, Locations, Codes
<1>14. CASE ReadReply
  BY <1>14, <1>b, ControlTypes
     DEF ReadReply, TypeOK, env, bus, Reached, Link, Codes, ReplyErrors
<1>15. CASE UNCHANGED vars
  BY <1>15 DEF TypeOK, vars, env, call, bus
<1>16. QED
  BY <1>1, <1>2, <1>3, <1>4, <1>5, <1>6, <1>7, <1>8, <1>9, <1>10, <1>11,
     <1>12, <1>13, <1>14, <1>15 DEF Next, Environment, Step
-----------------------------------------------------------------------------
(* A transfer reaches the monitor that was bound, or nothing: in either    *)
(* environment the binding is then still attached.                         *)
LEMMA ReachedIsBound ==
  ASSUME TypeOK, LinksOK, BindingOK, pc \in Transferring,
         NEW m \in Reached(binding)
  PROVE  binding \in links /\ m = binding.mon /\ m \in Monitors
<1>1. CASE hotplug = "anytime"
  BY <1>1 DEF Reached, TypeOK, Link
<1>2. CASE hotplug # "anytime"
  BY <1>2 DEF Reached, TypeOK, LinksOK, BindingOK, Link
<1>3. QED
  BY <1>1, <1>2

(* Steps of the call leave the attachments alone. *)
LEMMA StepKeepsLinks ==
  ASSUME Step \/ (\E r \in Requests : Call(r)) \/ UNCHANGED vars
  PROVE  UNCHANGED <<hotplug, links, attaches>>
  BY DEF Step, FindDisplay, Correlate, CaptureIdentity, MatchIdentity,
         ConstructForSet, WriteSet, Frames, Wake, ConstructForGet, WriteGet, ReadReply,
         Call, vars, env

LEMMA LinksStep == TypeOK /\ LinksOK /\ [Next]_vars => LinksOK'
<1> SUFFICES ASSUME TypeOK, LinksOK, [Next]_vars
             PROVE  LinksOK'
  OBVIOUS
<1>1. ASSUME NEW m \in Monitors, NEW p \in Ports, NEW d \in DisplayIds,
             Attach(m, p, d)
      PROVE  LinksOK'
  BY <1>1 DEF Attach, TypeOK, LinksOK, Link
<1>2. ASSUME NEW l \in links, Detach(l) PROVE LinksOK'
  BY <1>2 DEF Detach, LinksOK
<1>3. ASSUME NEW m \in Monitors, Settled(m) PROVE LinksOK'
  BY <1>3 DEF Settled, LinksOK
<1>4. ASSUME UNCHANGED <<hotplug, links, attaches>> PROVE LinksOK'
  BY <1>4 DEF LinksOK
<1>5. QED
  BY <1>1, <1>2, <1>3, <1>4, StepKeepsLinks DEF Next, Environment

LEMMA BindingStep ==
  TypeOK /\ LinksOK /\ BindingOK /\ ControlOK /\ [Next]_vars => BindingOK'
<1> SUFFICES ASSUME TypeOK, LinksOK, BindingOK, ControlOK, [Next]_vars
             PROVE  BindingOK'
  OBVIOUS
<1> USE DEF BindingOK
<1>1. ASSUME NEW m \in Monitors, NEW p \in Ports, NEW d \in DisplayIds,
             Attach(m, p, d)
      PROVE  BindingOK'
  BY <1>1 DEF Attach, MayMove, Sleeping, Transferring, TypeOK, Link, call
<1>2. ASSUME NEW l \in links, Detach(l) PROVE BindingOK'
  BY <1>2 DEF Detach, MayMove, Sleeping, Transferring, TypeOK, Link, call
<1>3. ASSUME NEW m \in Monitors, Settled(m) PROVE BindingOK'
  BY <1>3 DEF Settled, call
<1>4. ASSUME NEW r \in Requests, Call(r) PROVE BindingOK'
  BY <1>4 DEF Call, env, Transferring
<1>5. CASE FindDisplay
  BY <1>5 DEF FindDisplay, env, CannotResolve, Finish, Goto, Transferring
<1>6. CASE Correlate
  BY <1>6, AbsentAssumption DEF Correlate, env, CannotResolve, Finish, Goto, Transferring,
     TypeOK, LinksOK
<1>7. CASE CaptureIdentity \/ MatchIdentity
  BY <1>7 DEF CaptureIdentity, MatchIdentity, env, Finish, Goto, Transferring
<1>8. CASE ConstructForSet \/ WriteSet
  BY <1>8 DEF ConstructForSet, WriteSet, Frames, env, SetDone, Finish, Goto,
     NextAttempt, Transferring
<1>9. CASE Wake
  BY <1>9 DEF Wake, env, NextAttempt, Transferring
<1>10. CASE ConstructForGet \/ WriteGet \/ ReadReply
  BY <1>10 DEF ConstructForGet, WriteGet, ReadReply, env, GetFails, Judge,
     Finish, Goto, NextAttempt, Transferring
<1>11. CASE UNCHANGED vars
  BY <1>11 DEF vars, env, call
<1>12. QED
  BY <1>1, <1>2, <1>3, <1>4, <1>5, <1>6, <1>7, <1>8, <1>9, <1>10, <1>11
     DEF Next, Environment, Step
-----------------------------------------------------------------------------
(* Environment steps leave the call alone. *)
LEMMA EnvironmentKeepsCall ==
  ASSUME Environment \/ UNCHANGED vars
  PROVE  UNCHANGED <<call, bus>>
  BY DEF Environment, Attach, Detach, Settled, vars

LEMMA ControlStep == TypeOK /\ ControlOK /\ [Next]_vars => ControlOK'
<1> SUFFICES ASSUME TypeOK, ControlOK, [Next]_vars
             PROVE  ControlOK'
  OBVIOUS
<1> USE DEF ControlOK, TypeOK
<1>1. CASE Environment \/ UNCHANGED vars
  BY <1>1, EnvironmentKeepsCall DEF call
<1>2. ASSUME NEW r \in Requests, Call(r) PROVE ControlOK'
  BY <1>2, AbsentAssumption, RequestAssumption DEF Call
<1>3. CASE FindDisplay \/ Correlate
  BY <1>3, RequestTypes
     DEF FindDisplay, Correlate, CannotResolve, Finish, Goto
<1>4. CASE CaptureIdentity \/ MatchIdentity
  BY <1>4 DEF CaptureIdentity, MatchIdentity, Finish, Goto
<1>5. CASE ConstructForSet \/ WriteSet
  BY <1>5 DEF ConstructForSet, WriteSet, Frames, SetDone, Finish, Goto, NextAttempt
<1>6. CASE Wake
  BY <1>6 DEF Wake, NextAttempt
<1>7. CASE ConstructForGet \/ WriteGet \/ ReadReply
  BY <1>7 DEF ConstructForGet, WriteGet, ReadReply, GetFails, Judge, Finish,
     Goto, NextAttempt
<1>8. QED
  BY <1>1, <1>2, <1>3, <1>4, <1>5, <1>6, <1>7 DEF Next, Step

LEMMA WindowStep ==
  TypeOK /\ ControlOK /\ WindowOK /\ [Next]_vars => WindowOK'
<1> SUFFICES ASSUME TypeOK, ControlOK, WindowOK, [Next]_vars
             PROVE  WindowOK'
  OBVIOUS
<1> USE DEF WindowOK, TypeOK, ControlOK
<1>1. CASE Environment \/ UNCHANGED vars
  BY <1>1, EnvironmentKeepsCall DEF call, bus
<1>2. ASSUME NEW r \in Requests, Call(r) PROVE WindowOK'
  BY <1>2, RequestTypes DEF Call
<1>3. CASE FindDisplay \/ Correlate
  BY <1>3, RequestTypes
     DEF FindDisplay, Correlate, CannotResolve, Finish, Goto, bus
<1>4. CASE CaptureIdentity \/ MatchIdentity
  BY <1>4 DEF CaptureIdentity, MatchIdentity, Finish, Goto, bus
<1>5. CASE ConstructForSet \/ WriteSet
  BY <1>5, RequestTypes
     DEF ConstructForSet, WriteSet, Frames, SetDone, Finish, Goto, NextAttempt, bus
<1>6. CASE Wake
  BY <1>6, RequestTypes DEF Wake, NextAttempt, bus
<1>7. CASE ConstructForGet \/ WriteGet \/ ReadReply
  BY <1>7, RequestTypes
     DEF ConstructForGet, WriteGet, ReadReply, GetFails, Judge, Finish, Goto,
         NextAttempt, bus
<1>8. QED
  BY <1>1, <1>2, <1>3, <1>4, <1>5, <1>6, <1>7 DEF Next, Step

LEMMA FramesStep ==
  TypeOK /\ ControlOK /\ FramesOK /\ [Next]_vars => FramesOK'
<1> SUFFICES ASSUME TypeOK, ControlOK, FramesOK, [Next]_vars
             PROVE  FramesOK'
  OBVIOUS
<1> USE DEF FramesOK, TypeOK, ControlOK
<1>1. CASE Environment \/ UNCHANGED vars
  BY <1>1, EnvironmentKeepsCall DEF call, bus
<1>2. ASSUME NEW r \in Requests, Call(r) PROVE FramesOK'
  BY <1>2 DEF Call
<1>3. CASE FindDisplay \/ Correlate
  BY <1>3, RequestTypes
     DEF FindDisplay, Correlate, CannotResolve, Finish, Goto, bus
<1>4. CASE CaptureIdentity \/ MatchIdentity
  BY <1>4 DEF CaptureIdentity, MatchIdentity, Finish, Goto, bus
<1>5. CASE ConstructForSet
  BY <1>5 DEF ConstructForSet, Dispatch, SetDone, Finish, Goto, bus
<1>6. CASE WriteSet
  BY <1>6 DEF WriteSet, Frames, SetDone, Finish, Goto, NextAttempt
<1>7. CASE Wake
  BY <1>7 DEF Wake, NextAttempt, bus
<1>8. CASE ConstructForGet \/ WriteGet \/ ReadReply
  BY <1>8
     DEF ConstructForGet, WriteGet, ReadReply, GetFails, Judge, Finish, Goto,
         NextAttempt, bus
<1>9. QED
  BY <1>1, <1>2, <1>3, <1>4, <1>5, <1>6, <1>7, <1>8 DEF Next, Step
LEMMA EvidenceStep ==
  TypeOK /\ LinksOK /\ BindingOK /\ ControlOK /\ EvidenceOK /\ [Next]_vars
    => EvidenceOK'
<1> SUFFICES ASSUME TypeOK, LinksOK, BindingOK, ControlOK, EvidenceOK,
                    [Next]_vars
             PROVE  EvidenceOK'
  OBVIOUS
<1> USE DEF EvidenceOK
<1>1. ASSUME NEW m \in Monitors, NEW p \in Ports, NEW d \in DisplayIds,
             Attach(m, p, d)
      PROVE  EvidenceOK'
  (* The new attachment is not the bound one: its epoch is newer. *)
  BY <1>1 DEF Attach, call, BindingOK, TypeOK, Link
<1>2. ASSUME NEW l \in links, Detach(l) PROVE EvidenceOK'
  BY <1>2 DEF Detach, call
<1>3. ASSUME NEW m \in Monitors, Settled(m) PROVE EvidenceOK'
  BY <1>3 DEF Settled, call
<1>4. ASSUME NEW r \in Requests, Call(r) PROVE EvidenceOK'
  BY <1>4 DEF Call, Transferring
<1>5. CASE FindDisplay \/ Correlate
  BY <1>5, RequestTypes
     DEF FindDisplay, Correlate, CannotResolve, Finish, Goto, Transferring,
         ControlOK, TypeOK
<1>6. CASE CaptureIdentity \/ MatchIdentity
  (* The display id is held by one attachment: if the binding is still     *)
  (* attached, the UUID was read from its monitor.                         *)
  <2>1. \A l \in Holders : Evidence(l).uuid = Uuid[l.mon]
    BY DEF Evidence
  <2>2. \A l \in Holders : binding \in links => l = binding
    BY DEF Holders, LinksOK
  <2>3. \A l \in Holders : binding # NoLink => Evidence(l) # NoIdentity
    BY EvidenceType, AbsentAssumption DEF Holders
  <2>4. binding # NoLink
    BY <1>6 DEF CaptureIdentity, MatchIdentity, BindingOK
  <2>5. CASE CaptureIdentity
    BY <2>1, <2>2, <2>3, <2>4, <2>5
       DEF CaptureIdentity, Finish, Goto, Transferring, env
  <2>6. CASE MatchIdentity
    BY <2>1, <2>2, <2>3, <2>4, <2>6
       DEF MatchIdentity, Finish, Goto, Transferring, env
  <2>7. QED
    BY <1>6, <2>5, <2>6
<1>7. CASE ConstructForSet \/ WriteSet
  BY <1>7 DEF ConstructForSet, WriteSet, Frames, SetDone, Finish, Goto, NextAttempt,
     Transferring, env
<1>8. CASE Wake
  BY <1>8 DEF Wake, NextAttempt, Transferring
<1>9. CASE ConstructForGet \/ WriteGet \/ ReadReply
  BY <1>9 DEF ConstructForGet, WriteGet, ReadReply, GetFails, Judge, Finish,
     Goto, NextAttempt, Transferring, env
<1>10. CASE UNCHANGED vars
  BY <1>10 DEF vars, env, call
<1>11. QED
  BY <1>1, <1>2, <1>3, <1>4, <1>5, <1>6, <1>7, <1>8, <1>9, <1>10
     DEF Next, Environment, Step

LEMMA TouchedStep ==
  TypeOK /\ LinksOK /\ BindingOK /\ ControlOK /\ EvidenceOK /\ TouchedOK
    /\ [Next]_vars => TouchedOK'
<1> SUFFICES ASSUME TypeOK, LinksOK, BindingOK, ControlOK, EvidenceOK,
                    TouchedOK, [Next]_vars
             PROVE  TouchedOK'
  OBVIOUS
<1> USE DEF TouchedOK, ControlOK, TypeOK
<1>1. CASE Environment \/ UNCHANGED vars
  BY <1>1, EnvironmentKeepsCall DEF call, bus
<1>2. ASSUME NEW r \in Requests, Call(r) PROVE TouchedOK'
  BY <1>2 DEF Call
<1>3. CASE FindDisplay \/ Correlate
  BY <1>3, RequestTypes
     DEF FindDisplay, Correlate, CannotResolve, Finish, Goto, bus
<1>4. CASE CaptureIdentity \/ MatchIdentity
  BY <1>4 DEF CaptureIdentity, MatchIdentity, Finish, Goto, bus
<1>5. CASE ConstructForSet \/ Wake
  BY <1>5 DEF ConstructForSet, SetDone, Wake, Finish, Goto, NextAttempt, bus
<1>6. CASE WriteSet
  <2>1. \A m \in Reached(binding) : binding \in links /\ m = binding.mon
    BY <1>6, ReachedIsBound DEF WriteSet, Frames, Transferring
  <2>2. req # NoRequest /\ pc \in Transferring
    BY <1>6 DEF WriteSet, Frames, Transferring
  <2>3. QED
    BY <1>6, <2>1, <2>2
       DEF WriteSet, Frames, EvidenceOK, BindingOK, SetDone, Finish, Goto, NextAttempt,
           Transferring
<1>7. CASE WriteGet
  <2>1. \A m \in Reached(binding) : binding \in links /\ m = binding.mon
    BY <1>7, ReachedIsBound DEF WriteGet, Transferring
  <2>2. req # NoRequest /\ pc \in Transferring
    BY <1>7 DEF WriteGet, Transferring
  <2>3. QED
    BY <1>7, <2>1, <2>2
       DEF WriteGet, EvidenceOK, BindingOK, GetFails, Judge, Finish, Goto,
           NextAttempt, Transferring
<1>8. CASE ConstructForGet \/ ReadReply
  BY <1>8 DEF ConstructForGet, ReadReply, GetFails, Judge, Finish, Goto,
     NextAttempt, bus
<1>9. QED
  BY <1>1, <1>2, <1>3, <1>4, <1>5, <1>6, <1>7, <1>8 DEF Next, Step

LEMMA ResultStep ==
  TypeOK /\ LinksOK /\ BindingOK /\ ControlOK /\ FramesOK /\ EvidenceOK
    /\ ResultOK /\ [Next]_vars => ResultOK'
<1> SUFFICES ASSUME TypeOK, LinksOK, BindingOK, ControlOK, FramesOK,
                    EvidenceOK, ResultOK, [Next]_vars
             PROVE  ResultOK'
  OBVIOUS
<1> USE DEF ResultOK, ControlOK, TypeOK
<1>1. CASE Environment \/ UNCHANGED vars
  BY <1>1, EnvironmentKeepsCall DEF call, bus
<1>2. ASSUME NEW r \in Requests, Call(r) PROVE ResultOK'
  BY <1>2 DEF Call
<1>3. CASE FindDisplay \/ Correlate
  BY <1>3, RequestTypes
     DEF FindDisplay, Correlate, CannotResolve, Finish, Goto, bus
<1>4. CASE CaptureIdentity \/ MatchIdentity
  BY <1>4 DEF CaptureIdentity, MatchIdentity, Finish, Goto, bus
<1>5. CASE ConstructForSet \/ WriteSet \/ Wake
  BY <1>5 DEF ConstructForSet, WriteSet, Frames, Dispatch, SetDone, Wake, Finish, Goto,
     NextAttempt, bus
<1>6. CASE ConstructForGet \/ WriteGet
  BY <1>6 DEF ConstructForGet, WriteGet, Dispatch, GetFails, Judge, Finish, Goto,
     NextAttempt, Retryable, ReplyErrors
<1>7. CASE ReadReply
  <2>1. \A m \in Reached(binding) : binding \in links /\ m = binding.mon
    BY <1>7, ReachedIsBound DEF ReadReply, Transferring
  <2>2. req # NoRequest /\ pc \in Transferring /\ result = NoResult
    BY <1>7 DEF ReadReply, Transferring
  <2>3. req.op = "set_verify" => setWrites = 2
    BY <1>7 DEF ReadReply, FramesOK
  <2>4. ASSUME NEW e \in {"READ"} \cup ReplyErrors, GetFails(e),
               UNCHANGED result
        PROVE  ResultOK'
    BY <1>7, <2>2, <2>4 DEF ReadReply, ReplyErrors, GetFails, Judge, Finish,
       Goto, NextAttempt
  <2>5. ASSUME NEW m \in Reached(binding), Judge("VERIFY_MISMATCH"),
               UNCHANGED result
        PROVE  ResultOK'
    BY <1>7, <2>2, <2>5 DEF ReadReply, Judge, Finish, Goto, NextAttempt
  <2>6. ASSUME NEW m \in Reached(binding), Finish("OK"),
               req.op = "get" \/ val[m] = req.value,
               result' = [from |-> m, current |-> val[m]]
        PROVE  ResultOK'
    <3>1. m \in Monitors /\ m = binding.mon /\ binding \in links
      BY <1>7, <2>2, <2>6, ReachedIsBound
    <3>2. result' \in [from : Monitors, current : Values]
      BY <2>6, <3>1
    <3>3. result' # NoResult
      BY <3>2, AbsentAssumption
    <3>4. pc' = "returned" /\ ret' = "OK"
      BY <2>6 DEF Finish
    <3>5. result'.from = m /\ result'.current = val[m]
      BY <2>6
    <3>6. UNCHANGED <<req, identity, setWrites>>
      BY <1>7 DEF ReadReply, bus
    <3>7. req.op = "set_verify" =>
            identity # NoIdentity /\ identity.uuid = Uuid[m]
      BY <2>2, <3>1 DEF EvidenceOK
    <3>8. req.op = "set_verify" => val[m] = req.value
      BY <2>6
    <3>9. QED
      BY <2>3, <3>3, <3>4, <3>5, <3>6, <3>7, <3>8
  <2>7. QED
    BY <1>7, <2>4, <2>5, <2>6 DEF ReadReply
<1>8. QED
  BY <1>1, <1>2, <1>3, <1>4, <1>5, <1>6, <1>7 DEF Next, Step

(* A verdict on the window is passed only by Judge, on the last attempt. *)
LEMMA ExhaustedStep ==
  TypeOK /\ ControlOK /\ WindowOK /\ WindowIsExhausted /\ [Next]_vars
    => WindowIsExhausted'
<1> SUFFICES ASSUME TypeOK, ControlOK, WindowOK, WindowIsExhausted, [Next]_vars
             PROVE  WindowIsExhausted'
  OBVIOUS
<1> USE DEF WindowIsExhausted, WindowOK, ControlOK, TypeOK
<1>1. CASE Environment \/ UNCHANGED vars
  BY <1>1, EnvironmentKeepsCall DEF call, bus
<1>2. ASSUME NEW r \in Requests, Call(r) PROVE WindowIsExhausted'
  BY <1>2, RequestTypes DEF Call
<1>3. CASE FindDisplay \/ Correlate
  BY <1>3, RequestTypes
     DEF FindDisplay, Correlate, CannotResolve, Finish, Goto, bus
<1>4. CASE CaptureIdentity \/ MatchIdentity
  BY <1>4, RequestTypes DEF CaptureIdentity, MatchIdentity, Finish, Goto, bus
<1>5. CASE ConstructForSet \/ WriteSet \/ Wake
  BY <1>5, RequestTypes
     DEF ConstructForSet, WriteSet, Frames, Dispatch, SetDone, Wake, Finish, Goto,
         NextAttempt, bus
<1>6. CASE ConstructForGet \/ WriteGet \/ ReadReply
  BY <1>6, RequestTypes
     DEF ConstructForGet, WriteGet, ReadReply, GetFails, Dispatch, Judge,
         Finish, Goto, NextAttempt, Retryable, ReplyErrors, bus
<1>7. QED
  BY <1>1, <1>2, <1>3, <1>4, <1>5, <1>6 DEF Next, Step
-----------------------------------------------------------------------------
LEMMA InitInv == Init => IInv
<1> SUFFICES ASSUME Init PROVE IInv
  OBVIOUS
<1>1. TypeOK
  BY TypeInit
<1>2. LinksOK
  BY DEF Init, LinksOK
<1>3. BindingOK /\ ControlOK /\ WindowOK /\ FramesOK /\ EvidenceOK /\ TouchedOK
        /\ ResultOK /\ WindowIsExhausted
  BY DEF Init, BindingOK, ControlOK, WindowOK, FramesOK, EvidenceOK, TouchedOK,
         ResultOK, WindowIsExhausted, Transferring
<1>4. QED
  BY <1>1, <1>2, <1>3 DEF IInv

LEMMA StepInv == IInv /\ [Next]_vars => IInv'
  BY TypeStep, LinksStep, BindingStep, ControlStep, WindowStep, FramesStep,
     EvidenceStep, TouchedStep, ResultStep, ExhaustedStep
     DEF IInv

(* The inductive invariant holds of every behaviour. *)
THEOREM Invariance == Spec => []IInv
<1>1. QED
  BY InitInv, StepInv, PTL DEF Spec

(* Every variable of the call, the environment and the bus has its type, a *)
(* result code of rss_ddc_error_t included.                                *)
THEOREM TypeCorrect == Spec => []TypeOK
<1>1. IInv => TypeOK
  BY DEF IInv
<1>2. QED
  BY <1>1, Invariance, PTL

(* A call of any kind speaks to one physical monitor, with any number of   *)
(* monitors, attachments and retries: macos_verify_get's fresh resolution  *)
(* and identity match never let a GET through to a sibling.                *)
THEOREM CallStaysWithItsMonitor == Spec => []OneMonitorPerCall
<1>1. ASSUME IInv PROVE OneMonitorPerCall
  <2>1. landed \cup asked \subseteq Monitors
    BY <1>1 DEF IInv, TypeOK
  <2>2. CASE req = NoRequest
    BY <1>1, <2>2 DEF IInv, ControlOK, TouchedOK, OneMonitorPerCall
  <2>3. CASE req # NoRequest /\ req.op = "set_verify"
    BY <1>1, <2>1, <2>3, UuidAssumption DEF IInv, TouchedOK, OneMonitorPerCall
  <2>4. CASE req # NoRequest /\ req.op # "set_verify"
    BY <1>1, <2>4 DEF IInv, TouchedOK, OneMonitorPerCall
  <2>5. QED
    BY <2>2, <2>3, <2>4
<1>2. QED
  BY <1>1, Invariance, PTL

(* An OK of Set-and-Verify means that the requested value was read from    *)
(* the very monitor that took both SET frames; any other return leaves the *)
(* caller's result alone.                                                  *)
THEOREM VerifiedValueIsTheTargets == Spec => []VerifiedIsTheTarget
<1>1. ASSUME IInv PROVE VerifiedIsTheTarget
  <2> USE <1>1 DEF IInv
  <2>1. result # NoResult => pc = "returned" /\ ret = "OK"
    BY DEF ResultOK
  <2>2. ASSUME pc = "returned", ret = "OK", req.op = "set_verify",
               req # NoRequest
        PROVE  /\ result # NoResult
               /\ result.current = req.value
               /\ landed = {result.from} /\ setWrites = 2
    <3>1. /\ result # NoResult /\ result.current = req.value
          /\ Uuid[result.from] = identity.uuid /\ setWrites = 2
      BY <2>2 DEF ResultOK
    <3>2. result.from \in Monitors /\ landed \subseteq Monitors
      BY <3>1 DEF TypeOK
    <3>3. landed # {}
      BY <3>1 DEF FramesOK
    <3>4. \A m \in landed : m = result.from
      BY <2>2, <3>1, <3>2, UuidAssumption DEF TouchedOK
    <3>5. QED
      BY <3>1, <3>3, <3>4
  <2>3. pc = "returned" => req # NoRequest
    BY DEF ControlOK
  <2>4. QED
    BY <2>1, <2>2, <2>3 DEF VerifiedIsTheTarget
<1>2. QED
  BY <1>1, Invariance, PTL

(* rss_ddc_verify_execute reports exhaustion after exactly the attempts    *)
(* its policy allows, whatever the policy is.                              *)
THEOREM WindowBound == Spec => []WindowIsExhausted
<1>1. IInv => WindowIsExhausted
  BY DEF IInv
<1>2. QED
  BY <1>1, Invariance, PTL

(* No retry ever repeats the SET. *)
THEOREM SetIsSentOnce == Spec => SetIsNeverRepeated
<1>1. ASSUME IInv, [Next]_vars
      PROVE  [setWrites' > setWrites => gets = 0 /\ setWrites' <= 2]_vars
  <2>1. CASE WriteSet
    BY <1>1, <2>1 DEF IInv, WriteSet, Frames, TypeOK, ControlOK, WindowOK, FramesOK
  <2>2. CASE ~WriteSet
    <3>1. setWrites' = setWrites \/ setWrites' = 0
      BY <1>1, <2>2, EnvironmentKeepsCall
         DEF Next, Step, FindDisplay, Correlate, CaptureIdentity, MatchIdentity,
             ConstructForSet, Wake, ConstructForGet, WriteGet, ReadReply, Call,
             vars, bus
    <3>2. QED
      BY <1>1, <3>1 DEF IInv, TypeOK
  <2>3. QED
    BY <2>1, <2>2
<1>2. QED
  BY <1>1, Invariance, PTL DEF Spec, SetIsNeverRepeated
-----------------------------------------------------------------------------
(* How many steps a call has left at most: those of this attempt and, for  *)
(* each attempt to come, from the list to the wait.                        *)

Attempts == IF req.op = "set_verify" THEN req.policy.retry_count + 1 ELSE 0

StepsOfAttempt ==
  CASE pc = "list" -> 8
    [] pc = "service" -> 7
    [] pc = "identity" -> 6
    [] pc \in {"set_construct", "get_construct"} -> 5
    [] pc = "set_write" -> 4 - setWrites
    [] pc = "get_write" -> 4
    [] pc = "get_read" -> 3
    [] OTHER -> 2

StepsLeft ==
  IF pc \in {"idle", "returned"} THEN 0 ELSE 8 * (Attempts - attempt) + StepsOfAttempt

LEMMA StepsOfAttemptType ==
  ASSUME IInv
  PROVE  /\ StepsOfAttempt \in 2..8 /\ (pc # "list" => StepsOfAttempt < 8)
         /\ setWrites \in Nat
<1>1. /\ setWrites \in Nat /\ (pc = "set_write" => setWrites <= 1)
      /\ pc \in Locations
  BY DEF IInv, TypeOK, FramesOK
<1> QED
  BY <1>1 DEF StepsOfAttempt, Locations, Sleeping

LEMMA AttemptsType ==
  ASSUME IInv, pc \notin {"idle", "returned"}
  PROVE  /\ req \in Requests /\ Attempts \in Nat /\ attempt \in 0..Attempts
         /\ 8 * (Attempts - attempt) \in Nat
<1>1. req \in Requests /\ attempt \in Nat /\ req # NoRequest
  BY RequestAssumption, AbsentAssumption DEF IInv, TypeOK, ControlOK
<1>2. req.policy.retry_count \in Nat
  BY <1>1, RequestTypes
<1>3. req.op = "set_verify" => attempt <= req.policy.retry_count + 1
  BY <1>1 DEF IInv, WindowOK
<1>4. req.op # "set_verify" => attempt = 0
  BY <1>1 DEF IInv, ControlOK
<1> QED
  BY <1>1, <1>2, <1>3, <1>4 DEF Attempts

LEMMA CallIsCounted ==
  ASSUME IInv
  PROVE  /\ StepsLeft \in Nat
         /\ pc \notin {"idle", "returned"} => StepsLeft \in 1..8 * (Attempts + 1)
<1>1. CASE pc \in {"idle", "returned"}
  BY <1>1 DEF StepsLeft
<1>2. CASE pc \notin {"idle", "returned"}
  BY <1>2, AttemptsType, StepsOfAttemptType DEF StepsLeft
<1> QED
  BY <1>1, <1>2

(* A step that returns, one that starts the next attempt, and one that     *)
(* goes on in this attempt.                                                *)
LEMMA FewerSteps ==
  ASSUME IInv, IInv', pc \notin {"idle", "returned"}, req' = req,
         \/ pc' = "returned"
         \/ pc' = "list" /\ attempt' = attempt + 1 /\ pc # "list"
         \/ /\ attempt' = attempt /\ pc' \notin {"idle", "returned"}
            /\ StepsOfAttempt' < StepsOfAttempt
  PROVE  StepsLeft' < StepsLeft
<1>1. /\ Attempts \in Nat /\ attempt \in Nat /\ StepsOfAttempt \in 2..8
      /\ 8 * (Attempts - attempt) \in Nat
      /\ StepsLeft = 8 * (Attempts - attempt) + StepsOfAttempt
  BY AttemptsType, StepsOfAttemptType DEF StepsLeft
<1>2. Attempts' = Attempts
  BY DEF Attempts
<1>3. CASE pc' = "returned"
  BY <1>1, <1>3 DEF StepsLeft
<1>4. CASE pc' = "list" /\ attempt' = attempt + 1
  <2>1. StepsLeft' = 8 * (Attempts - (attempt + 1)) + 8
    BY <1>2, <1>4 DEF StepsLeft, StepsOfAttempt
  <2> QED
    BY <1>1, <2>1
<1>5. CASE attempt' = attempt /\ pc' \notin {"idle", "returned"} /\ StepsOfAttempt' < StepsOfAttempt
  <2>1. StepsLeft' = 8 * (Attempts - attempt) + StepsOfAttempt'
    BY <1>2, <1>5 DEF StepsLeft
  <2>2. /\ setWrites' \in Nat /\ (pc' = "set_write" => setWrites' <= 1)
        /\ pc' \in Locations
    BY DEF IInv, TypeOK, FramesOK
  <2>3. StepsOfAttempt' \in Nat
    BY <2>2 DEF StepsOfAttempt, Locations, Sleeping
  <2> QED
    <3> DEFINE a == 8 * (Attempts - attempt)
               x == StepsOfAttempt
               y == StepsOfAttempt'
    <3>1. a \in Nat /\ x \in Nat /\ y \in Nat /\ y < x
      BY <1>1, <1>5, <2>3
    <3>2. StepsLeft = a + x /\ StepsLeft' = a + y
      BY <1>1, <2>1
    <3> HIDE DEF a, x, y
    <3> QED
      BY <3>1, <3>2
<1> QED
  BY <1>3, <1>4, <1>5

LEMMA StepIsCounted ==
  ASSUME IInv, IInv', Step
  PROVE  StepsLeft' < StepsLeft
<1> USE DEF Goto, Finish, NextAttempt
<1>1. setWrites \in Nat
  BY StepsOfAttemptType
<1>2. CASE FindDisplay
  <2>1. /\ pc = "list" /\ req' = req
        /\ pc' = "returned" \/ (pc' = "service" /\ attempt' = attempt)
    BY <1>2 DEF FindDisplay, CannotResolve
  <2> QED
    BY <2>1, FewerSteps DEF StepsOfAttempt
<1>3. CASE Correlate
  <2>1. /\ pc = "service" /\ req' = req
        /\ \/ pc' = "returned"
           \/ pc' \in {"get_construct", "set_construct", "identity"} /\ attempt' = attempt
    BY <1>3 DEF Correlate, CannotResolve
  <2> QED
    BY <2>1, FewerSteps DEF StepsOfAttempt
<1>4. CASE CaptureIdentity \/ MatchIdentity
  <2>1. /\ pc = "identity" /\ req' = req
        /\ \/ pc' = "returned"
           \/ pc' \in {"get_construct", "set_construct"} /\ attempt' = attempt
    BY <1>4 DEF CaptureIdentity, MatchIdentity
  <2> QED
    BY <2>1, FewerSteps DEF StepsOfAttempt
<1>5. CASE ConstructForSet
  <2>1. /\ pc = "set_construct" /\ req' = req /\ setWrites' = setWrites /\ setWrites = 0
        /\ \/ pc' = "returned"
           \/ pc' = "list" /\ attempt' = attempt + 1
           \/ pc' \in {"set_write", "settle"} /\ attempt' = attempt
    BY <1>5 DEF ConstructForSet, SetDone, bus, IInv, FramesOK, ControlOK
  <2> QED
    BY <2>1, FewerSteps DEF StepsOfAttempt
<1>6. CASE WriteSet
  <2>1. /\ pc = "set_write" /\ req' = req
        /\ \/ pc' = "returned"
           \/ pc' = "list" /\ attempt' = attempt + 1
           \/ pc' = "settle" /\ attempt' = attempt
           \/ pc' = "set_write" /\ attempt' = attempt /\ setWrites' = setWrites + 1
    BY <1>6 DEF WriteSet, SetDone
  <2>2. setWrites <= 1
    BY <2>1 DEF IInv, FramesOK
  <2> QED
    BY <1>1, <2>1, <2>2, FewerSteps DEF StepsOfAttempt
<1>7. CASE Wake
  <2>1. /\ pc \in {"settle", "backoff"} /\ req' = req
        /\ pc' = "list" /\ attempt' = attempt + 1
    BY <1>7 DEF Wake
  <2> QED
    BY <2>1, FewerSteps
<1>8. CASE ConstructForGet
  <2>1. /\ pc = "get_construct" /\ req' = req
        /\ \/ pc' = "returned"
           \/ pc' = "list" /\ attempt' = attempt + 1
           \/ pc' \in {"get_write", "backoff"} /\ attempt' = attempt
    BY <1>8 DEF ConstructForGet, GetFails, Judge
  <2> QED
    BY <2>1, FewerSteps DEF StepsOfAttempt
<1>9. CASE WriteGet
  <2>1. /\ pc = "get_write" /\ req' = req
        /\ \/ pc' = "returned"
           \/ pc' = "list" /\ attempt' = attempt + 1
           \/ pc' \in {"get_read", "backoff"} /\ attempt' = attempt
    BY <1>9 DEF WriteGet, GetFails, Judge
  <2> QED
    BY <2>1, FewerSteps DEF StepsOfAttempt
<1>10. CASE ReadReply
  <2>1. /\ pc = "get_read" /\ req' = req
        /\ \/ pc' = "returned"
           \/ pc' = "list" /\ attempt' = attempt + 1
           \/ pc' = "backoff" /\ attempt' = attempt
    BY <1>10 DEF ReadReply, GetFails, Judge
  <2> QED
    BY <2>1, FewerSteps DEF StepsOfAttempt
<1> QED
  BY <1>2, <1>3, <1>4, <1>5, <1>6, <1>7, <1>8, <1>9, <1>10 DEF Step

(* The retry loop of rss_ddc_verify_execute can not go on: whatever the    *)
(* monitors do, each step of a call leaves fewer to come, at most eight    *)
(* for each attempt its policy allows and eight before the first; what     *)
(* happens around the call neither takes nor gives one.                    *)
THEOREM CallIsShort ==
  Spec => [](/\ StepsLeft \in Nat
             /\ pc \notin {"idle", "returned"} => StepsLeft \in 1..8 * (Attempts + 1))
            /\ [][/\ Step => StepsLeft' < StepsLeft
                  /\ Environment => StepsLeft' = StepsLeft]_vars
<1>1. IInv => /\ StepsLeft \in Nat
              /\ pc \notin {"idle", "returned"} => StepsLeft \in 1..8 * (Attempts + 1)
  BY CallIsCounted
<1>2. IInv /\ IInv' /\ [Next]_vars =>
        [/\ Step => StepsLeft' < StepsLeft
         /\ Environment => StepsLeft' = StepsLeft]_vars
  <2> SUFFICES ASSUME IInv, IInv'
               PROVE  /\ Step => StepsLeft' < StepsLeft
                      /\ Environment => StepsLeft' = StepsLeft
    OBVIOUS
  <2>1. Step => StepsLeft' < StepsLeft
    BY StepIsCounted
  <2>2. Environment => UNCHANGED <<pc, req, attempt, setWrites>>
    BY DEF Environment, Attach, Detach, Settled, call, bus
  <2>3. UNCHANGED <<pc, req, attempt, setWrites>> => StepsLeft' = StepsLeft
    BY DEF StepsLeft, StepsOfAttempt, Attempts
  <2> QED
    BY <2>1, <2>2, <2>3
<1> QED
  BY <1>1, <1>2, Invariance, PTL DEF Spec

-----------------------------------------------------------------------------
(* The refinement. *)

(* Whoever is asked in a verification is of the provider that took the SET. *)
Transports == {"PS190", "DCPDP13", "DCPDP_SERVICE"}

ProviderOK ==
  req # NoRequest /\ req.op = "set_verify" =>
    /\ pc \in Transferring =>
         identity # NoIdentity /\ identity.provider = PortProvider[binding.port]
    /\ pc \in {"set_write", "settle"} \/ attempt > 0 => identity.provider \in Transports

LEMMA ProviderStep ==
  TypeOK /\ BindingOK /\ ControlOK /\ ProviderOK /\ [Next]_vars => ProviderOK'
<1> SUFFICES ASSUME TypeOK, BindingOK, ControlOK, ProviderOK, [Next]_vars
             PROVE  ProviderOK'
  OBVIOUS
<1> USE DEF ProviderOK, ControlOK, TypeOK
<1>1. CASE Environment \/ UNCHANGED vars
  BY <1>1, EnvironmentKeepsCall DEF call, bus
<1>2. ASSUME NEW r \in Requests, Call(r) PROVE ProviderOK'
  BY <1>2 DEF Call, Transferring
<1>3. CASE FindDisplay \/ Correlate
  BY <1>3, RequestTypes
     DEF FindDisplay, Correlate, CannotResolve, Finish, Goto, bus, Transferring
<1>4. CASE CaptureIdentity \/ MatchIdentity
  <2>1. binding # NoLink
    BY <1>4 DEF CaptureIdentity, MatchIdentity, BindingOK
  <2>2. \A l \in Holders : /\ Evidence(l) # NoIdentity
                           /\ Evidence(l).provider = PortProvider[binding.port]
    BY <2>1, EvidenceType, AbsentAssumption DEF Holders, Evidence
  <2>3. CASE CaptureIdentity
    BY <2>2, <2>3 DEF CaptureIdentity, Finish, Goto, Transferring
  <2>4. CASE MatchIdentity
    BY <2>2, <2>4 DEF MatchIdentity, Finish, Goto, Transferring
  <2> QED
    BY <1>4, <2>3, <2>4
<1>5. CASE ConstructForSet
  <2>1. Dispatch(binding) = "OK" => PortProvider[binding.port] \in Transports
    BY <1>5, MonitorAssumption
       DEF ConstructForSet, BindingOK, Transferring, Dispatch, Providers, Transports, Link
  <2> QED
    BY <1>5, <2>1 DEF ConstructForSet, SetDone, Finish, Goto, NextAttempt, Transferring
<1>6. CASE WriteSet
  BY <1>6 DEF WriteSet, Frames, SetDone, Finish, Goto, NextAttempt, Transferring
<1>7. CASE Wake
  BY <1>7 DEF Wake, NextAttempt, Transferring
<1>8. CASE ConstructForGet \/ WriteGet \/ ReadReply
  BY <1>8 DEF ConstructForGet, WriteGet, ReadReply, GetFails, Judge, Finish,
     Goto, NextAttempt, Transferring
<1> QED
  BY <1>1, <1>2, <1>3, <1>4, <1>5, <1>6, <1>7, <1>8 DEF Next, Step

LEMMA ProviderInvariance == Spec => []ProviderOK
<1>1. Init => ProviderOK
  BY DEF Init, ProviderOK
<1>2. IInv /\ ProviderOK /\ [Next]_vars => ProviderOK'
  BY ProviderStep DEF IInv
<1> QED
  BY <1>1, <1>2, Invariance, PTL DEF Spec

(* The three kinds of answer VerifiedSet is given. *)
Refusals == {"ARGUMENT", "NOT_FOUND", "UNSUPPORTED_PROVIDER", "UNSUPPORTED_CAPABILITY",
             "DISCOVERY", "SAFETY_GATE", "SERVICE_CONSTRUCTION", "SYSTEM"}
Reports == {"VERIFY_MISMATCH", "VERIFY_RETRY_EXHAUSTED", "VERIFY_UNAVAILABLE"}
GetFailures == {"READ"} \cup ReplyErrors

LEMMA AbstractInit == Init => Abstract!Init
BY DEF Init, Abstract!Init

(* A step that the caller can not see. *)
LEMMA Stutters ==
  ASSUME UNCHANGED <<req, result, landed, setWrites>>,
         pc # "returned", pc' # "returned"
  PROVE  UNCHANGED Abstract!absVars
BY DEF Abstract!absVars

LEMMA Answers ==
  ASSUME UNCHANGED <<req, result, landed, setWrites>>, req # NoRequest,
         pc # "returned", pc' = "returned",
         ret' \in Refusals \cup Reports \cup GetFailures \cup {"WRITE"},
         req.op # "get" => /\ ret' \in Refusals => landed = {}
                           /\ ret' \in Reports => setWrites = 2 /\ landed # {}
                           /\ ret' \notin GetFailures,
         req \in Requests
  PROVE  Abstract!Next
<1>1. req.op # "none"
  BY RequestTypes
<1>2. Abstract!Answer(ret')
  BY <1>1 DEF Abstract!Answer, Abstract!Honest, Refusals, Reports, GetFailures
<1> QED
  BY <1>2 DEF Abstract!Next, Refusals, Reports, GetFailures

(* A step of the call as VerifiedSet sees it. *)
Refined == Abstract!Next \/ UNCHANGED Abstract!absVars

(* A verdict on a verification attempt: the SET was complete long before.  *)
LEMMA JudgedIsRefined ==
  ASSUME TypeOK, FramesOK, req \in Requests, attempt > 0, pc # "returned",
         req # NoRequest,
         UNCHANGED <<req, result, landed, setWrites>>,
         NEW code \in Retryable \cup {"VERIFY_MISMATCH", "WRITE"}, Judge(code)
  PROVE  Refined
<1>1. setWrites = 2 /\ landed # {}
  BY DEF FramesOK
<1>2. CASE pc' # "returned"
  BY <1>2, Stutters DEF Refined
<1>3. CASE pc' = "returned"
  <2>1. ret' \in {"WRITE"} \cup Reports
    BY <1>3 DEF Judge, Finish, Goto, NextAttempt, Reports, Retryable, ReplyErrors
  <2>2. ret' \notin Refusals /\ ret' \notin GetFailures
    BY <2>1 DEF Refusals, Reports, GetFailures, ReplyErrors
  <2> QED
    BY <1>1, <1>3, <2>1, <2>2, Answers DEF Refined
<1> QED
  BY <1>2, <1>3

LEMMA FailedGetIsRefined ==
  ASSUME TypeOK, ControlOK, FramesOK, req \in Requests,
         pc \in {"get_construct", "get_write", "get_read"},
         UNCHANGED <<req, result, landed, setWrites>>,
         NEW code \in GetFailures \cup {"WRITE", "SERVICE_CONSTRUCTION"},
         GetFails(code)
  PROVE  Refined
<1>0. req # NoRequest
  BY DEF ControlOK
<1>1. CASE req.op = "get"
  <2>1. pc' = "returned" /\ ret' = code
    BY <1>1 DEF GetFails, Finish
  <2>2. code \in Refusals \cup Reports \cup GetFailures \cup {"WRITE"}
    BY DEF Refusals
  <2> QED
    BY <1>0, <1>1, <2>1, <2>2, Answers DEF Refined
<1>2. CASE req.op # "get"
  <2>1. attempt > 0 /\ Judge(code)
    BY <1>2 DEF ControlOK, GetFails
  <2>2. code \in Retryable \cup {"VERIFY_MISMATCH", "WRITE"}
    BY DEF GetFailures, Retryable
  <2> QED
    BY <1>0, <2>1, <2>2, JudgedIsRefined
<1> QED
  BY <1>1, <1>2

(* A resolution that fails: before the SET nothing was written, after it   *)
(* everything was.                                                         *)
LEMMA UnresolvedIsRefined ==
  ASSUME TypeOK, ControlOK, FramesOK, req \in Requests,
         pc \in {"list", "service", "identity"},
         UNCHANGED <<req, result, landed, setWrites>>,
         pc' = "returned",
         \/ attempt = 0 /\ ret' \in Refusals
         \/ attempt > 0 /\ ret' = "VERIFY_UNAVAILABLE"
  PROVE  Refined
<1>0. req # NoRequest
  BY DEF ControlOK
<1>1. CASE attempt = 0 /\ ret' \in Refusals
  <2>1. landed = {}
    BY <1>1 DEF FramesOK
  <2>2. ret' \notin Reports /\ ret' \notin GetFailures
    BY <1>1 DEF Refusals, Reports, GetFailures, ReplyErrors
  <2> QED
    BY <1>0, <1>1, <2>1, <2>2, Answers DEF Refined
<1>2. CASE attempt > 0 /\ ret' = "VERIFY_UNAVAILABLE"
  <2>1. setWrites = 2 /\ landed # {}
    BY <1>2 DEF FramesOK
  <2>2. ret' \in Reports /\ ret' \notin Refusals /\ ret' \notin GetFailures
    BY <1>2 DEF Refusals, Reports, GetFailures, ReplyErrors
  <2> QED
    BY <1>0, <2>1, <2>2, Answers DEF Refined
<1> QED
  BY <1>1, <1>2

LEMMA CallIsRefined ==
  ASSUME TypeOK, ControlOK, NEW r \in Requests, Call(r)
  PROVE  Refined
<1>1. r # NoRequest /\ r.op \in {"get", "set", "set_verify"}
  BY RequestTypes, RequestAssumption, AbsentAssumption
<1>2. req' = r /\ result' = NoResult /\ landed' = {} /\ setWrites' = 0
  BY DEF Call
<1>3. \/ pc' = "returned" /\ ret' = "ARGUMENT"
      \/ pc' = "list"
  BY DEF Call
<1>4. req = NoRequest \/ (pc = "returned" /\ ret # "none")
  BY DEF Call, ControlOK, TypeOK, Codes
<1>5. Abstract!Request
  BY <1>1, <1>2, <1>3, <1>4 DEF Abstract!Request
<1> QED
  BY <1>5 DEF Refined, Abstract!Next

LEMMA ResolutionIsRefined ==
  ASSUME TypeOK, ControlOK, FramesOK, req \in Requests,
         FindDisplay \/ Correlate \/ CaptureIdentity \/ MatchIdentity
  PROVE  Refined
<1>1. pc \in {"list", "service", "identity"}
  BY DEF FindDisplay, Correlate, CaptureIdentity, MatchIdentity
<1>2. UNCHANGED <<req, result, landed, setWrites>>
  BY DEF FindDisplay, Correlate, CaptureIdentity, MatchIdentity, bus
<1>3. CASE pc' # "returned"
  BY <1>1, <1>2, <1>3, Stutters DEF Refined
<1>4. CASE pc' = "returned"
  <2>1. attempt = 0 \/ attempt > 0
    BY DEF TypeOK
  <2>2. \/ attempt = 0 /\ ret' \in Refusals
        \/ attempt > 0 /\ ret' = "VERIFY_UNAVAILABLE"
    BY <1>4, <2>1, RequestTypes
       DEF FindDisplay, Correlate, CaptureIdentity, MatchIdentity,
           CannotResolve, Finish, Goto, Refusals
  <2> QED
    BY <1>1, <1>2, <1>4, <2>2, UnresolvedIsRefined
<1> QED
  BY <1>3, <1>4

LEMMA ConstructForSetIsRefined ==
  ASSUME TypeOK, ControlOK, FramesOK, req \in Requests, ConstructForSet
  PROVE  Refined
<1>1. UNCHANGED <<req, result, landed, setWrites>> /\ landed = {} /\ req # NoRequest
  BY DEF ConstructForSet, bus, ControlOK, FramesOK
<1>2. CASE pc' # "returned"
  BY <1>1, <1>2, Stutters DEF Refined, ConstructForSet
<1>3. CASE pc' = "returned"
  <2>1. Dispatch(binding) \in {"OK", "UNSUPPORTED_PROVIDER", "UNSUPPORTED_CAPABILITY"}
    BY DEF Dispatch
  <2>2. ret' \in {"UNSUPPORTED_PROVIDER", "UNSUPPORTED_CAPABILITY", "SERVICE_CONSTRUCTION"}
    BY <1>3, <2>1 DEF ConstructForSet, SetDone, Finish, Goto, NextAttempt
  <2>3. ret' \in Refusals /\ ret' \notin Reports /\ ret' \notin GetFailures
    BY <2>2 DEF Refusals, Reports, GetFailures, ReplyErrors
  <2> QED
    BY <1>1, <1>3, <2>3, Answers DEF Refined, ConstructForSet
<1> QED
  BY <1>2, <1>3

(* The first or the second frame lands, or the transfer fails. *)
LEMMA WriteSetIsRefined ==
  ASSUME TypeOK, LinksOK, BindingOK, ControlOK, FramesOK, req \in Requests, WriteSet,
         OneMonitorPerCall'
  PROVE  Refined
<1>1. /\ req # NoRequest /\ req.op \in {"set", "set_verify"}
      /\ setWrites \in {0, 1} /\ pc = "set_write"
      /\ UNCHANGED <<req, result>>
  BY DEF WriteSet, ControlOK, FramesOK, TypeOK
<1>2. ASSUME NEW m \in Reached(binding),
             landed' = landed \cup {m}, setWrites' = setWrites + 1,
             IF setWrites + 1 < Frames THEN Goto("set_write") ELSE SetDone("OK")
      PROVE  Refined
  <2>1. m \in Monitors
    BY <1>1, ReachedIsBound DEF Transferring
  <2>2. landed' = {m} /\ landed \subseteq {m}
    BY <1>2 DEF OneMonitorPerCall
  <2>3. CASE setWrites = 0
    <3>1. pc' = "set_write" /\ setWrites' = 1
      BY <1>2, <2>3 DEF Frames, Goto
    <3>2. Abstract!Strike(m)
      BY <1>1, <2>2, <2>3, <3>1 DEF Abstract!Strike
    <3> QED
      BY <2>1, <3>2 DEF Refined, Abstract!Next
  <2>4. CASE setWrites = 1
    <3>1. setWrites' = 2 /\ SetDone("OK")
      BY <1>2, <2>4 DEF Frames
    <3>2. IF req.op = "set" THEN pc' = "returned" /\ ret' = "OK" ELSE pc' # "returned"
      BY <1>1, <3>1 DEF SetDone, Finish, Goto, NextAttempt
    <3>3. Abstract!Strike(m)
      BY <1>1, <2>2, <2>4, <3>1, <3>2 DEF Abstract!Strike
    <3> QED
      BY <2>1, <3>3 DEF Refined, Abstract!Next
  <2> QED
    BY <1>1, <2>3, <2>4
<1>3. CASE SetDone("WRITE") /\ UNCHANGED <<pending, landed, setWrites>>
  <2>1. pc' = "returned" /\ ret' = "WRITE"
    BY <1>3 DEF SetDone, Finish
  <2>2. "WRITE" \notin Refusals /\ "WRITE" \notin Reports /\ "WRITE" \notin GetFailures
    BY DEF Refusals, Reports, GetFailures, ReplyErrors
  <2> QED
    BY <1>1, <1>3, <2>1, <2>2, Answers DEF Refined
<1> QED
  BY <1>2, <1>3 DEF WriteSet

(* A GET transaction that ends with an error or goes on to the read. *)
LEMMA GetIsRefined ==
  ASSUME TypeOK, ControlOK, BindingOK, ProviderOK, FramesOK, req \in Requests,
         ConstructForGet \/ WriteGet
  PROVE  Refined
<1>1. /\ pc \in {"get_construct", "get_write", "get_read"}
      /\ UNCHANGED <<req, result, landed, setWrites>> /\ req # NoRequest
  BY DEF ConstructForGet, WriteGet, ControlOK
<1>2. CASE pc' # "returned"
  BY <1>1, <1>2, Stutters DEF Refined
<1>3. CASE pc' = "returned"
  <2>1. CASE WriteGet
    <3>1. GetFails("WRITE")
      BY <1>3, <2>1 DEF WriteGet, Goto
    <3> QED
      BY <1>1, <3>1, FailedGetIsRefined
  <2>2. CASE ConstructForGet /\ Dispatch(binding) = "OK"
    <3>1. GetFails("SERVICE_CONSTRUCTION")
      BY <1>3, <2>2 DEF ConstructForGet, Goto
    <3> QED
      BY <1>1, <3>1, FailedGetIsRefined
  <2>3. CASE ConstructForGet /\ Dispatch(binding) # "OK"
    (* The provider of a verification took the SET: it has a transport. *)
    <3>1. PortProvider[binding.port] \notin Transports
      BY <2>3 DEF Dispatch, Transports
    <3>2. req.op = "get"
      BY <1>1, <2>3, <3>1 DEF ConstructForGet, ControlOK, ProviderOK, Transferring
    <3>3. Dispatch(binding) \in {"UNSUPPORTED_PROVIDER", "UNSUPPORTED_CAPABILITY"}
      BY <2>3 DEF Dispatch
    <3>4. ret' = Dispatch(binding)
      BY <2>3, <3>2 DEF ConstructForGet, GetFails, Finish
    <3>5. ret' \in Refusals
      BY <3>3, <3>4 DEF Refusals
    <3> QED
      BY <1>1, <1>3, <3>2, <3>5, Answers DEF Refined
  <2> QED
    BY <2>1, <2>2, <2>3
<1> QED
  BY <1>2, <1>3

(* The reply is refused, differs from the request, or is the answer. *)
LEMMA ReadReplyIsRefined ==
  ASSUME TypeOK, LinksOK, BindingOK, ControlOK, FramesOK, req \in Requests, ReadReply,
         VerifiedIsTheTarget'
  PROVE  Refined
<1>1. /\ pc = "get_read" /\ req # NoRequest /\ req.op \in {"get", "set_verify"}
      /\ UNCHANGED <<req, landed, setWrites>>
  BY RequestTypes DEF ReadReply, bus, ControlOK
<1>2. ASSUME NEW e \in {"READ"} \cup ReplyErrors, GetFails(e), UNCHANGED result
      PROVE  Refined
  BY <1>1, <1>2, FailedGetIsRefined DEF GetFailures
<1>3. ASSUME req.op # "get", Judge("VERIFY_MISMATCH"), UNCHANGED result
      PROVE  Refined
  BY <1>1, <1>3, JudgedIsRefined DEF ControlOK
<1>4. ASSUME NEW m \in Reached(binding), Finish("OK"),
             result' = [from |-> m, current |-> val[m]]
      PROVE  Refined
  <2>1. m \in Monitors
    BY <1>1, ReachedIsBound DEF Transferring
  <2>2. pc' = "returned" /\ ret' = "OK"
    BY <1>4 DEF Finish
  <2>3. result' # NoResult /\ result'.from = m
    BY <1>4, <2>1, AbsentAssumption DEF TypeOK
  <2>4. req.op = "set_verify" => landed = {m} /\ setWrites = 2
    BY <1>1, <2>2, <2>3 DEF VerifiedIsTheTarget
  <2>5. Abstract!Confirm(m)
    BY <1>1, <2>2, <2>3, <2>4 DEF Abstract!Confirm
  <2> QED
    BY <2>1, <2>5 DEF Refined, Abstract!Next
<1> QED
  BY <1>2, <1>3, <1>4 DEF ReadReply

LEMMA EveryStepIsRefined ==
  IInv /\ ProviderOK /\ OneMonitorPerCall' /\ VerifiedIsTheTarget' /\ [Next]_vars
    => Refined
<1> SUFFICES ASSUME IInv, ProviderOK, OneMonitorPerCall', VerifiedIsTheTarget',
                    [Next]_vars
             PROVE  Refined
  OBVIOUS
<1>0. TypeOK /\ LinksOK /\ BindingOK /\ ControlOK /\ FramesOK
  BY DEF IInv
<1>1. CASE Environment \/ UNCHANGED vars
  BY <1>1, EnvironmentKeepsCall DEF Refined, Abstract!absVars, call, bus
<1>2. ASSUME NEW r \in Requests, Call(r) PROVE Refined
  BY <1>0, <1>2, CallIsRefined
<1>3. CASE Step
  <2>1. req \in Requests
    BY <1>0, <1>3
       DEF Step, FindDisplay, Correlate, CaptureIdentity, MatchIdentity,
           ConstructForSet, WriteSet, Wake, ConstructForGet, WriteGet, ReadReply,
           ControlOK, TypeOK
  <2>2. CASE FindDisplay \/ Correlate \/ CaptureIdentity \/ MatchIdentity
    BY <1>0, <2>1, <2>2, ResolutionIsRefined
  <2>3. CASE ConstructForSet
    BY <1>0, <2>1, <2>3, ConstructForSetIsRefined
  <2>4. CASE WriteSet
    BY <1>0, <2>1, <2>4, WriteSetIsRefined
  <2>5. CASE Wake
    BY <2>5, Stutters DEF Wake, NextAttempt, bus, Refined
  <2>6. CASE ConstructForGet \/ WriteGet
    BY <1>0, <2>1, <2>6, GetIsRefined
  <2>7. CASE ReadReply
    BY <1>0, <2>1, <2>7, ReadReplyIsRefined
  <2> QED
    BY <1>3, <2>2, <2>3, <2>4, <2>5, <2>6, <2>7 DEF Step
<1> QED
  BY <1>1, <1>2, <1>3 DEF Next

(* The caller is promised no more than VerifiedSet says, and no less: every *)
(* step of the detailed call is a step of the abstract one or invisible.    *)
(* A refusal means that no SET frame reached a monitor and a VERIFY_* code  *)
(* that both did, whatever was attached, detached or retried meanwhile.     *)
THEOREM RefinesVerifiedSet == Spec => AnswersAreHonest
<1>1. IInv /\ ProviderOK /\ OneMonitorPerCall' /\ VerifiedIsTheTarget' /\ [Next]_vars
        => [Abstract!Next]_(Abstract!absVars)
  BY EveryStepIsRefined DEF Refined
<1>2. QED
  BY <1>1, AbstractInit, Invariance, ProviderInvariance, CallStaysWithItsMonitor,
     VerifiedValueIsTheTargets, PTL
     DEF Spec, AnswersAreHonest, Abstract!Spec
=============================================================================
