---------------------------- MODULE VerifiedSet ----------------------------
(***************************************************************************)
(* What a caller of the three VCP entry points of the library is promised, *)
(* with no retry, binding, service or list index in sight: a call touches  *)
(* nothing and says so, or writes one monitor, and its single answer tells *)
(* the caller which of the two happened.  The one answer that leaves it    *)
(* open is WRITE.                                                          *)
(***************************************************************************)
CONSTANTS
  Monitors,       \* the physical monitors
  Refusals,       \* answers that promise that no SET frame reached a monitor
  Reports,        \* answers that promise that the whole SET reached a monitor
  GetFailures,    \* answers only a plain GET gives
  Unanswered      \* the verdict of a call that has not answered yet

VARIABLES
  op,             \* the operation of the current call
  changed,        \* the monitors a SET frame of the current call reached
  complete,       \* whether every frame of the SET was accepted
  verdict,        \* the answer, or Unanswered
  witness         \* the monitors whose reply the caller was given

absVars == <<op, changed, complete, verdict, witness>>

Init ==
  /\ op = "none"
  /\ changed = {}
  /\ complete = FALSE
  /\ verdict = Unanswered
  /\ witness = {}

(* A call begins, or is rejected for its arguments: what the previous call *)
(* did is forgotten.                                                       *)
Request ==
  /\ op = "none" \/ verdict # Unanswered
  /\ op' \in {"get", "set", "set_verify"}
  /\ verdict' \in {Unanswered, "ARGUMENT"}
  /\ changed' = {}
  /\ complete' = FALSE
  /\ witness' = {}

(* A SET frame reaches the one monitor this call writes.  A plain SET      *)
(* answers OK with its last frame; a verified one still has to read.       *)
Strike(m) ==
  /\ op \in {"set", "set_verify"}
  /\ verdict = Unanswered
  /\ ~complete
  /\ changed \subseteq {m}
  /\ changed' = {m}
  /\ complete' \in BOOLEAN
  /\ verdict' = IF op = "set" /\ complete' THEN "OK" ELSE Unanswered
  /\ UNCHANGED <<op, witness>>

(* What an answer tells about the write. *)
Honest(code) ==
  /\ code \in Refusals => changed = {}
  /\ code \in Reports => complete /\ changed # {}
  /\ code \notin GetFailures

(* The call answers without a value. *)
Answer(code) ==
  /\ op # "none"
  /\ verdict = Unanswered
  /\ op # "get" => Honest(code)
  /\ verdict' = code
  /\ UNCHANGED <<op, changed, complete, witness>>

(* The call answers with a value it read; a verified SET only with the     *)
(* value read from the monitor it wrote.                                   *)
Confirm(m) ==
  /\ op \in {"get", "set_verify"}
  /\ verdict = Unanswered
  /\ op = "set_verify" => complete /\ changed = {m}
  /\ verdict' = "OK"
  /\ witness' = {m}
  /\ UNCHANGED <<op, changed, complete>>

Next ==
  \/ Request
  \/ \E m \in Monitors : Strike(m) \/ Confirm(m)
  \/ \E code \in Refusals \cup Reports \cup GetFailures \cup {"WRITE"} :
        Answer(code)

Spec == Init /\ [][Next]_absVars
=============================================================================
