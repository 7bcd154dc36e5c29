---------------------------- MODULE MCSetVerify ----------------------------
(* Monitors of one model that differ only in their UUID (a monitor stands  *)
(* for its own), DCPDP13 ports and one port whose provider has no VCP      *)
(* transport.                                                              *)
EXTENDS SetVerify, TLC

CONSTANTS Unsupported,   \* the port without a VCP transport
          FirstMonitor, FirstPort   \* a monitor and a DCPDP13 port

MCUuid == [m \in Monitors |-> m]
MCProduct == [m \in Monitors |-> "product"]
MCPortProvider ==
  [p \in Ports |-> IF p = Unsupported THEN "UNKNOWN" ELSE "DCPDP13"]

(* Monitors are interchangeable, and so are the DCPDP13 ports.  TLC can not *)
(* use a symmetry with a liveness property: the behaviours that start with *)
(* the first monitor and port at the first place in use stand for all.     *)
Leading == {l \in links : \A k \in links : l.id <= k.id}
MCInit ==
  /\ Init
  /\ \A l \in Leading : l.mon = FirstMonitor /\ l.port \in {FirstPort, Unsupported}

(* FairSpec of SetVerify, from those initial states. *)
MCSpec == MCInit /\ [][Next]_vars /\ WF_vars(Step)

Policy(settle, retries, delay) ==
  [settle_ms |-> settle, retry_count |-> retries, retry_delay_ms |-> delay]

Ask(op, index, policy) ==
  [op |-> op, index |-> index, vcp |-> 16, value |-> 1, policy |-> policy]

(* Both pauses and a retry, no pause and no retry at an index beyond the   *)
(* shorter list, a policy over the limit, and the plain operations.        *)
MCRequests == {Ask("set_verify", 1, Policy(1, 1, 1)),
               Ask("set_verify", 2, Policy(0, 0, 0)),
               Ask("set_verify", 1, Policy(0, 2, 0)),
               Ask("get", 1, Policy(0, 0, 0)),
               Ask("set", 1, Policy(0, 0, 0))}
=============================================================================
