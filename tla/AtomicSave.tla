----------------------------- MODULE AtomicSave -----------------------------
(***************************************************************************)
(* What a caller that saves a store into a file is promised, with no       *)
(* temporary file, write or sync in sight: the file shows, in full, what   *)
(* the store held when the call was made, from the moment on that the call *)
(* answers OK; a call that answers anything else, or never answers because *)
(* its process died, has not changed it.  What a loss of power may do is   *)
(* bring back, in full, something that the file has shown before.          *)
(***************************************************************************)
CONSTANTS
  Procs,      \* the processes that save
  Initial,    \* what the file may show at first
  Empty,      \* what a new store is saved as
  Codes,      \* the answers of calls
  None

VARIABLES
  content,    \* what the file shows, or None
  behind,     \* what it may show again after a loss of power
  held,       \* what the store of each process is saved as
  asked,      \* what a process is saving, or None
  answer      \* the answer of its last call

absVars == <<content, behind, held, asked, answer>>

Init ==
  /\ content \in Initial /\ behind = {}
  /\ held = [p \in Procs |-> Empty]
  /\ asked = [p \in Procs |-> None] /\ answer = [p \in Procs |-> None]

Answers(p, code) == answer' = [answer EXCEPT ![p] = code]

(* A call that is no save, or a save that does not begin. *)
Call(p) ==
  /\ asked[p] = None
  /\ \E code \in Codes : Answers(p, code)
  /\ held' = [held EXCEPT ![p] = held'[p]]
  /\ UNCHANGED <<content, behind, asked>>

Ask(p) ==
  /\ asked[p] = None
  /\ asked' = [asked EXCEPT ![p] = held[p]] /\ Answers(p, None)
  /\ UNCHANGED <<content, behind, held>>

(* The save takes effect and answers, in one step. *)
Commit(p) ==
  /\ asked[p] # None
  /\ content' = asked[p] /\ behind' = behind \cup {content}
  /\ asked' = [asked EXCEPT ![p] = None] /\ Answers(p, "OK")
  /\ UNCHANGED held

GiveUp(p) ==
  /\ asked[p] # None
  /\ asked' = [asked EXCEPT ![p] = None]
  /\ \E code \in Codes \ {"OK"} : Answers(p, code)
  /\ UNCHANGED <<content, behind, held>>

Settle == behind' = {} /\ UNCHANGED <<content, held, asked, answer>>

(* Processes end, whatever they were doing. *)
End(P) ==
  /\ held' = [p \in Procs |-> IF p \in P THEN Empty ELSE held[p]]
  /\ asked' = [p \in Procs |-> IF p \in P THEN None ELSE asked[p]]
  /\ answer' = [p \in Procs |-> IF p \in P THEN None ELSE answer[p]]

Die(p) == End({p}) /\ UNCHANGED <<content, behind>>
PowerFails == End(Procs) /\ content' \in {content} \cup behind /\ behind' = {}

Next ==
  \/ \E p \in Procs : Call(p) \/ Ask(p) \/ Commit(p) \/ GiveUp(p) \/ Die(p)
  \/ Settle \/ PowerFails

Spec == Init /\ [][Next]_absVars
=============================================================================
