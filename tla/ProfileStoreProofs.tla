------------------------- MODULE ProfileStoreProofs -------------------------
(***************************************************************************)
(* What is true of ProfileStore for every number of processes that save    *)
(* and load a profile file, every pack, every display and every bound on   *)
(* calls and crashes.                                                      *)
(*                                                                         *)
(* The file is whole.  The property says nothing of the temporary files,   *)
(* and a save under way makes one of them the profile file: TemporaryOK    *)
(* says, for each step of a save, what its temporary file has come to.     *)
(* And the file only stays whole through a loss of power if all it may     *)
(* become is not just whole but synced: DiskOK.                            *)
(*                                                                         *)
(* What was saved loads again, because every profile of a store is one     *)
(* that a pack may hold: StoresOK.  Such profiles name a control once, so  *)
(* that a walk over them keeps, after each of them, the most trusted       *)
(* control that was offered: ComposedOK.                                   *)
(*                                                                         *)
(* A write needs a pack that granted it.  The source of a profile is lost  *)
(* when it is saved and another is given to it when it is loaded, so that  *)
(* the file and all it may become have to be followed too: GrantedOK.      *)
(***************************************************************************)
EXTENDS ProfileStore, TLAPS, WellFoundedInduction, FiniteSetTheorems

Steps == {"open", "write", "sync", "close", "rename", "unlink"}
Temporaries == [text : exported, whole : BOOLEAN, synced : BOOLEAN]

TypedSaves ==
  /\ pc \in [Procs -> Steps \cup {"idle"}] /\ failed \in [Procs -> BOOLEAN]
  /\ DOMAIN saving = Procs /\ saving = [p \in Procs |-> saving[p]]
  /\ DOMAIN temp = Procs /\ temp = [p \in Procs |-> temp[p]]

TemporaryOK(p) ==
  /\ pc[p] # "idle" => saving[p] \in exported
  /\ pc[p] \in Steps \ {"open"} => temp[p] \in Temporaries
  /\ pc[p] = "sync" => temp[p].whole
  /\ pc[p] = "close" /\ ~failed[p] => temp[p].whole /\ temp[p].synced
  /\ pc[p] = "rename" => temp[p].whole /\ temp[p].synced

Kept(c) ==
  c # None => c.whole /\ c.synced /\ c.text \in exported \cup (FirstFiles \ {None})

DiskOK == \A c \in {file} \cup older : Kept(c)

SavesOK == TypedSaves /\ (\A p \in Procs : TemporaryOK(p)) /\ DiskOK

(* A step of one save leaves the others where they are. *)
LEMMA OthersStay ==
  ASSUME SavesOK, NEW p \in Procs,
         \A q \in Procs \ {p} : /\ pc'[q] = pc[q] /\ failed'[q] = failed[q]
                                /\ saving'[q] = saving[q] /\ temp'[q] = temp[q],
         exported \subseteq exported', TypedSaves', TemporaryOK(p)'
  PROVE  \A q \in Procs : TemporaryOK(q)'
<1> SUFFICES ASSUME NEW q \in Procs \ {p} PROVE TemporaryOK(q)'
  OBVIOUS
<1>1. TemporaryOK(q)
  BY DEF SavesOK
<1> QED BY <1>1 DEF TemporaryOK, Temporaries

(* What the disk keeps, it keeps while more is saved. *)
LEMMA DiskStays ==
  ASSUME DiskOK, UNCHANGED file, older' \subseteq older, exported \subseteq exported'
  PROVE  DiskOK'
  BY DEF DiskOK, Kept

LEMMA SavesInit == Init => SavesOK
<1> SUFFICES ASSUME Init PROVE SavesOK
  OBVIOUS
<1>1. TypedSaves
  BY DEF Init, TypedSaves
<1>2. \A p \in Procs : TemporaryOK(p)
  BY DEF Init, TemporaryOK, Steps
<1>3. DiskOK
  BY DEF Init, DiskOK, Kept
<1> QED BY <1>1, <1>2, <1>3 DEF SavesOK

(* The steps of one save, one after the other. *)
LEMMA EndingSave ==
  ASSUME SavesOK, NEW p \in Procs, NEW code, EndSave(p, code)
  PROVE  TypedSaves' /\ (\A q \in Procs : TemporaryOK(q)') /\ exported' = exported
<1>1. TypedSaves'
  BY DEF SavesOK, TypedSaves, EndSave, Goto
<1>2. exported' = exported
  BY DEF EndSave, SaveStep, history
<1>3. TemporaryOK(p)'
  BY <1>1, <1>2 DEF SavesOK, TypedSaves, EndSave, Goto, TemporaryOK, Steps
<1>4. \A q \in Procs \ {p} : /\ pc'[q] = pc[q] /\ failed'[q] = failed[q]
                             /\ saving'[q] = saving[q] /\ temp'[q] = temp[q]
  BY DEF SavesOK, TypedSaves, EndSave, Goto
<1> QED BY <1>1, <1>2, <1>3, <1>4, OthersStay

LEMMA SteppingOn ==
  ASSUME SavesOK, NEW p \in Procs, NEW step \in Steps \ {"open"}, StepOn(p, step),
         failed' = failed \/ Fail(p),
         temp' = temp \/ \E t \in Temporaries : temp' = [temp EXCEPT ![p] = t],
         pc[p] # "idle",
         temp'[p] \in Temporaries,
         step \in {"sync", "rename"} => temp'[p].whole,
         step = "rename" => temp'[p].synced,
         step = "close" /\ ~failed'[p] => temp'[p].whole /\ temp'[p].synced
  PROVE  SavesOK'
<1>1. TypedSaves'
  <2>1. pc' \in [Procs -> Steps \cup {"idle"}] /\ pc'[p] = step
        /\ \A q \in Procs \ {p} : pc'[q] = pc[q]
    BY DEF SavesOK, TypedSaves, StepOn, Goto
  <2>2. failed' \in [Procs -> BOOLEAN] /\ \A q \in Procs \ {p} : failed'[q] = failed[q]
    BY DEF SavesOK, TypedSaves, Fail
  <2> QED BY <2>1, <2>2 DEF SavesOK, TypedSaves, StepOn
<1>2. exported' = exported /\ UNCHANGED <<file, older>> /\ saving' = saving
  BY DEF StepOn, SaveStep, history, disk
<1>3. TemporaryOK(p)'
  <2>1. pc'[p] = step /\ saving[p] \in exported
    BY DEF SavesOK, TypedSaves, StepOn, Goto, TemporaryOK
  <2> QED BY <1>2, <2>1 DEF TemporaryOK, Temporaries, Steps
<1>4. \A q \in Procs \ {p} : /\ pc'[q] = pc[q] /\ failed'[q] = failed[q]
                             /\ saving'[q] = saving[q] /\ temp'[q] = temp[q]
  BY <1>2 DEF SavesOK, TypedSaves, StepOn, Goto, Fail
<1>5. DiskOK'
  BY <1>2, DiskStays DEF SavesOK
<1> QED BY <1>1, <1>2, <1>3, <1>4, <1>5, OthersStay DEF SavesOK

LEMMA SavingSteps ==
  ASSUME SavesOK, NEW p \in Procs,
         Open(p) \/ Write(p) \/ Sync(p) \/ Close(p) \/ Rename(p) \/ Unlink(p)
  PROVE  SavesOK'
<1>1. TypedSaves /\ TemporaryOK(p) /\ DiskOK
  BY DEF SavesOK
<1>2. ASSUME NEW code, EndSave(p, code), UNCHANGED disk PROVE SavesOK'
  BY <1>1, <1>2, EndingSave, DiskStays DEF SavesOK, disk
<1>3. CASE Open(p)
  <2>1. CASE EndSave(p, "SYSTEM") /\ UNCHANGED disk
    BY <1>2, <2>1
  <2>2. CASE /\ StepOn(p, "write") /\ UNCHANGED failed
             /\ temp' = [temp EXCEPT ![p] =
                          [text |-> saving[p], whole |-> FALSE, synced |-> FALSE]]
    <3> DEFINE t == [text |-> saving[p], whole |-> FALSE, synced |-> FALSE]
    <3>1. t \in Temporaries
      BY <1>1, <1>3 DEF Open, TemporaryOK, Temporaries
    <3>2. temp'[p] = t
      BY <1>1, <2>2 DEF TypedSaves
    <3>3. pc[p] # "idle"
      BY <1>3 DEF Open
    <3> HIDE DEF t
    <3> QED BY <2>2, <3>1, <3>2, <3>3, SteppingOn DEF Steps, t
  <2> QED BY <1>3, <2>1, <2>2 DEF Open
<1>4. ASSUME pc[p] \in {"write", "sync", "close", "rename", "unlink"}
      PROVE  temp[p] \in Temporaries /\ pc[p] # "idle"
  BY <1>1, <1>4 DEF TemporaryOK, Steps
<1>5. Fail(p) => failed'[p]
  BY <1>1 DEF Fail, TypedSaves
<1>6. CASE Write(p)
  <2>1. temp[p] \in Temporaries /\ pc[p] # "idle"
    BY <1>4, <1>6 DEF Write
  <2>2. CASE StepOn(p, "close") /\ Fail(p) /\ UNCHANGED temp
    BY <1>5, <2>1, <2>2, SteppingOn DEF Steps
  <2>3. CASE /\ StepOn(p, "sync") /\ UNCHANGED failed
             /\ temp' = [temp EXCEPT ![p].whole = TRUE]
    <3> DEFINE t == [temp[p] EXCEPT !.whole = TRUE]
    <3>1. t \in Temporaries /\ t.whole
      BY <2>1 DEF Temporaries
    <3>2. temp'[p] = t /\ temp' = [temp EXCEPT ![p] = t]
      BY <1>1, <2>3 DEF TypedSaves
    <3> HIDE DEF t
    <3> QED BY <2>1, <2>3, <3>1, <3>2, SteppingOn DEF Steps
  <2> QED BY <1>6, <2>2, <2>3 DEF Write
<1>7. CASE Sync(p)
  <2>1. temp[p] \in Temporaries /\ pc[p] # "idle" /\ temp[p].whole
    BY <1>1, <1>4, <1>7 DEF Sync, TemporaryOK
  <2>2. CASE StepOn(p, "close") /\ Fail(p) /\ UNCHANGED temp
    BY <1>5, <2>1, <2>2, SteppingOn DEF Steps
  <2>3. CASE /\ StepOn(p, "close") /\ UNCHANGED failed
             /\ temp' = [temp EXCEPT ![p].synced = TRUE]
    <3> DEFINE t == [temp[p] EXCEPT !.synced = TRUE]
    <3>1. t \in Temporaries /\ t.whole /\ t.synced
      BY <2>1 DEF Temporaries
    <3>2. temp'[p] = t /\ temp' = [temp EXCEPT ![p] = t]
      BY <1>1, <2>3 DEF TypedSaves
    <3> HIDE DEF t
    <3> QED BY <2>1, <2>3, <3>1, <3>2, SteppingOn DEF Steps
  <2> QED BY <1>7, <2>2, <2>3 DEF Sync
<1>8. CASE Close(p)
  <2>1. temp[p] \in Temporaries /\ pc[p] # "idle"
    BY <1>4, <1>8 DEF Close
  <2>2. CASE StepOn(p, "unlink") /\ Fail(p)
    BY <1>8, <2>1, <2>2, SteppingOn DEF Close, Steps
  <2>3. CASE ~failed[p] /\ StepOn(p, "rename") /\ UNCHANGED failed
    <3>1. temp[p].whole /\ temp[p].synced /\ temp' = temp
      BY <1>1, <1>8, <2>3 DEF Close, TemporaryOK
    <3> QED BY <2>1, <2>3, <3>1, SteppingOn DEF Steps
  <2> QED BY <1>8, <2>2, <2>3 DEF Close
<1>9. CASE Rename(p)
  <2>1. /\ temp[p] \in Temporaries /\ pc[p] # "idle"
        /\ temp[p].whole /\ temp[p].synced
    BY <1>1, <1>4, <1>9 DEF Rename, TemporaryOK
  <2>2. CASE StepOn(p, "unlink") /\ Fail(p) /\ UNCHANGED temp
    BY <2>1, <2>2, SteppingOn DEF Steps
  <2>3. CASE file' = temp[p] /\ older' = older \cup {file} /\ EndSave(p, "OK")
    <3>1. /\ TypedSaves' /\ (\A q \in Procs : TemporaryOK(q)') /\ exported' = exported
      BY <2>3, EndingSave
    <3>2. DiskOK'
      <4>1. temp[p].text \in exported
        BY <2>1 DEF Temporaries
      <4> QED BY <1>1, <2>1, <2>3, <3>1, <4>1 DEF DiskOK, Kept
    <3> QED BY <3>1, <3>2 DEF SavesOK
  <2> QED BY <1>9, <2>2, <2>3 DEF Rename
<1>10. CASE Unlink(p)
  BY <1>2, <1>10 DEF Unlink
<1> QED BY <1>3, <1>6, <1>7, <1>8, <1>9, <1>10

LEMMA BeginningSave ==
  ASSUME SavesOK, NEW p \in Procs, BeginSave(p)
  PROVE  SavesOK'
<1>1. UNCHANGED <<file, older, failed, temp>> /\ exported \subseteq exported'
  BY DEF BeginSave, disk
<1>2. TypedSaves' /\ TemporaryOK(p)'
  <2>1. CASE /\ Goto(p, "open")
             /\ saving' = [saving EXCEPT ![p] = Export(store[p])]
             /\ exported' = exported \cup {Export(store[p])}
    <3>1. TypedSaves'
      BY <1>1, <2>1 DEF SavesOK, TypedSaves, Goto, Steps
    <3>2. saving'[p] \in exported' /\ pc'[p] = "open"
      BY <2>1 DEF SavesOK, TypedSaves, Goto
    <3> QED BY <3>1, <3>2 DEF TemporaryOK, Steps
  <2>2. CASE UNCHANGED <<pc, saving, exported>>
    BY <1>1, <2>2 DEF SavesOK, TypedSaves, TemporaryOK, Temporaries
  <2> QED BY <2>1, <2>2 DEF BeginSave
<1>3. \A q \in Procs \ {p} : /\ pc'[q] = pc[q] /\ failed'[q] = failed[q]
                             /\ saving'[q] = saving[q] /\ temp'[q] = temp[q]
  BY <1>1 DEF SavesOK, TypedSaves, BeginSave, Goto
<1> QED BY <1>1, <1>2, <1>3, OthersStay, DiskStays DEF SavesOK

(* A process that dies gives up its save; the loss of power takes them     *)
(* all, and leaves of the disk one of the contents it might.               *)
LEMMA Crashing ==
  ASSUME SavesOK, (\E p \in Procs : Die(p)) \/ PowerFails
  PROVE  SavesOK'
<1>1. ASSUME NEW P, Restart(P)
      PROVE  TypedSaves' /\ (\A q \in Procs : TemporaryOK(q)') /\ exported' = exported
  <2>1. exported' = exported
    BY <1>1 DEF Restart, history
  <2>2. TypedSaves'
    BY <1>1 DEF Restart, SavesOK, TypedSaves
  <2>3. ASSUME NEW q \in Procs PROVE TemporaryOK(q)'
    <3>1. CASE q \in P
      BY <1>1, <2>1, <3>1 DEF Restart, TemporaryOK, Steps
    <3>2. CASE q \notin P
      <4>1. /\ pc'[q] = pc[q] /\ failed'[q] = failed[q] /\ saving'[q] = saving[q]
            /\ temp'[q] = temp[q]
        BY <1>1, <3>2 DEF Restart
      <4> QED BY <2>1, <4>1 DEF SavesOK, TemporaryOK, Temporaries
    <3> QED BY <3>1, <3>2
  <2> QED BY <2>1, <2>2, <2>3
<1>2. ASSUME NEW p \in Procs, Die(p) PROVE SavesOK'
  BY <1>1, <1>2, DiskStays DEF Die, SavesOK, disk
<1>3. CASE PowerFails
  <2>1. /\ TypedSaves' /\ (\A q \in Procs : TemporaryOK(q)') /\ exported' = exported
        /\ older' = {}
    BY <1>1, <1>3 DEF PowerFails
  <2>2. PICK c \in {file} \cup older : file' \in Surviving(c)
    BY <1>3 DEF PowerFails
  <2>3. file' = c
    BY <2>2 DEF Surviving, SavesOK, DiskOK, Kept
  <2> QED BY <2>1, <2>3 DEF SavesOK, DiskOK, Kept
<1> QED BY <1>2, <1>3

LEMMA SavesStep == SavesOK /\ [Next]_vars => SavesOK'
<1> SUFFICES ASSUME SavesOK, [Next]_vars PROVE SavesOK'
  OBVIOUS
<1>1. ASSUME UNCHANGED <<pc, saving, failed, temp, file, exported>>, older' \subseteq older
      PROVE  SavesOK'
  BY <1>1, DiskStays DEF SavesOK, TypedSaves, TemporaryOK, Temporaries
<1>2. ASSUME NEW p \in Procs, \/ \E d \in Packs, source \in Loadable : LoadData(p, d, source)
                              \/ \E source \in Loadable : LoadFile(p, source)
                              \/ LoadBuiltin(p)
      PROVE  SavesOK'
  BY <1>1, <1>2 DEF LoadData, LoadFile, LoadBuiltin, Unsaved, disk
<1>3. CASE Flush
  BY <1>1, <1>3 DEF Flush, process, history
<1>4. CASE UNCHANGED vars
  BY <1>1, <1>4 DEF vars, process, disk, history
<1> QED BY <1>2, <1>3, <1>4, SavingSteps, BeginningSave, Crashing DEF Next

(* The profile file holds one text in full, the one that was there at      *)
(* first or one that some save was to write, whoever saves, whichever step *)
(* of it fails and wherever processes die or the power goes.               *)
THEOREM FileStaysWhole == Spec => []SavedFileIsWhole
<1>1. SavesOK => SavedFileIsWhole
  BY DEF SavesOK, DiskOK, Kept, SavedFileIsWhole
<1> QED BY <1>1, SavesInit, SavesStep, PTL DEF Spec
-----------------------------------------------------------------------------
(* What a store holds, and what becomes of it when it is saved. *)

Before == {r \in Nat \X Nat : r[1] < r[2]}

LEMMA LeastIsLeast ==
  ASSUME NEW S \in SUBSET Nat, S # {}
  PROVE  Least(S) \in S /\ \A j \in S : Least(S) <= j
<1>1. IsWellFoundedOn(Before, Nat)
  BY NatLessThanWellFounded DEF OpToRel, Before
<1>2. PICK i \in S : \A j \in S : <<j, i>> \notin Before
  BY <1>1, WFMin
<1>3. \A j \in Nat : <<j, i>> \in Before <=> j < i
  BY DEF Before
<1>4. \A j \in S : i <= j
  <2> SUFFICES ASSUME NEW j \in S PROVE i <= j
    OBVIOUS
  <2>1. i \in Nat /\ j \in Nat /\ ~(j < i)
    BY <1>2, <1>3
  <2> QED BY <2>1
<1> QED BY <1>4 DEF Least

(* A list of faults is OK if all are, and else is one of them. *)
LEMMA FirstFaultIs ==
  ASSUME NEW faults, DOMAIN faults \subseteq Nat
  PROVE  \/ FirstFault(faults) = "OK" /\ \A i \in DOMAIN faults : faults[i] = "OK"
         \/ \E i \in DOMAIN faults : faults[i] # "OK" /\ FirstFault(faults) = faults[i]
<1> DEFINE wrong == {i \in DOMAIN faults : faults[i] # "OK"}
<1>1. CASE wrong = {}
  BY <1>1 DEF FirstFault
<1>2. CASE wrong # {}
  <2>1. Least(wrong) \in wrong
    BY <1>2, LeastIsLeast
  <2>2. FirstFault(faults) = faults[Least(wrong)]
    BY <1>2 DEF FirstFault
  <2> QED BY <2>1, <2>2
<1> QED BY <1>1, <1>2

(* What is fit to be research is fit to be local, and a pack.              *)
LEMMA ControlTrust ==
  ASSUME NEW q, NEW s \in Loadable, NEW t \in {"LOCAL", "VALIDATED_PACK"},
         ControlFault(q, s) = "OK"
  PROVE  ControlFault(q, t) = "OK"
  BY DEF ControlFault

LEMMA ProfileTrust ==
  ASSUME NEW r, DOMAIN r.controls \subseteq Nat, NEW s \in Loadable,
         NEW t \in {"LOCAL", "VALIDATED_PACK"}, ProfileFault(r, s) = "OK"
  PROVE  ProfileFault(r, t) = "OK"
<1> DEFINE Faults(x) == [i \in DOMAIN r.controls |-> FaultOfControl(r, i, x)]
<1>1. r.controls # <<>> /\ FirstFault(Faults(s)) = "OK"
  BY DEF ProfileFault
<1>2. \A i \in DOMAIN r.controls : FaultOfControl(r, i, s) = "OK"
  <2>1. DOMAIN Faults(s) = DOMAIN r.controls
    OBVIOUS
  <2>2. \A i \in DOMAIN r.controls : Faults(s)[i] = "OK"
    BY <1>1, <2>1, FirstFaultIs
  <2> QED BY <2>2
<1>3. \A i \in DOMAIN r.controls : FaultOfControl(r, i, t) = "OK"
  BY <1>2, ControlTrust DEF FaultOfControl
<1>4. FirstFault(Faults(t)) = "OK"
  <2>1. DOMAIN Faults(t) = DOMAIN r.controls /\ \A i \in DOMAIN r.controls : Faults(t)[i] = "OK"
    BY <1>3
  <2> HIDE DEF Faults
  <2> QED BY <2>1, FirstFaultIs
<1> QED BY <1>1, <1>4 DEF ProfileFault

(* Every profile of a store is one that a file could hold. *)
GoodProfiles ==
  {r \in Profiles : \A t \in {"LOCAL", "VALIDATED_PACK"} : ProfileFault(r, t) = "OK"}
Records == [source : Sources, profile : GoodProfiles]

Reloadable(text) ==
  /\ text \in Texts /\ text.whole /\ text.supported /\ text.schema = SchemaVersion
  /\ text.profiles \in Seq(GoodProfiles) /\ Len(text.profiles) <= MaxProfiles

StoresOK ==
  /\ store \in [Procs -> Seq(Records)]
  /\ \A p \in Procs : Len(store[p]) <= MaxProfiles
  /\ \A text \in exported : Reloadable(text)

LEMMA GivenTexts ==
  Given \subseteq Texts /\ \A r \in Profiles : DOMAIN r.controls \subseteq Nat \ {0}
<1>1. \A d \in Given : d \in Texts
  <2> SUFFICES ASSUME NEW d \in Given PROVE d \in Texts
    OBVIOUS
  <2>1. /\ d = [whole |-> d.whole, schema |-> d.schema, supported |-> d.supported,
                profiles |-> d.profiles]
        /\ d.whole \in BOOLEAN /\ d.supported \in BOOLEAN /\ Len(d.profiles) \in Nat
        /\ d.profiles = [i \in 1..Len(d.profiles) |-> d.profiles[i]]
    BY PackAssumption DEF Given
  <2>2. \A i \in DOMAIN d.profiles : d.profiles[i] \in Profiles
    BY DEF Profiles
  <2>3. d.profiles \in Seq(Profiles)
    BY <2>1, <2>2
  <2>4. d.schema \in {e.schema : e \in Given} \cup {SchemaVersion}
    OBVIOUS
  <2> QED BY <2>1, <2>3, <2>4 DEF Texts
<1>2. \A r \in Profiles : DOMAIN r.controls \subseteq Nat \ {0}
  <2> SUFFICES ASSUME NEW r \in Profiles PROVE DOMAIN r.controls \subseteq Nat \ {0}
    OBVIOUS
  <2>1. PICK d \in Given : \E i \in DOMAIN d.profiles : r = d.profiles[i]
    BY DEF Profiles
  <2> QED BY <2>1, PackAssumption DEF Given
<1> QED BY <1>1, <1>2

LEMMA PackParsed ==
  ASSUME NEW d \in Texts, NEW s \in Loadable, PackFault(d, s) = "OK"
  PROVE  d.profiles \in Seq(GoodProfiles)
<1> DEFINE faults == [i \in DOMAIN d.profiles |-> FaultOfProfile(d, i, s)]
<1>1. d.profiles \in Seq(Profiles)
  BY DEF Texts
<1>2. DOMAIN faults \subseteq Nat /\ DOMAIN faults = DOMAIN d.profiles
  BY <1>1
<1>3. FirstFault(faults) = "OK"
  BY DEF PackFault
<1>4. \A i \in DOMAIN d.profiles : FaultOfProfile(d, i, s) = "OK"
  <2>1. \A i \in DOMAIN d.profiles : faults[i] = "OK"
    <3> HIDE DEF faults
    <3> QED BY <1>2, <1>3, FirstFaultIs
  <2> QED BY <2>1
<1>5. \A i \in DOMAIN d.profiles : ProfileFault(d.profiles[i], s) = "OK"
  BY <1>4 DEF FaultOfProfile
<1>6. \A i \in DOMAIN d.profiles : d.profiles[i] \in GoodProfiles
  BY <1>1, <1>5, GivenTexts, ProfileTrust DEF GoodProfiles
<1> QED BY <1>1, <1>6

LEMMA StoreTakes ==
  ASSUME StoresOK, NEW p \in Procs, NEW d \in Texts, NEW s \in Loadable, NEW source \in Sources,
         Taken(p, d, s, source)
  PROVE  /\ store' \in [Procs -> Seq(Records)]
         /\ \A q \in Procs : Len(store'[q]) <= MaxProfiles
<1>1. d.profiles \in Seq(GoodProfiles)
  BY PackParsed DEF Taken
<1>2. AsLoaded(d, source) \in Seq(Records) /\ Len(AsLoaded(d, source)) = Len(d.profiles)
  <2>1. Len(d.profiles) \in Nat /\ \A i \in 1..Len(d.profiles) :
          [source |-> source, profile |-> d.profiles[i]] \in Records
    BY <1>1 DEF Records
  <2> QED BY <2>1 DEF AsLoaded
<1>3. store[p] \o AsLoaded(d, source) \in Seq(Records)
      /\ Len(store[p] \o AsLoaded(d, source)) = Len(store[p]) + Len(d.profiles)
  <2>1. \A s1, s2 \in Seq(Records) : s1 \o s2 \in Seq(Records) /\ Len(s1 \o s2) = Len(s1) + Len(s2)
    OBVIOUS
  <2>2. store[p] \in Seq(Records)
    BY DEF StoresOK
  <2> QED BY <1>2, <2>1, <2>2
<1> QED BY <1>3 DEF Taken, StoresOK

LEMMA StoreExports ==
  ASSUME StoresOK, NEW p \in Procs
  PROVE  Reloadable(Export(store[p]))
<1> DEFINE held == store[p]
           listed == [i \in DOMAIN held |-> held[i].profile]
<1>1. held \in Seq(Records) /\ Len(held) <= MaxProfiles
  BY DEF StoresOK
<1>2. listed \in Seq(GoodProfiles) /\ Len(listed) = Len(held)
  <2>1. Len(held) \in Nat /\ DOMAIN held = 1..Len(held)
        /\ \A i \in 1..Len(held) : held[i].profile \in GoodProfiles
    <3> HIDE DEF held
    <3>1. \A i \in 1..Len(held) : held[i] \in Records
      BY <1>1
    <3> QED BY <1>1, <3>1 DEF Records
  <2> HIDE DEF held
  <2> QED BY <2>1
<1>3. listed \in Seq(Profiles)
  BY <1>2 DEF GoodProfiles
<1> HIDE DEF held
<1> QED BY <1>1, <1>2, <1>3 DEF Reloadable, Export, Texts, held

(* Only what a text lists twice, or beyond its length, stands against it.  *)
LEMMA ReloadableReloads ==
  ASSUME NEW text, Reloadable(text), NEW source \in {"LOCAL", "VALIDATED_PACK"}
  PROVE  PackFault(text, source) =
           IF Size(text) > FileMax THEN "ARGUMENT"
           ELSE IF \E i \in DOMAIN text.profiles : \E j \in 1..i-1 :
                     text.profiles[i].identity = text.profiles[j].identity
           THEN "PROFILE_CONFLICT" ELSE "OK"
<1> DEFINE faults == [i \in DOMAIN text.profiles |-> FaultOfProfile(text, i, source)]
           Again(i) == \E j \in 1..i-1 : text.profiles[i].identity = text.profiles[j].identity
<1>1. /\ text.profiles \in Seq(GoodProfiles) /\ Len(text.profiles) <= MaxProfiles
      /\ DOMAIN text.profiles = 1..Len(text.profiles) /\ Len(text.profiles) \in Nat
  BY DEF Reloadable
<1>2. \A i \in DOMAIN text.profiles :
        ~(i > MaxProfiles) /\ ProfileFault(text.profiles[i], source) = "OK"
  BY <1>1, BoundAssumption DEF GoodProfiles
<1>3. \A i \in DOMAIN text.profiles :
        FaultOfProfile(text, i, source) = IF Again(i) THEN "PROFILE_CONFLICT" ELSE "OK"
  BY <1>2 DEF FaultOfProfile
<1>4. FirstFault(faults) = IF \E i \in DOMAIN text.profiles : Again(i)
                           THEN "PROFILE_CONFLICT" ELSE "OK"
  <2>1. /\ DOMAIN faults = DOMAIN text.profiles /\ DOMAIN faults \subseteq Nat
        /\ \A i \in DOMAIN text.profiles : faults[i] = IF Again(i) THEN "PROFILE_CONFLICT" ELSE "OK"
    BY <1>1, <1>3
  <2> HIDE DEF faults, Again
  <2> QED BY <2>1, FirstFaultIs
<1>5. text.whole /\ text.supported /\ text.schema = SchemaVersion
  BY DEF Reloadable
<1> QED BY <1>4, <1>5 DEF PackFault

Whole == SavesOK /\ StoresOK

LEMMA WholeInit == Init => Whole
<1>1. Init => StoresOK
  BY BoundAssumption DEF Init, StoresOK
<1> QED BY <1>1, SavesInit DEF Whole

LEMMA WholeStep == Whole /\ [Next]_vars => Whole'
<1> SUFFICES ASSUME Whole, [Next]_vars PROVE StoresOK'
  BY SavesStep DEF Whole
<1> USE DEF Whole
<1>0. Loadable \subseteq Sources /\ "BUILTIN" \in Sources /\ "VALIDATED_PACK" \in Loadable
      /\ Given \subseteq Texts
  BY GivenTexts DEF Sources, Loadable
<1>1. ASSUME UNCHANGED store, exported' = exported PROVE StoresOK'
  BY <1>1 DEF StoresOK
<1>2. ASSUME NEW p \in Procs, NEW d \in Texts, NEW s \in Loadable, NEW source \in Sources,
             Taken(p, d, s, source) \/ Refused(p, d, s), exported' = exported
      PROVE  StoresOK'
  <2>1. CASE Taken(p, d, s, source)
    BY <1>2, <2>1, StoreTakes DEF StoresOK
  <2>2. CASE Refused(p, d, s)
    BY <1>1, <1>2, <2>2 DEF Refused
  <2> QED BY <1>2, <2>1, <2>2
<1>3. ASSUME NEW p \in Procs, NEW d \in Packs, NEW source \in Loadable, LoadData(p, d, source)
      PROVE  StoresOK'
  BY <1>0, <1>2, <1>3 DEF LoadData, Unsaved, Given
<1>4. ASSUME NEW p \in Procs, LoadBuiltin(p) PROVE StoresOK'
  BY <1>0, <1>2, <1>4 DEF LoadBuiltin, Unsaved, Given
<1>5. ASSUME NEW p \in Procs, NEW source \in Loadable, LoadFile(p, source) PROVE StoresOK'
  <2>1. exported' = exported
    BY <1>5 DEF LoadFile, Unsaved
  <2>2. CASE UNCHANGED store
    BY <1>1, <2>1, <2>2
  <2>3. CASE ~UNCHANGED store
    <3>1. file # None /\ (Taken(p, file.text, source, source) \/ Refused(p, file.text, source))
      BY <1>5, <2>3 DEF LoadFile
    <3>2. file.text \in exported \cup (FirstFiles \ {None})
      BY <3>1 DEF SavesOK, DiskOK, Kept
    <3>3. file.text \in Texts
      BY <1>0, <3>2 DEF StoresOK, Reloadable, Given
    <3> QED BY <1>0, <1>2, <2>1, <3>1, <3>3
  <2> QED BY <2>2, <2>3
<1>6. ASSUME NEW p \in Procs, BeginSave(p) PROVE StoresOK'
  <2>1. exported' \subseteq exported \cup {Export(store[p])} /\ store' = store
    BY <1>6 DEF BeginSave
  <2> QED BY <2>1, StoreExports DEF StoresOK
<1>7. ASSUME NEW p \in Procs,
             Open(p) \/ Write(p) \/ Sync(p) \/ Close(p) \/ Rename(p) \/ Unlink(p)
      PROVE  StoresOK'
  BY <1>1, <1>7 DEF Open, Write, Sync, Close, Rename, Unlink, StepOn, EndSave, SaveStep, history
<1>8. ASSUME NEW P, Restart(P) PROVE StoresOK'
  BY <1>8, BoundAssumption DEF Restart, StoresOK, history
<1>9. CASE Flush \/ UNCHANGED vars
  BY <1>1, <1>9 DEF Flush, vars, process, history
<1> QED BY <1>3, <1>4, <1>5, <1>6, <1>7, <1>8, <1>9 DEF Next, Die, PowerFails

(* Every store that was saved, whatever packs it was put together from and *)
(* in whatever order, loads again as a pack a caller may write from, but   *)
(* for a text that is too long or lists an identity twice.                 *)
THEOREM StoresReload == Spec => []SavedStoreReloads
<1>1. Whole => SavedStoreReloads
  BY ReloadableReloads DEF Whole, StoresOK, SavedStoreReloads
<1> QED BY <1>1, WholeInit, WholeStep, PTL DEF Spec
-----------------------------------------------------------------------------
(* How the profiles of a store compose for a display. *)

(* The recursive definition of a walk has a value: a least number of       *)
(* profiles for which it had none would be one more than one for which it  *)
(* has.                                                                    *)
LEMMA WalkIs ==
  ASSUME NEW helds, Len(helds) \in Nat, NEW a
  PROVE  Walk(helds, a) = [n \in 0..Len(helds) |->
           IF n = 0 THEN NothingFound ELSE Compose(Walk(helds, a)[n-1], helds[n], a)]
<1> DEFINE F(g, m) == g = [n \in 0..m |-> IF n = 0 THEN NothingFound
                                          ELSE Compose(g[n-1], helds[n], a)]
           bad == {m \in Nat : ~ \E g : F(g, m)}
<1>1. bad = {}
  <2> SUFFICES ASSUME bad # {} PROVE FALSE
    OBVIOUS
  <2> DEFINE m == Least(bad)
  <2>1. m \in bad /\ \A k \in bad : m <= k
    <3> HIDE DEF bad
    <3>1. bad \in SUBSET Nat
      BY DEF bad
    <3> QED BY <3>1, LeastIsLeast
  <2> HIDE DEF m
  <2>2. m # 0
    <3> DEFINE g == [n \in 0..0 |-> NothingFound]
    <3>1. F(g, 0)
      OBVIOUS
    <3> QED BY <2>1, <3>1
  <2>3. m \in Nat /\ m - 1 \in Nat /\ m - 1 \notin bad
    BY <2>1, <2>2
  <2>4. PICK g : F(g, m - 1)
    BY <2>3
  <2> DEFINE h == [n \in 0..m |-> IF n = m THEN Compose(g[m-1], helds[m], a) ELSE g[n]]
  <2>5. \A n \in 0..m-1 : g[n] = IF n = 0 THEN NothingFound ELSE Compose(g[n-1], helds[n], a)
    BY <2>3, <2>4
  <2>6. \A n \in 0..m : h[n] = IF n = 0 THEN NothingFound ELSE Compose(h[n-1], helds[n], a)
    <3> SUFFICES ASSUME NEW n \in 0..m
                 PROVE  h[n] = IF n = 0 THEN NothingFound ELSE Compose(h[n-1], helds[n], a)
      OBVIOUS
    <3>1. CASE n = m
      <4>1. h[n-1] = g[m-1] /\ h[n] = Compose(g[m-1], helds[m], a)
        BY <2>2, <2>3, <3>1
      <4> QED BY <2>2, <3>1, <4>1
    <3>2. CASE n # m /\ n # 0
      <4>1. h[n] = g[n] /\ h[n-1] = g[n-1] /\ n \in 0..m-1
        BY <2>3, <3>2
      <4> QED BY <2>5, <3>2, <4>1
    <3>3. CASE n # m /\ n = 0
      <4>1. h[n] = g[n] /\ n \in 0..m-1
        BY <2>3, <3>3
      <4> QED BY <2>5, <3>3, <4>1
    <3> QED BY <3>1, <3>2, <3>3
  <2>7. F(h, m)
    BY <2>6
  <2> QED BY <2>1, <2>7
<1>2. \E g : F(g, Len(helds))
  BY <1>1
<1>3. Walk(helds, a) = CHOOSE g : F(g, Len(helds))
  BY DEF Walk
<1>4. F(Walk(helds, a), Len(helds))
  <2> HIDE DEF F
  <2> QED BY <1>2, <1>3
<1> QED BY <1>4

LEMMA WalkSteps ==
  ASSUME NEW helds, Len(helds) \in Nat, NEW a
  PROVE  /\ Walk(helds, a)[0] = NothingFound
         /\ \A n \in 1..Len(helds) :
              Walk(helds, a)[n] = Compose(Walk(helds, a)[n-1], helds[n], a)
<1> DEFINE w == Walk(helds, a)
<1>1. w = [n \in 0..Len(helds) |-> IF n = 0 THEN NothingFound
                                   ELSE Compose(w[n-1], helds[n], a)]
  BY WalkIs
<1> HIDE DEF w
<1>2. w[0] = NothingFound
  BY <1>1
<1>3. \A n \in 1..Len(helds) : w[n] = Compose(w[n-1], helds[n], a)
  BY <1>1
<1> QED BY <1>2, <1>3 DEF w

(* What decides between two candidates is the order of their weights: a    *)
(* score is too small to stand against a source, and a source against      *)
(* confidence.                                                             *)
Weighed == [control : Controls, source : Sources, score : 4..13]

LEMMA Weights ==
  ASSUME NEW x \in Weighed
  PROVE  /\ x.control.confidence \in Nat /\ Rank[x.source] \in 1..4 /\ x.score \in 4..13
         /\ Weight(x) = 100 * x.control.confidence + 10 * Rank[x.source] + x.score
         /\ Weight(x) \in Nat /\ x # None
<1>1. x.control \in Controls /\ x.source \in Sources /\ x.score \in 4..13
  BY DEF Weighed
<1>2. x.control.confidence \in Nat
  BY <1>1, ControlAssumption
<1>3. Rank[x.source] \in 1..4
  BY <1>1 DEF Rank, Sources, Loadable
<1>4. x # None
  BY NoneAssumption DEF Weighed, Candidates
<1> QED BY <1>1, <1>2, <1>3, <1>4 DEF Weight

LEMMA OutranksIsHeavier ==
  ASSUME NEW x \in Weighed, NEW y \in Weighed
  PROVE  /\ Outranks(x, y) <=> Weight(x) > Weight(y)
         /\ EqualAuthority(x, y) <=> Weight(x) = Weight(y)
<1> DEFINE cx == x.control.confidence
           cy == y.control.confidence
           rx == Rank[x.source]
           ry == Rank[y.source]
           sx == x.score
           sy == y.score
<1>1. /\ cx \in Nat /\ rx \in 1..4 /\ sx \in 4..13 /\ Weight(x) = 100 * cx + 10 * rx + sx
      /\ cy \in Nat /\ ry \in 1..4 /\ sy \in 4..13 /\ Weight(y) = 100 * cy + 10 * ry + sy
  BY Weights
<1>2. /\ Outranks(x, y) <=> cx > cy \/ (cx = cy /\ (rx > ry \/ (rx = ry /\ sx > sy)))
      /\ EqualAuthority(x, y) <=> cx = cy /\ rx = ry /\ sx = sy
  BY DEF Outranks, EqualAuthority
<1> HIDE DEF cx, cy, rx, ry, sx, sy
<1>3. CASE cx = cy
  BY <1>1, <1>2, <1>3
<1>4. CASE cx > cy
  BY <1>1, <1>2, <1>4
<1>5. CASE cx < cy
  BY <1>1, <1>2, <1>5
<1> QED BY <1>1, <1>3, <1>4, <1>5

(* A profile that was loaded names a control once.                         *)
LEMMA NamedOnce ==
  ASSUME NEW r \in GoodProfiles, NEW i \in DOMAIN r.controls, NEW j \in DOMAIN r.controls,
         r.controls[i].id = r.controls[j].id
  PROVE  i = j
<1> DEFINE faults == [k \in DOMAIN r.controls |-> FaultOfControl(r, k, "LOCAL")]
<1>1. DOMAIN r.controls \subseteq Nat \ {0} /\ ProfileFault(r, "LOCAL") = "OK"
  BY GivenTexts DEF GoodProfiles
<1>2. FirstFault(faults) = "OK" /\ DOMAIN faults = DOMAIN r.controls
  BY <1>1 DEF ProfileFault
<1>3. \A k \in DOMAIN r.controls : faults[k] = "OK"
  <2> HIDE DEF faults
  <2> QED BY <1>1, <1>2, FirstFaultIs
<1>4. \A k \in DOMAIN r.controls : FaultOfControl(r, k, "LOCAL") = "OK"
  BY <1>3
<1>5. \A k \in DOMAIN r.controls : ~ \E l \in 1..k-1 : r.controls[l].id = r.controls[k].id
  BY <1>4 DEF FaultOfControl
<1>6. i \in Nat \ {0} /\ j \in Nat \ {0}
  BY <1>1
<1>7. CASE i < j
  BY <1>5, <1>6, <1>7
<1>8. CASE j < i
  BY <1>5, <1>6, <1>8
<1> QED BY <1>6, <1>7, <1>8

LEMMA CandidateIsWeighed ==
  ASSUME NEW held \in Records, NEW j \in DOMAIN held.profile.controls
  PROVE  Candidate(held, j) \in Weighed /\ held.profile.controls[j].id \in ControlIds
<1>1. held.profile \in Profiles /\ held.source \in Sources
  BY DEF Records, GoodProfiles
<1>2. held.profile.controls[j] \in Controls
  BY <1>1 DEF Controls
<1>3. Score(held.profile.identity) \in 4..13
  <2> DEFINE said == {k \in Predicates : held.profile.identity.optional[k] # None}
  <2>1. Cardinality(said) \in Nat /\ Cardinality(said) <= Cardinality(Predicates)
    BY PredicateAssumption, FS_Subset, FS_CardinalityType
  <2>2. Cardinality(Predicates) \in Nat
    BY PredicateAssumption, FS_CardinalityType
  <2> QED BY <2>1, <2>2, PredicateAssumption DEF Score
<1> QED BY <1>1, <1>2, <1>3, ControlAssumption DEF Candidate, Weighed

(* What a profile offers for a control is nothing, or the one control that *)
(* Compose puts in its place.                                              *)
LEMMA OfferedIs ==
  ASSUME NEW held \in Records, NEW a, NEW c
  PROVE  /\ c \in Named(held) => Offer(held, c) \in Weighed /\ c \in ControlIds
         /\ Offered(held, a, c) =
              IF Matches(held.profile.identity, a) /\ c \in Named(held)
              THEN {Offer(held, c)} ELSE {}
<1> DEFINE js == {k \in DOMAIN held.profile.controls : held.profile.controls[k].id = c}
<1>0. held.profile \in GoodProfiles
  BY DEF Records
<1>1. CASE c \in Named(held)
  <2> DEFINE j == CHOOSE k \in DOMAIN held.profile.controls :
                    held.profile.controls[k].id = c
  <2>1. j \in DOMAIN held.profile.controls /\ held.profile.controls[j].id = c
    BY <1>1 DEF Named
  <2>2. Offer(held, c) = Candidate(held, j)
    BY DEF Offer
  <2> HIDE DEF j
  <2>3. js = {j}
    BY <1>0, <2>1, NamedOnce
  <2>4. Offer(held, c) \in Weighed /\ c \in ControlIds
    BY <2>1, <2>2, CandidateIsWeighed
  <2>5. {Candidate(held, k) : k \in js} = {Offer(held, c)}
    BY <2>2, <2>3
  <2> QED BY <1>1, <2>4, <2>5 DEF Offered
<1>2. CASE c \notin Named(held)
  <2>1. js = {}
    BY <1>2 DEF Named
  <2> QED BY <1>2, <2>1 DEF Offered
<1> QED BY <1>1, <1>2

(* What is in effect after some profiles, beside all that they offered.    *)
BestOf(b, S) ==
  IF b = None THEN S = {}
  ELSE /\ b \in S
       /\ \A o \in S : /\ Weight(o) <= Weight(b)
                       /\ Weight(o) = Weight(b) => EqualControl(o, b)

Disagree(S) == \E o, q \in S : Weight(o) = Weight(q) /\ ~EqualControl(o, q)

Collected(helds, n, a, c) == UNION {Offered(helds[i], a, c) : i \in 1..n}

Progress == [error : {"OK", "PROFILE_CONFLICT"}, controls : [ControlIds -> Weighed \cup {None}]]

ComposedOK(f, helds, n, a) ==
  /\ f \in Progress
  /\ f.error = "OK" =>
       \A c \in ControlIds : BestOf(f.controls[c], Collected(helds, n, a, c))
  /\ f.error = "PROFILE_CONFLICT" =>
       \E c \in ControlIds : Disagree(Collected(helds, n, a, c))

LEMMA OneMoreOffer ==
  ASSUME NEW S \in SUBSET Weighed, NEW b \in Weighed \cup {None}, BestOf(b, S),
         NEW o \in Weighed,
         b # None /\ EqualAuthority(o, b) => EqualControl(o, b)
  PROVE  BestOf(IF b = None \/ Outranks(o, b) THEN o ELSE b, S \cup {o})
<1>0. o # None /\ Weight(o) \in Nat /\ \A q \in S : Weight(q) \in Nat
  BY Weights
<1>1. CASE b = None
  BY <1>0, <1>1 DEF BestOf, EqualControl
<1>2. CASE b # None
  <2>1. b \in S /\ Weight(b) \in Nat
    BY <1>0, <1>2 DEF BestOf
  <2>2. /\ Outranks(o, b) <=> Weight(o) > Weight(b)
        /\ EqualAuthority(o, b) <=> Weight(o) = Weight(b)
    BY <1>2, OutranksIsHeavier
  <2>3. CASE Outranks(o, b)
    <3>1. \A q \in S : Weight(q) < Weight(o)
      BY <1>0, <1>2, <2>1, <2>2, <2>3 DEF BestOf
    <3>2. \A q \in S \cup {o} : Weight(q) <= Weight(o) /\ (Weight(q) = Weight(o) => q = o)
      BY <1>0, <3>1
    <3>3. EqualControl(o, o)
      BY DEF EqualControl
    <3>4. BestOf(o, S \cup {o})
      BY <1>0, <3>2, <3>3 DEF BestOf
    <3> QED BY <2>3, <3>4
  <2>4. CASE ~Outranks(o, b)
    <3>1. Weight(o) <= Weight(b)
      BY <1>0, <2>1, <2>2, <2>4
    <3>2. Weight(o) = Weight(b) => EqualControl(o, b)
      BY <1>2, <2>2
    <3>3. BestOf(b, S \cup {o})
      BY <1>2, <3>1, <3>2 DEF BestOf
    <3> QED BY <1>2, <2>4, <3>3
  <2> QED BY <2>3, <2>4
<1> QED BY <1>1, <1>2

LEMMA CollectedGrows ==
  ASSUME NEW helds \in Seq(Records), NEW n \in 1..Len(helds), NEW a, NEW c
  PROVE  /\ Collected(helds, n, a, c) =
              Collected(helds, n - 1, a, c) \cup Offered(helds[n], a, c)
         /\ Collected(helds, n - 1, a, c) \subseteq Weighed
         /\ helds[n] \in Records
<1>1. \A i \in 1..Len(helds) : helds[i] \in Records
  OBVIOUS
<1>2. \A i \in 1..n-1 : i \in 1..Len(helds)
  OBVIOUS
<1>3. \A i \in 1..n-1 : Offered(helds[i], a, c) \subseteq Weighed
  BY <1>1, <1>2, OfferedIs
<1>4. 1..n = 1..n-1 \cup {n}
  OBVIOUS
<1> QED BY <1>1, <1>3, <1>4 DEF Collected

LEMMA ComposeStep ==
  ASSUME NEW helds \in Seq(Records), NEW n \in 1..Len(helds), NEW a, NEW f,
         ComposedOK(f, helds, n - 1, a)
  PROVE  ComposedOK(Compose(f, helds[n], a), helds, n, a)
<1> DEFINE held == helds[n]
           Old(c) == Collected(helds, n - 1, a, c)
           New(c) == Collected(helds, n, a, c)
           g == Compose(f, held, a)
<1>0. held \in Records /\ f \in Progress
  BY CollectedGrows DEF ComposedOK
<1>1. \A c : New(c) = Old(c) \cup Offered(held, a, c) /\ Old(c) \subseteq Weighed
  BY CollectedGrows
<1>2. \A c : /\ c \in Named(held) => Offer(held, c) \in Weighed /\ c \in ControlIds
             /\ Offered(held, a, c) = IF Matches(held.profile.identity, a) /\ c \in Named(held)
                                      THEN {Offer(held, c)} ELSE {}
  BY <1>0, OfferedIs
<1>3. /\ f.error = "OK" => \A c \in ControlIds : BestOf(f.controls[c], Old(c))
      /\ f.error = "PROFILE_CONFLICT" => \E c \in ControlIds : Disagree(Old(c))
      /\ f.error \in {"OK", "PROFILE_CONFLICT"}
      /\ f.controls \in [ControlIds -> Weighed \cup {None}]
      /\ f = [error |-> f.error, controls |-> f.controls]
  BY <1>0 DEF ComposedOK, Progress
<1>4. SUFFICES /\ g \in Progress
               /\ g.error = "OK" => \A c \in ControlIds : BestOf(g.controls[c], New(c))
               /\ g.error = "PROFILE_CONFLICT" => \E c \in ControlIds : Disagree(New(c))
  BY DEF ComposedOK
<1> HIDE DEF held, Old, New, g
<1>5. CASE f.error # "OK"
  <2>1. g = f
    BY <1>5 DEF g, Compose
  <2>2. \E c \in ControlIds : Disagree(New(c))
    BY <1>1, <1>3, <1>5 DEF Disagree
  <2> QED BY <1>0, <1>3, <1>5, <2>1, <2>2
<1>6. CASE f.error = "OK" /\ ~Matches(held.profile.identity, a)
  <2>1. g = f
    BY <1>6 DEF g, Compose
  <2>2. \A c : New(c) = Old(c)
    BY <1>1, <1>2, <1>6
  <2> QED BY <1>0, <1>3, <1>6, <2>1, <2>2
<1>7. CASE f.error = "OK" /\ Matches(held.profile.identity, a) /\ Clash(f, held)
  <2>1. g = [f EXCEPT !.error = "PROFILE_CONFLICT"]
    BY <1>7 DEF g, Compose
  <2>2. g \in Progress /\ g.error = "PROFILE_CONFLICT"
    BY <1>0, <2>1 DEF Progress
  <2>3. PICK c \in Named(held) : /\ f.controls[c] # None
                                 /\ EqualAuthority(Offer(held, c), f.controls[c])
                                 /\ ~EqualControl(Offer(held, c), f.controls[c])
    BY <1>7 DEF Clash
  <2>4. c \in ControlIds /\ Offer(held, c) \in Weighed /\ f.controls[c] \in Weighed
    BY <1>2, <1>3, <2>3
  <2>5. f.controls[c] \in Old(c)
    BY <1>3, <1>7, <2>3, <2>4 DEF BestOf
  <2>6. f.controls[c] \in New(c) /\ Offer(held, c) \in New(c)
    BY <1>1, <1>2, <1>7, <2>3, <2>5
  <2>7. Weight(Offer(held, c)) = Weight(f.controls[c])
    BY <2>3, <2>4, OutranksIsHeavier
  <2>8. Disagree(New(c))
    BY <2>3, <2>6, <2>7 DEF Disagree
  <2> QED BY <2>2, <2>4, <2>8
<1>8. CASE f.error = "OK" /\ Matches(held.profile.identity, a) /\ ~Clash(f, held)
  <2> DEFINE after == [c \in ControlIds |->
               IF c \in Named(held) /\ (f.controls[c] = None \/ Outranks(Offer(held, c), f.controls[c]))
               THEN Offer(held, c) ELSE f.controls[c]]
  <2>1. g = [f EXCEPT !.controls = after]
    BY <1>8 DEF g, Compose
  <2>2. after \in [ControlIds -> Weighed \cup {None}]
    BY <1>2, <1>3
  <2>3. ASSUME NEW c \in ControlIds PROVE BestOf(after[c], New(c))
    <3>1. f.controls[c] \in Weighed \cup {None} /\ BestOf(f.controls[c], Old(c))
          /\ Old(c) \in SUBSET Weighed
      BY <1>1, <1>3, <1>8
    <3>2. CASE c \in Named(held)
      <4>1. Offer(held, c) \in Weighed /\ New(c) = Old(c) \cup {Offer(held, c)}
        BY <1>1, <1>2, <1>8, <3>2
      <4>2. f.controls[c] # None /\ EqualAuthority(Offer(held, c), f.controls[c])
              => EqualControl(Offer(held, c), f.controls[c])
        BY <1>8, <3>2 DEF Clash
      <4>3. after[c] = IF f.controls[c] = None \/ Outranks(Offer(held, c), f.controls[c])
                       THEN Offer(held, c) ELSE f.controls[c]
        BY <3>2
      <4> HIDE DEF after
      <4> QED BY <3>1, <4>1, <4>2, <4>3, OneMoreOffer
    <3>3. CASE c \notin Named(held)
      BY <1>1, <1>2, <3>1, <3>3
    <3> QED BY <3>2, <3>3
  <2> HIDE DEF after
  <2>4. g = [error |-> "OK", controls |-> after]
    BY <1>3, <1>8, <2>1
  <2> QED BY <2>2, <2>3, <2>4 DEF Progress
<1> QED BY <1>3, <1>5, <1>6, <1>7, <1>8

(* The induction over a store, again by a least place where it fails.      *)
LEMMA WalkOK ==
  ASSUME NEW helds \in Seq(Records), NEW a
  PROVE  ComposedOK(Walk(helds, a)[Len(helds)], helds, Len(helds), a)
<1> DEFINE OK(n) == ComposedOK(Walk(helds, a)[n], helds, n, a)
           bad == {n \in 0..Len(helds) : ~OK(n)}
<1>0. Len(helds) \in Nat
  OBVIOUS
<1>1. OK(0)
  <2>1. Walk(helds, a)[0] = NothingFound
    BY <1>0, WalkSteps
  <2>2. NothingFound \in Progress /\ NothingFound.error = "OK"
        /\ \A c \in ControlIds : NothingFound.controls[c] = None
    BY DEF NothingFound, Progress
  <2>3. \A c : Collected(helds, 0, a, c) = {}
    BY DEF Collected
  <2>4. ComposedOK(NothingFound, helds, 0, a)
    BY <2>2, <2>3 DEF ComposedOK, BestOf
  <2> QED BY <2>1, <2>4
<1>2. bad = {}
  <2> SUFFICES ASSUME bad # {} PROVE FALSE
    OBVIOUS
  <2> DEFINE n == Least(bad)
  <2>1. n \in bad /\ \A k \in bad : n <= k
    <3> HIDE DEF bad
    <3>1. bad \in SUBSET Nat
      BY DEF bad
    <3> QED BY <3>1, LeastIsLeast
  <2> HIDE DEF n
  <2>2. n \in 0..Len(helds) /\ ~OK(n)
    BY <2>1
  <2> HIDE DEF OK
  <2>3. n \in 1..Len(helds) /\ n - 1 \in 0..Len(helds)
    BY <1>0, <1>1, <2>2
  <2>4. OK(n - 1)
    BY <2>1, <2>3
  <2>5. Walk(helds, a)[n] = Compose(Walk(helds, a)[n-1], helds[n], a)
    BY <1>0, <2>3, WalkSteps
  <2>6. OK(n)
    BY <2>3, <2>4, <2>5, ComposeStep DEF OK
  <2> QED BY <2>2, <2>6
<1>3. Len(helds) \in 0..Len(helds)
  BY <1>0
<1> HIDE DEF OK
<1>4. OK(Len(helds))
  BY <1>2, <1>3
<1> QED BY <1>4 DEF OK

LEMMA WholeResolves == Whole => ResolutionIsMostTrusted
<1>1. ASSUME Whole, NEW p \in Procs, NEW a \in Displays
      PROVE  LET r == Resolution(store[p], a)
                 All(c) == UNION {Offered(store[p][i], a, c) : i \in DOMAIN store[p]}
             IN  /\ r.error = "OK" => \A c \in ControlIds :
                      IF r.controls[c] = None THEN All(c) = {}
                      ELSE /\ r.controls[c] \in All(c)
                           /\ \A o \in All(c) :
                                /\ Weight(o) <= Weight(r.controls[c])
                                /\ Weight(o) = Weight(r.controls[c]) =>
                                     EqualControl(o, r.controls[c])
                 /\ r.error = "PROFILE_CONFLICT" =>
                      \E c \in ControlIds : \E o, q \in All(c) :
                        Weight(o) = Weight(q) /\ ~EqualControl(o, q)
                 /\ r.error = "NOT_FOUND" <=> \A c \in ControlIds : All(c) = {}
  <2> DEFINE helds == store[p]
             r == Resolution(helds, a)
             f == Walk(helds, a)[Len(helds)]
             All(c) == UNION {Offered(helds[i], a, c) : i \in DOMAIN helds}
  <2>1. helds \in Seq(Records)
    BY <1>1 DEF Whole, StoresOK
  <2>2. \A c : All(c) = Collected(helds, Len(helds), a, c)
    <3> HIDE DEF helds
    <3>1. DOMAIN helds = 1..Len(helds)
      BY <2>1
    <3> QED BY <3>1 DEF Collected
  <2>3. ComposedOK(f, helds, Len(helds), a)
    BY <2>1, WalkOK
  <2>4. r = IF f = NothingFound THEN [f EXCEPT !.error = "NOT_FOUND"] ELSE f
    BY DEF Resolution
  <2> HIDE DEF helds, r, f, All
  <2>5. /\ f \in Progress
        /\ f.error = "OK" => \A c \in ControlIds : BestOf(f.controls[c], All(c))
        /\ f.error = "PROFILE_CONFLICT" => \E c \in ControlIds : Disagree(All(c))
    BY <2>2, <2>3 DEF ComposedOK
  <2>6. CASE f = NothingFound
    <3>1. f.error = "OK" /\ \A c \in ControlIds : f.controls[c] = None
      BY <2>6 DEF NothingFound
    <3>2. r.error = "NOT_FOUND"
      BY <2>4, <2>5, <2>6 DEF Progress
    <3>3. \A c \in ControlIds : All(c) = {}
      BY <2>5, <3>1 DEF BestOf
    <3> QED BY <3>2, <3>3 DEF r, All, helds
  <2>7. CASE f # NothingFound
    <3>1. r = f /\ r.error \in {"OK", "PROFILE_CONFLICT"}
      BY <2>4, <2>5, <2>7 DEF Progress
    <3>2. ~ \A c \in ControlIds : All(c) = {}
      <4> SUFFICES ASSUME \A c \in ControlIds : All(c) = {} PROVE FALSE
        OBVIOUS
      <4>1. f.error = "OK"
        BY <2>5, <3>1 DEF Disagree
      <4>2. \A c \in ControlIds : f.controls[c] = None
        BY <2>5, <4>1 DEF BestOf
      <4>3. f.controls = [c \in ControlIds |-> None]
        BY <2>5, <4>2 DEF Progress
      <4>4. f = [error |-> "OK", controls |-> f.controls]
        BY <2>5, <4>1 DEF Progress
      <4> QED BY <2>7, <4>3, <4>4 DEF NothingFound
    <3>3. r.error = "OK" => \A c \in ControlIds : BestOf(r.controls[c], All(c))
      BY <2>5, <3>1
    <3>4. r.error = "PROFILE_CONFLICT" => \E c \in ControlIds : Disagree(All(c))
      BY <2>5, <3>1
    <3> QED BY <3>1, <3>2, <3>3, <3>4 DEF BestOf, Disagree, r, All, helds
  <2> QED BY <2>6, <2>7
<1> QED BY <1>1 DEF ResolutionIsMostTrusted

(* What a program is told of a display, for every store that can come to   *)
(* be: the control in effect is offered and none offered outweighs it,     *)
(* nothing of its weight says otherwise, a conflict is real, and nothing   *)
(* found means nothing offered.                                            *)
THEOREM ResolutionTrusts == Spec => []ResolutionIsMostTrusted
<1> QED BY WholeResolves, WholeInit, WholeStep, PTL DEF Spec
-----------------------------------------------------------------------------
(* Where the right to write comes from. *)

WritableOf(r) ==
  {<<r.identity, r.controls[j]>> : j \in {k \in DOMAIN r.controls : r.controls[k].writable}}

LEMMA WritableIs ==
  ASSUME NEW d
  PROVE  Writable(d) = UNION {WritableOf(d.profiles[i]) : i \in DOMAIN d.profiles}
  BY DEF Writable, WritableOf

(* What a store holds, what was to be saved and what the disk may hold: a  *)
(* control that can be written came from a pack that may grant it.         *)
GrantedOK ==
  /\ \A p \in Procs : \A i \in DOMAIN store[p] : WritableOf(store[p][i].profile) \subseteq granted
  /\ \A text \in exported : Writable(text) \subseteq granted
  /\ \A c \in {file} \cup older : c # None => Writable(c.text) \subseteq granted

(* A research pack that is taken has nothing to write. *)
LEMMA ResearchGrantsNothing ==
  ASSUME NEW d \in Texts, PackFault(d, "RESEARCH") = "OK",
         \A r \in Profiles : DOMAIN r.controls \subseteq Nat
  PROVE  Writable(d) = {}
<1> DEFINE faults == [i \in DOMAIN d.profiles |-> FaultOfProfile(d, i, "RESEARCH")]
<1>1. d.profiles \in Seq(Profiles)
  BY DEF Texts
<1>2. DOMAIN faults \subseteq Nat /\ DOMAIN faults = DOMAIN d.profiles
  BY <1>1
<1>3. FirstFault(faults) = "OK"
  BY DEF PackFault
<1>4. \A i \in DOMAIN d.profiles : faults[i] = "OK"
  <2> HIDE DEF faults
  <2> QED BY <1>2, <1>3, FirstFaultIs
<1>5. ASSUME NEW i \in DOMAIN d.profiles PROVE WritableOf(d.profiles[i]) = {}
  <2> DEFINE r == d.profiles[i]
             wrong == [j \in DOMAIN r.controls |-> FaultOfControl(r, j, "RESEARCH")]
  <2>1. ProfileFault(r, "RESEARCH") = "OK"
    BY <1>4 DEF FaultOfProfile
  <2>2. DOMAIN wrong = DOMAIN r.controls /\ DOMAIN wrong \subseteq Nat
    BY <1>1
  <2>3. FirstFault(wrong) = "OK"
    BY <2>1 DEF ProfileFault
  <2>4. \A j \in DOMAIN r.controls : wrong[j] = "OK"
    <3> HIDE DEF wrong, r
    <3> QED BY <2>2, <2>3, FirstFaultIs
  <2>5. \A j \in DOMAIN r.controls : ControlFault(r.controls[j], "RESEARCH") = "OK"
    BY <2>4 DEF FaultOfControl
  <2>6. \A j \in DOMAIN r.controls : ~r.controls[j].writable
    BY <2>5 DEF ControlFault
  <2> QED BY <2>6 DEF WritableOf
<1> QED BY <1>5, WritableIs

LEMMA GrantedTakes ==
  ASSUME Whole, GrantedOK, NEW p \in Procs, NEW d \in Texts, NEW source, NEW s \in Loadable,
         Taken(p, d, s, source), granted \subseteq granted', Writable(d) \subseteq granted'
  PROVE  \A q \in Procs : \A i \in DOMAIN store'[q] :
           WritableOf(store'[q][i].profile) \subseteq granted'
<1> DEFINE held == store[p]
           more == AsLoaded(d, source)
<1>1. held \in Seq(Records) /\ d.profiles \in Seq(GoodProfiles)
  BY PackParsed DEF Whole, StoresOK, Taken
<1>2. Len(more) = Len(d.profiles) /\ DOMAIN more = 1..Len(d.profiles)
      /\ \A i \in 1..Len(d.profiles) : more[i].profile = d.profiles[i]
  <2>1. Len(d.profiles) \in Nat
    BY <1>1
  <2> QED BY <2>1 DEF AsLoaded
<1>3. \A i \in DOMAIN held : WritableOf(held[i].profile) \subseteq granted'
  BY DEF GrantedOK
<1>4. \A i \in 1..Len(d.profiles) : WritableOf(d.profiles[i]) \subseteq granted'
  BY <1>1, WritableIs
<1>5. store' = [store EXCEPT ![p] = held \o more] /\ DOMAIN store = Procs
  BY DEF Taken, Whole, StoresOK
<1> HIDE DEF held, more
<1>6. ASSUME NEW i \in DOMAIN (held \o more)
      PROVE  WritableOf((held \o more)[i].profile) \subseteq granted'
  <2>1. Len(held) \in Nat /\ Len(d.profiles) \in Nat /\ DOMAIN held = 1..Len(held)
    BY <1>1
  <2>2. i \in 1..(Len(held) + Len(d.profiles))
        /\ (held \o more)[i] = IF i <= Len(held) THEN held[i] ELSE more[i - Len(held)]
    BY <1>2, <1>6
  <2>3. CASE i <= Len(held)
    <3>1. i \in DOMAIN held
      BY <2>1, <2>2, <2>3
    <3> QED BY <1>3, <2>2, <2>3, <3>1
  <2>4. CASE ~(i <= Len(held))
    <3>1. i - Len(held) \in 1..Len(d.profiles)
      BY <2>1, <2>2, <2>4
    <3> QED BY <1>2, <1>4, <2>2, <2>4, <3>1
  <2> QED BY <2>3, <2>4
<1>7. \A q \in Procs \ {p} : store'[q] = store[q]
  BY <1>5
<1>8. \A q \in Procs \ {p} : \A i \in DOMAIN store'[q] :
        WritableOf(store'[q][i].profile) \subseteq granted'
  BY <1>7 DEF GrantedOK
<1> QED BY <1>5, <1>6, <1>8

LEMMA GrantedInit == Init => GrantedOK
<1> SUFFICES ASSUME Init PROVE GrantedOK
  OBVIOUS
<1>1. \A p \in Procs : DOMAIN store[p] = {}
  BY DEF Init
<1>2. exported = {} /\ older = {} /\ (file # None => Writable(file.text) \subseteq granted)
  BY DEF Init
<1> QED BY <1>1, <1>2 DEF GrantedOK

LEMMA GrantedStep == Whole /\ GrantedOK /\ [Next]_vars => GrantedOK'
<1> SUFFICES ASSUME Whole, GrantedOK, [Next]_vars PROVE GrantedOK'
  OBVIOUS
<1>0. Loadable \subseteq Sources /\ "BUILTIN" \in Sources /\ "VALIDATED_PACK" \in Loadable
      /\ Given \subseteq Texts /\ \A r \in Profiles : DOMAIN r.controls \subseteq Nat
  BY GivenTexts DEF Sources, Loadable
<1>1. ASSUME UNCHANGED <<store, exported, granted, file>>, older' \subseteq older
      PROVE  GrantedOK'
  BY <1>1 DEF GrantedOK
<1>2. ASSUME NEW p \in Procs, NEW d \in Texts, NEW s \in Loadable, NEW source,
             Taken(p, d, s, source), granted \subseteq granted', Writable(d) \subseteq granted',
             UNCHANGED <<exported, file, older>>
      PROVE  GrantedOK'
  <2>1. \A q \in Procs : \A i \in DOMAIN store'[q] :
           WritableOf(store'[q][i].profile) \subseteq granted'
    BY <1>2, GrantedTakes
  <2> QED BY <1>2, <2>1 DEF GrantedOK
<1>3. ASSUME NEW p \in Procs, NEW d \in Packs, NEW source \in Loadable, LoadData(p, d, source)
      PROVE  GrantedOK'
  <2>1. UNCHANGED <<exported, file, older>> /\ d \in Texts
    BY <1>0, <1>3 DEF LoadData, Unsaved, disk, Given
  <2>2. CASE Refused(p, d, source) /\ UNCHANGED granted
    BY <1>1, <2>1, <2>2 DEF Refused
  <2>3. CASE /\ Taken(p, d, source, source)
             /\ granted' = IF source = "RESEARCH" THEN granted ELSE granted \cup Writable(d)
    <3>1. source = "RESEARCH" => Writable(d) = {}
      BY <1>0, <2>1, <2>3, ResearchGrantsNothing DEF Taken
    <3>2. granted \subseteq granted' /\ Writable(d) \subseteq granted'
      BY <2>3, <3>1
    <3> QED BY <1>2, <2>1, <2>3, <3>2
  <2> QED BY <1>3, <2>2, <2>3 DEF LoadData
<1>4. ASSUME NEW p \in Procs, LoadBuiltin(p) PROVE GrantedOK'
  <2>1. UNCHANGED <<exported, file, older>> /\ BuiltinPack \in Texts
    BY <1>0, <1>4 DEF LoadBuiltin, Unsaved, disk, Given
  <2>2. CASE Refused(p, BuiltinPack, "VALIDATED_PACK") /\ UNCHANGED granted
    BY <1>1, <2>1, <2>2 DEF Refused
  <2>3. CASE /\ Taken(p, BuiltinPack, "VALIDATED_PACK", "BUILTIN")
             /\ granted' = granted \cup Writable(BuiltinPack)
    BY <1>0, <1>2, <2>1, <2>3
  <2> QED BY <1>4, <2>2, <2>3 DEF LoadBuiltin
<1>5. ASSUME NEW p \in Procs, NEW source \in Loadable, LoadFile(p, source) PROVE GrantedOK'
  <2>1. UNCHANGED <<exported, file, older, granted>>
    BY <1>5 DEF LoadFile, Unsaved, disk
  <2>2. CASE UNCHANGED store
    BY <1>1, <2>1, <2>2
  <2>3. CASE ~UNCHANGED store
    <3>1. file # None /\ Taken(p, file.text, source, source)
      BY <1>5, <2>3 DEF LoadFile, Refused
    <3>2. file.text \in exported \cup (FirstFiles \ {None})
      BY <3>1 DEF Whole, SavesOK, DiskOK, Kept
    <3>3. file.text \in Texts
      BY <1>0, <3>2 DEF Whole, StoresOK, Reloadable, Given
    <3>4. Writable(file.text) \subseteq granted
      BY <3>1 DEF GrantedOK
    <3> QED BY <1>2, <2>1, <3>1, <3>3, <3>4
  <2> QED BY <2>2, <2>3
<1>6. ASSUME NEW p \in Procs, BeginSave(p) PROVE GrantedOK'
  <2>1. exported' \subseteq exported \cup {Export(store[p])}
        /\ UNCHANGED <<store, file, older, granted>>
    BY <1>6 DEF BeginSave, disk
  <2>2. Writable(Export(store[p])) \subseteq granted
    <3>1. DOMAIN Export(store[p]).profiles = DOMAIN store[p]
          /\ \A i \in DOMAIN store[p] : Export(store[p]).profiles[i] = store[p][i].profile
      BY DEF Export
    <3> QED BY <3>1, WritableIs DEF GrantedOK
  <2> QED BY <2>1, <2>2 DEF GrantedOK
<1>7. ASSUME NEW p \in Procs, NEW code, EndSave(p, code)
      PROVE  UNCHANGED <<store, exported, granted>>
  BY <1>7 DEF EndSave, SaveStep, history
<1>8. ASSUME NEW p \in Procs, NEW step, StepOn(p, step) PROVE GrantedOK'
  BY <1>1, <1>8 DEF StepOn, SaveStep, history, disk
<1>9. ASSUME NEW p \in Procs, Open(p) \/ Write(p) \/ Sync(p) \/ Close(p) \/ Unlink(p)
      PROVE  GrantedOK'
  BY <1>1, <1>7, <1>8, <1>9 DEF Open, Write, Sync, Close, Unlink, disk
<1>10. ASSUME NEW p \in Procs, Rename(p) PROVE GrantedOK'
  <2>1. CASE StepOn(p, "unlink")
    BY <1>8, <2>1
  <2>2. CASE file' = temp[p] /\ older' = older \cup {file} /\ EndSave(p, "OK")
    <3>1. temp[p].text \in exported
      BY <1>10 DEF Rename, Whole, SavesOK, TemporaryOK, Steps, Temporaries
    <3>2. Writable(file'.text) \subseteq granted
      BY <2>2, <3>1 DEF GrantedOK
    <3> QED BY <1>7, <2>2, <3>2 DEF GrantedOK
  <2> QED BY <1>10, <2>1, <2>2 DEF Rename
<1>11. ASSUME NEW P, Restart(P), {file'} \cup older' \subseteq {file} \cup older
       PROVE  GrantedOK'
  <2>1. UNCHANGED <<exported, granted>>
    BY <1>11 DEF Restart, history
  <2>2. \A p \in Procs : store'[p] = <<>> \/ store'[p] = store[p]
    BY <1>11 DEF Restart
  <2>3. \A p \in Procs : \A i \in DOMAIN store'[p] : WritableOf(store'[p][i].profile) \subseteq granted
    BY <2>2 DEF GrantedOK
  <2> QED BY <1>11, <2>1, <2>3 DEF GrantedOK
<1>12. ASSUME NEW p \in Procs, Die(p) PROVE GrantedOK'
  BY <1>11, <1>12 DEF Die, disk
<1>13. CASE PowerFails
  <2>1. PICK c \in {file} \cup older : file' \in Surviving(c)
    BY <1>13 DEF PowerFails
  <2>2. file' = c
    BY <2>1 DEF Surviving, Whole, SavesOK, DiskOK, Kept
  <2> QED BY <1>11, <1>13, <2>2 DEF PowerFails
<1>14. CASE Flush \/ UNCHANGED vars
  BY <1>1, <1>14 DEF Flush, vars, process, disk, history
<1> QED BY <1>3, <1>4, <1>5, <1>6, <1>9, <1>10, <1>12, <1>13, <1>14 DEF Next

(* Whatever is loaded, saved and loaded again, in whatever order and by    *)
(* however many processes: a write is authorized only of a control that a  *)
(* pack other than a research pack brought in as writable, for an identity *)
(* that the display matches.                                               *)
THEOREM WritesAreValidated == Spec => []WriteNeedsValidation
<1>1. ASSUME Whole, GrantedOK, NEW p \in Procs, NEW a \in Displays, NEW c \in ControlIds,
             LET r == Resolution(store[p], a)
             IN  r.error = "OK" /\ r.controls[c] # None /\ WriteAuthorized(r.controls[c])
      PROVE  LET r == Resolution(store[p], a)
             IN  \E g \in granted : Matches(g[1], a) /\ g[2] = r.controls[c].control
  <2> DEFINE r == Resolution(store[p], a)
             All == UNION {Offered(store[p][i], a, c) : i \in DOMAIN store[p]}
  <2>1. r.controls[c] \in All
    BY <1>1, WholeResolves DEF ResolutionIsMostTrusted
  <2>2. PICK i \in DOMAIN store[p] : r.controls[c] \in Offered(store[p][i], a, c)
    BY <2>1
  <2> DEFINE held == store[p][i]
  <2>3. Matches(held.profile.identity, a)
        /\ \E k \in DOMAIN held.profile.controls : r.controls[c] = Candidate(held, k)
    BY <2>2 DEF Offered
  <2>4. PICK k \in DOMAIN held.profile.controls : r.controls[c] = Candidate(held, k)
    BY <2>3
  <2> DEFINE g == <<held.profile.identity, held.profile.controls[k]>>
  <2>5. r.controls[c].control = held.profile.controls[k]
    BY <2>4 DEF Candidate
  <2>6. held.profile.controls[k].writable
    BY <1>1, <2>5 DEF WriteAuthorized
  <2>7. g \in WritableOf(held.profile)
    BY <2>6 DEF WritableOf
  <2>8. g \in granted
    BY <1>1, <2>7 DEF GrantedOK
  <2>9. g[1] = held.profile.identity /\ g[2] = held.profile.controls[k]
    OBVIOUS
  <2> QED BY <2>3, <2>5, <2>8, <2>9
<1>2. Whole /\ GrantedOK => WriteNeedsValidation
  BY <1>1 DEF WriteNeedsValidation
<1> QED BY <1>2, WholeInit, WholeStep, GrantedInit, GrantedStep, PTL DEF Spec
-----------------------------------------------------------------------------
(* What the variables hold. *)

LEMMA FaultIsCode ==
  ASSUME NEW d \in Texts, NEW s, \A r \in Profiles : DOMAIN r.controls \subseteq Nat
  PROVE  PackFault(d, s) \in Codes
<1>1. ASSUME NEW faults, DOMAIN faults \subseteq Nat, \A i \in DOMAIN faults : faults[i] \in Codes
      PROVE  FirstFault(faults) \in Codes
  BY <1>1, FirstFaultIs DEF Codes
<1>2. d.profiles \in Seq(Profiles)
  BY DEF Texts
<1>3. ASSUME NEW i \in DOMAIN d.profiles PROVE FaultOfProfile(d, i, s) \in Codes
  <2> DEFINE r == d.profiles[i]
             wrong == [j \in DOMAIN r.controls |-> FaultOfControl(r, j, s)]
  <2>1. DOMAIN r.controls \subseteq Nat
    BY <1>2
  <2>2. \A q : ControlFault(q, s) \in Codes
    BY DEF ControlFault, Codes
  <2>3. \A j \in DOMAIN r.controls : FaultOfControl(r, j, s) \in Codes
    <3> SUFFICES ASSUME NEW j \in DOMAIN r.controls PROVE FaultOfControl(r, j, s) \in Codes
      OBVIOUS
    <3>1. ControlFault(r.controls[j], s) \in Codes
      BY <2>2
    <3> HIDE DEF r
    <3> QED BY <3>1 DEF FaultOfControl, Codes
  <2>4. FirstFault(wrong) \in Codes
    <3>1. DOMAIN wrong = DOMAIN r.controls /\ \A j \in DOMAIN wrong : wrong[j] \in Codes
      BY <2>3
    <3> HIDE DEF wrong
    <3> QED BY <1>1, <2>1, <3>1
  <2>5. ProfileFault(r, s) \in Codes
    <3>1. ProfileFault(r, s) = IF r.controls = <<>> THEN "PROFILE_MALFORMED" ELSE FirstFault(wrong)
      BY DEF ProfileFault
    <3> HIDE DEF r, wrong
    <3> QED BY <2>4, <3>1 DEF Codes
  <2> QED BY <2>5 DEF FaultOfProfile, Codes
<1> DEFINE faults == [i \in DOMAIN d.profiles |-> FaultOfProfile(d, i, s)]
<1>4. FirstFault(faults) \in Codes
  <2>1. DOMAIN faults = DOMAIN d.profiles /\ \A i \in DOMAIN faults : faults[i] \in Codes
    BY <1>3
  <2> HIDE DEF faults
  <2> QED BY <1>1, <1>2, <2>1
<1>5. PackFault(d, s) =
        IF Size(d) > FileMax THEN "ARGUMENT"
        ELSE IF FirstFault(faults) # "OK" THEN FirstFault(faults)
        ELSE IF ~d.whole THEN "PROFILE_MALFORMED"
        ELSE IF d.schema # SchemaVersion THEN "PROFILE_SCHEMA"
        ELSE IF ~d.supported THEN "PROFILE_VERSION" ELSE "OK"
  BY DEF PackFault
<1> HIDE DEF faults
<1> QED BY <1>4, <1>5 DEF Codes

(* With what is known of saves and stores, the rest of the types. *)
RestTyped ==
  /\ \A p \in Procs : saving[p] \in exported \cup {None} /\ temp[p] \in Temporaries \cup {None}
  /\ {file} \cup older \subseteq Contents \cup {None}
  /\ ret \in [Procs -> Codes \cup {None}]
  /\ calls \in 0..MaxCalls /\ crashes \in 0..MaxCrashes

LEMMA ExportedTexts ==
  ASSUME Whole
  PROVE  exported \subseteq Texts /\ Temporaries \subseteq Contents
  BY DEF Whole, StoresOK, Reloadable, Temporaries, Contents

LEMMA TypeFollows == Whole /\ RestTyped => TypeOK
<1> SUFFICES ASSUME Whole, RestTyped PROVE TypeOK
  OBVIOUS
<1>1. \A p \in Procs : /\ store[p] \in Seq([source : Sources, profile : Profiles])
                       /\ Len(store[p]) <= MaxProfiles
  <2> SUFFICES ASSUME NEW p \in Procs
               PROVE  /\ store[p] \in Seq([source : Sources, profile : Profiles])
                      /\ Len(store[p]) <= MaxProfiles
    OBVIOUS
  <2>1. store[p] \in Seq(Records) /\ Len(store[p]) <= MaxProfiles
    BY DEF Whole, StoresOK
  <2>2. Records \subseteq [source : Sources, profile : Profiles]
    BY DEF Records, GoodProfiles
  <2>3. /\ store[p] = [i \in 1..Len(store[p]) |-> store[p][i]] /\ Len(store[p]) \in Nat
        /\ \A i \in 1..Len(store[p]) : store[p][i] \in Records
    BY <2>1
  <2>4. \A i \in 1..Len(store[p]) : store[p][i] \in [source : Sources, profile : Profiles]
    BY <2>2, <2>3
  <2> DEFINE S == [source : Sources, profile : Profiles]
             held == store[p]
  <2>5. held \in Seq(S)
    <3> HIDE DEF S, held
    <3>1. /\ held = [i \in 1..Len(held) |-> held[i]] /\ Len(held) \in Nat
          /\ \A i \in 1..Len(held) : held[i] \in S
      BY <2>3, <2>4 DEF held, S
    <3> QED BY <3>1
  <2> QED BY <2>1, <2>5
<1>2. exported \subseteq Texts /\ Temporaries \subseteq Contents
  BY ExportedTexts
<1>3. /\ pc \in [Procs -> {"idle", "open", "write", "sync", "close", "rename", "unlink"}]
      /\ failed \in [Procs -> BOOLEAN]
  BY DEF Whole, SavesOK, TypedSaves, Steps
<1>4. saving \in [Procs -> Texts \cup {None}] /\ temp \in [Procs -> Contents \cup {None}]
  BY <1>2 DEF Whole, SavesOK, TypedSaves, RestTyped
<1> QED BY <1>1, <1>2, <1>3, <1>4 DEF TypeOK, RestTyped

LEMMA RestInit == Init => RestTyped
<1> SUFFICES ASSUME Init PROVE RestTyped
  OBVIOUS
<1>1. file \in Contents \cup {None}
  <2>1. PICK d \in FirstFiles :
          file = IF d = None THEN None ELSE [text |-> d, whole |-> TRUE, synced |-> TRUE]
    BY DEF Init
  <2>2. d # None => d \in Texts
    BY GivenTexts DEF Given
  <2> QED BY <2>1, <2>2 DEF Contents
<1> QED BY <1>1, BoundAssumption DEF Init, RestTyped

LEMMA RestStep == Whole /\ RestTyped /\ [Next]_vars => RestTyped'
<1> SUFFICES ASSUME Whole, RestTyped, [Next]_vars PROVE RestTyped'
  OBVIOUS
<1>0. /\ Loadable \subseteq Sources /\ "VALIDATED_PACK" \in Loadable /\ Given \subseteq Texts
      /\ exported \subseteq Texts /\ Temporaries \subseteq Contents
      /\ {"OK", "SYSTEM", "READ", "PROFILE_MALFORMED", "PROFILE_CONFLICT"} \subseteq Codes
  BY GivenTexts, ExportedTexts DEF Sources, Loadable, Codes
<1>1. ASSUME UNCHANGED <<saving, temp>>, exported \subseteq exported',
             {file'} \cup older' \subseteq {file} \cup older,
             \/ UNCHANGED ret
             \/ \E p \in Procs, code \in Codes \cup {None} : Returned(p, code),
             Called \/ UNCHANGED calls, UNCHANGED crashes
      PROVE  RestTyped'
  <2>1. ret' \in [Procs -> Codes \cup {None}]
    BY <1>1 DEF RestTyped, Returned
  <2>2. calls' \in 0..MaxCalls
    BY <1>1, BoundAssumption DEF RestTyped, Called
  <2> QED BY <1>1, <2>1, <2>2 DEF RestTyped, Temporaries
<1>2. ASSUME NEW p \in Procs, NEW d \in Texts, NEW s, NEW source,
             Taken(p, d, s, source) \/ Refused(p, d, s)
      PROVE  \E code \in Codes \cup {None} : Returned(p, code)
  <2>1. PackFault(d, s) \in Codes
    BY GivenTexts, FaultIsCode
  <2> QED BY <1>0, <1>2, <2>1 DEF Taken, Refused
<1>3. ASSUME NEW p \in Procs, Called, Unsaved,
             \E code \in Codes \cup {None} : Returned(p, code)
      PROVE  RestTyped'
  BY <1>1, <1>3 DEF Unsaved, disk
<1>4. ASSUME NEW p \in Procs, NEW d \in Packs, NEW source \in Loadable, LoadData(p, d, source)
      PROVE  RestTyped'
  <2>1. \E code \in Codes \cup {None} : Returned(p, code)
    BY <1>0, <1>2, <1>4 DEF LoadData, Given
  <2> QED BY <1>3, <1>4, <2>1 DEF LoadData
<1>5. ASSUME NEW p \in Procs, LoadBuiltin(p) PROVE RestTyped'
  <2>1. \E code \in Codes \cup {None} : Returned(p, code)
    BY <1>0, <1>2, <1>5 DEF LoadBuiltin, Given
  <2> QED BY <1>3, <1>5, <2>1 DEF LoadBuiltin
<1>6. ASSUME NEW p \in Procs, NEW source \in Loadable, LoadFile(p, source) PROVE RestTyped'
  <2>1. \E code \in Codes \cup {None} : Returned(p, code)
    <3>1. CASE \E code \in {"READ", "SYSTEM", "PROFILE_MALFORMED"} : Returned(p, code)
      BY <1>0, <3>1
    <3>2. CASE /\ file # None
               /\ Taken(p, file.text, source, source) \/ Refused(p, file.text, source)
      <4>1. file.text \in Texts
        BY <3>2 DEF RestTyped, Contents
      <4> QED BY <1>2, <3>2, <4>1
    <3> QED BY <1>6, <3>1, <3>2 DEF LoadFile
  <2> QED BY <1>3, <1>6, <2>1 DEF LoadFile
<1>7. ASSUME NEW p \in Procs, BeginSave(p) PROVE RestTyped'
  <2>1. CASE Returned(p, "SYSTEM") /\ UNCHANGED <<pc, saving, exported>>
    BY <1>0, <1>1, <1>7, <2>1 DEF BeginSave, disk
  <2>2. CASE /\ Returned(p, None)
             /\ saving' = [saving EXCEPT ![p] = Export(store[p])]
             /\ exported' = exported \cup {Export(store[p])}
    <3>1. \A q \in Procs : saving'[q] \in exported' \cup {None}
      BY <2>2 DEF RestTyped, Whole, SavesOK, TypedSaves
    <3>2. calls' \in 0..MaxCalls /\ UNCHANGED <<temp, file, older, crashes>>
      BY <1>7, BoundAssumption DEF BeginSave, Called, RestTyped, disk
    <3>3. ret' \in [Procs -> Codes \cup {None}]
      BY <2>2 DEF Returned, RestTyped
    <3>4. \A q \in Procs : temp'[q] \in [text : exported', whole : BOOLEAN, synced : BOOLEAN] \cup {None}
      BY <2>2, <3>2 DEF RestTyped, Temporaries
    <3> QED BY <3>1, <3>2, <3>3, <3>4 DEF RestTyped, Temporaries
  <2> QED BY <1>7, <2>1, <2>2 DEF BeginSave
<1>8. ASSUME NEW p \in Procs, NEW step, StepOn(p, step),
             temp' = temp \/ \E t \in Temporaries : temp' = [temp EXCEPT ![p] = t]
      PROVE  RestTyped'
  <2>1. UNCHANGED <<saving, ret, file, older, calls, crashes, exported>>
    BY <1>8 DEF StepOn, SaveStep, disk, history
  <2>2. \A q \in Procs : temp'[q] \in Temporaries \cup {None}
    BY <1>8 DEF RestTyped, Whole, SavesOK, TypedSaves
  <2> QED BY <2>1, <2>2 DEF RestTyped, Temporaries
<1>9. ASSUME NEW p \in Procs, NEW code \in Codes, EndSave(p, code),
             {file'} \cup older' \subseteq Contents \cup {None}
      PROVE  RestTyped'
  <2>1. UNCHANGED <<calls, crashes, exported>>
    BY <1>9 DEF EndSave, SaveStep, history
  <2>2. \A q \in Procs : saving'[q] \in exported \cup {None} /\ temp'[q] \in Temporaries \cup {None}
    BY <1>9 DEF EndSave, RestTyped, Whole, SavesOK, TypedSaves
  <2>3. ret' \in [Procs -> Codes \cup {None}]
    BY <1>9 DEF EndSave, Returned, RestTyped
  <2> QED BY <1>9, <2>1, <2>2, <2>3 DEF RestTyped, Temporaries
<1>10. ASSUME NEW p \in Procs, EndSave(p, "SYSTEM"), UNCHANGED disk PROVE RestTyped'
  BY <1>0, <1>9, <1>10 DEF disk, RestTyped
<1>11. ASSUME NEW p \in Procs, pc[p] \in {"write", "sync", "rename"}
       PROVE  temp[p] \in Temporaries
  BY <1>11 DEF Whole, SavesOK, TemporaryOK, Steps
<1>12. ASSUME NEW p \in Procs, Open(p) PROVE RestTyped'
  <2>1. saving[p] \in exported
    BY <1>12 DEF Open, Whole, SavesOK, TemporaryOK
  <2>2. [text |-> saving[p], whole |-> FALSE, synced |-> FALSE] \in Temporaries
    BY <2>1 DEF Temporaries
  <2> QED BY <1>8, <1>10, <1>12, <2>2 DEF Open
<1>13. ASSUME NEW p \in Procs, Write(p) PROVE RestTyped'
  <2>1. [temp[p] EXCEPT !.whole = TRUE] \in Temporaries
    BY <1>11, <1>13 DEF Write, Temporaries
  <2>2. [temp EXCEPT ![p].whole = TRUE] = [temp EXCEPT ![p] = [temp[p] EXCEPT !.whole = TRUE]]
    BY DEF Whole, SavesOK, TypedSaves
  <2>3. temp' = temp \/ \E t \in Temporaries : temp' = [temp EXCEPT ![p] = t]
    BY <1>13, <2>1, <2>2 DEF Write
  <2> QED BY <1>8, <1>13, <2>3 DEF Write
<1>14. ASSUME NEW p \in Procs, Sync(p) PROVE RestTyped'
  <2>1. [temp[p] EXCEPT !.synced = TRUE] \in Temporaries
    BY <1>11, <1>14 DEF Sync, Temporaries
  <2>2. [temp EXCEPT ![p].synced = TRUE] = [temp EXCEPT ![p] = [temp[p] EXCEPT !.synced = TRUE]]
    BY DEF Whole, SavesOK, TypedSaves
  <2>3. temp' = temp \/ \E t \in Temporaries : temp' = [temp EXCEPT ![p] = t]
    BY <1>14, <2>1, <2>2 DEF Sync
  <2> QED BY <1>8, <1>14, <2>3 DEF Sync
<1>15. ASSUME NEW p \in Procs, Close(p) \/ Unlink(p) PROVE RestTyped'
  BY <1>8, <1>10, <1>15 DEF Close, Unlink
<1>16. ASSUME NEW p \in Procs, Rename(p) PROVE RestTyped'
  <2>1. CASE StepOn(p, "unlink") /\ UNCHANGED temp
    BY <1>8, <2>1
  <2>2. CASE file' = temp[p] /\ older' = older \cup {file} /\ EndSave(p, "OK")
    <3>1. temp[p] \in Contents
      BY <1>0, <1>11, <1>16 DEF Rename
    <3> QED BY <1>0, <1>9, <2>2, <3>1 DEF RestTyped
  <2> QED BY <1>16, <2>1, <2>2 DEF Rename
<1>17. ASSUME NEW P, Restart(P), {file'} \cup older' \subseteq {file} \cup older
       PROVE  RestTyped'
  <2>1. UNCHANGED <<exported, calls>>
    BY <1>17 DEF Restart, history
  <2>2. \A p \in Procs : saving'[p] \in exported \cup {None} /\ temp'[p] \in Temporaries \cup {None}
    BY <1>17 DEF Restart, RestTyped
  <2>3. ret' \in [Procs -> Codes \cup {None}]
    BY <1>17 DEF Restart, RestTyped
  <2>4. crashes' \in 0..MaxCrashes
    BY <1>17, BoundAssumption DEF Restart, RestTyped
  <2> QED BY <1>17, <2>1, <2>2, <2>3, <2>4 DEF RestTyped, Temporaries
<1>18. ASSUME NEW p \in Procs, Die(p) PROVE RestTyped'
  BY <1>17, <1>18 DEF Die, disk
<1>19. CASE PowerFails
  <2>1. PICK c \in {file} \cup older : file' \in Surviving(c)
    BY <1>19 DEF PowerFails
  <2>2. file' = c
    BY <2>1 DEF Surviving, Whole, SavesOK, DiskOK, Kept
  <2> QED BY <1>17, <1>19, <2>2 DEF PowerFails
<1>20. CASE Flush \/ UNCHANGED vars
  BY <1>1, <1>20 DEF Flush, vars, process, disk, history
<1> QED BY <1>4, <1>5, <1>6, <1>7, <1>12, <1>13, <1>14, <1>15, <1>16, <1>18, <1>19, <1>20 DEF Next

(* What the variables of the store hold, every pack, call and crash.       *)
THEOREM TypeCorrect == Spec => []TypeOK
<1> QED BY TypeFollows, WholeInit, WholeStep, RestInit, RestStep, PTL DEF Spec
-----------------------------------------------------------------------------
(* A save takes effect with its rename, and until then only its own        *)
(* temporary file is what it is about to write.                            *)

SavingOK(p) ==
  /\ pc[p] = "idle" => saving[p] = None
  /\ pc[p] \in {"write", "sync", "close", "rename"} => temp[p].text = saving[p]

FollowsOK == \A p \in Procs : SavingOK(p)

LEMMA FollowsInit == Init => FollowsOK
  BY DEF Init, FollowsOK, SavingOK

LEMMA FollowsStep == Whole /\ FollowsOK /\ [Next]_vars => FollowsOK'
<1> SUFFICES ASSUME Whole, FollowsOK, [Next]_vars PROVE FollowsOK'
  OBVIOUS
<1>0. TypedSaves /\ \A p \in Procs : TemporaryOK(p)
  BY DEF Whole, SavesOK
<1>1. ASSUME UNCHANGED <<pc, saving, temp>> PROVE FollowsOK'
  BY <1>1 DEF FollowsOK, SavingOK
<1>2. ASSUME NEW p \in Procs, SavingOK(p)',
             \A q \in Procs \ {p} : UNCHANGED <<pc[q], saving[q], temp[q]>>
      PROVE  FollowsOK'
  BY <1>2 DEF FollowsOK, SavingOK
<1>3. ASSUME NEW p \in Procs, NEW code, EndSave(p, code) PROVE FollowsOK'
  BY <1>0, <1>2, <1>3 DEF EndSave, Goto, TypedSaves, SavingOK
<1>4. ASSUME NEW p \in Procs, NEW step \in Steps, StepOn(p, step),
             step # "unlink" => temp'[p].text = saving[p],
             temp' = temp \/ \E t : temp' = [temp EXCEPT ![p] = t]
      PROVE  FollowsOK'
  <2>1. \A q \in Procs \ {p} : UNCHANGED <<pc[q], saving[q], temp[q]>>
    BY <1>0, <1>4 DEF StepOn, Goto, TypedSaves
  <2>2. SavingOK(p)'
    BY <1>0, <1>4 DEF StepOn, Goto, TypedSaves, SavingOK, Steps
  <2> QED BY <1>2, <2>1, <2>2
<1>5. ASSUME NEW p \in Procs, BeginSave(p) PROVE FollowsOK'
  <2>1. CASE UNCHANGED <<pc, saving, exported>>
    BY <1>1, <1>5, <2>1 DEF BeginSave
  <2>2. CASE Goto(p, "open") /\ saving' = [saving EXCEPT ![p] = Export(store[p])]
    <3>1. UNCHANGED temp
      BY <1>5 DEF BeginSave
    <3> QED BY <1>0, <1>2, <2>2, <3>1 DEF Goto, TypedSaves, SavingOK
  <2> QED BY <1>5, <2>1, <2>2 DEF BeginSave
<1>6. ASSUME NEW p \in Procs, pc[p] \in {"write", "sync", "close", "rename"}
      PROVE  temp[p].text = saving[p] /\ temp[p] \in Temporaries
  BY <1>0, <1>6 DEF FollowsOK, SavingOK, TemporaryOK, Steps
<1>7. ASSUME NEW p \in Procs, Open(p) PROVE FollowsOK'
  <2>1. CASE EndSave(p, "SYSTEM")
    BY <1>3, <2>1
  <2>2. CASE /\ StepOn(p, "write")
             /\ temp' = [temp EXCEPT ![p] =
                          [text |-> saving[p], whole |-> FALSE, synced |-> FALSE]]
    <3>1. temp'[p].text = saving[p]
      BY <1>0, <2>2 DEF TypedSaves
    <3> QED BY <1>4, <2>2, <3>1 DEF Steps
  <2> QED BY <1>7, <2>1, <2>2 DEF Open
<1>8. ASSUME NEW p \in Procs, Write(p) PROVE FollowsOK'
  <2>1. temp[p].text = saving[p] /\ temp[p] \in Temporaries
    BY <1>6, <1>8 DEF Write
  <2>2. CASE StepOn(p, "close") /\ UNCHANGED temp
    BY <1>4, <2>1, <2>2 DEF Steps
  <2>3. CASE StepOn(p, "sync") /\ temp' = [temp EXCEPT ![p].whole = TRUE]
    <3>1. temp' = [temp EXCEPT ![p] = [temp[p] EXCEPT !.whole = TRUE]]
      BY <1>0, <2>3 DEF TypedSaves
    <3>2. temp'[p].text = saving[p]
      BY <1>0, <2>1, <3>1 DEF TypedSaves, Temporaries
    <3> QED BY <1>4, <2>3, <3>1, <3>2 DEF Steps
  <2> QED BY <1>8, <2>2, <2>3 DEF Write
<1>9. ASSUME NEW p \in Procs, Sync(p) PROVE FollowsOK'
  <2>1. temp[p].text = saving[p] /\ temp[p] \in Temporaries
    BY <1>6, <1>9 DEF Sync
  <2>2. CASE StepOn(p, "close") /\ UNCHANGED temp
    BY <1>4, <2>1, <2>2 DEF Steps
  <2>3. CASE StepOn(p, "close") /\ temp' = [temp EXCEPT ![p].synced = TRUE]
    <3>1. temp' = [temp EXCEPT ![p] = [temp[p] EXCEPT !.synced = TRUE]]
      BY <1>0, <2>3 DEF TypedSaves
    <3>2. temp'[p].text = saving[p]
      BY <1>0, <2>1, <3>1 DEF TypedSaves, Temporaries
    <3> QED BY <1>4, <2>3, <3>1, <3>2 DEF Steps
  <2> QED BY <1>9, <2>2, <2>3 DEF Sync
<1>10. ASSUME NEW p \in Procs, Close(p) PROVE FollowsOK'
  BY <1>4, <1>6, <1>10 DEF Close, Steps
<1>11. ASSUME NEW p \in Procs, Rename(p) \/ Unlink(p) PROVE FollowsOK'
  BY <1>3, <1>4, <1>11 DEF Rename, Unlink, Steps
<1>12. ASSUME NEW P, Restart(P) PROVE FollowsOK'
  <2> SUFFICES ASSUME NEW q \in Procs PROVE SavingOK(q)'
    BY DEF FollowsOK
  <2>1. CASE q \in P
    BY <1>12, <2>1 DEF Restart, SavingOK
  <2>2. CASE q \notin P
    <3>1. UNCHANGED <<pc[q], saving[q], temp[q]>>
      BY <1>12, <2>2 DEF Restart
    <3> QED BY <3>1 DEF FollowsOK, SavingOK
  <2> QED BY <2>1, <2>2
<1>13. ASSUME NEW p \in Procs, \/ \E d \in Packs, source \in Loadable : LoadData(p, d, source)
                               \/ \E source \in Loadable : LoadFile(p, source)
                               \/ LoadBuiltin(p)
       PROVE  FollowsOK'
  BY <1>1, <1>13 DEF LoadData, LoadFile, LoadBuiltin, Unsaved
<1>14. CASE Flush \/ UNCHANGED vars
  BY <1>1, <1>14 DEF Flush, vars, process
<1> QED BY <1>5, <1>7, <1>8, <1>9, <1>10, <1>11, <1>12, <1>13, <1>14 DEF Next, Die, PowerFails

Held == [p \in Procs |-> Export(store[p])]

Follows == Whole /\ RestTyped /\ FollowsOK

(* What is being saved is no sentinel, and the file shows what it holds.   *)
LEMMA UnderWay ==
  ASSUME Follows, NEW p \in Procs
  PROVE  saving[p] = None <=> pc[p] = "idle"
<1>1. exported \subseteq Texts
  BY ExportedTexts DEF Follows
<1> QED BY <1>1, NoneAssumption DEF Follows, Whole, SavesOK, TypedSaves, TemporaryOK, FollowsOK, SavingOK

LEMMA AbstractInit == Init => Abstract!Init
<1> SUFFICES ASSUME Init PROVE Abstract!Init
  OBVIOUS
<1>1. Shown(file) \in FirstFiles
  <2>1. PICK d \in FirstFiles :
          file = IF d = None THEN None ELSE [text |-> d, whole |-> TRUE, synced |-> TRUE]
    BY DEF Init
  <2>2. d # None => file \in Contents
    BY <2>1, GivenTexts DEF Given, Contents
  <2> QED BY <2>1, <2>2, NoneAssumption DEF Shown
<1>2. {Shown(c) : c \in older} = {}
  BY DEF Init
<1>3. Held = [p \in Procs |-> Export(<<>>)]
  BY DEF Held, Init
<1> QED BY <1>1, <1>2, <1>3 DEF Abstract!Init, Init, Held

LEMMA Stutters ==
  ASSUME UNCHANGED <<file, older, store, saving, ret>>
  PROVE  UNCHANGED Abstract!absVars
  BY DEF Abstract!absVars

Refined == Abstract!Next \/ UNCHANGED Abstract!absVars

(* A load, or a save that does not begin. *)
LEMMA CallIsRefined ==
  ASSUME Follows, NEW p \in Procs, Idle(p), NEW code \in Codes, Returned(p, code),
         \A q \in Procs \ {p} : store'[q] = store[q],
         UNCHANGED <<file, older, saving>>
  PROVE  Refined
<1>1. saving[p] = None
  BY DEF Idle, Follows, FollowsOK, SavingOK
<1>2. Held' = [Held EXCEPT ![p] = Held'[p]]
  BY DEF Held
<1>3. Abstract!Call(p)
  BY <1>1, <1>2 DEF Abstract!Call, Abstract!Answers, Returned, Held
<1> QED BY <1>3 DEF Refined, Abstract!Next

LEMMA LoadIsRefined ==
  ASSUME Follows, NEW p \in Procs,
         \/ \E d \in Packs, source \in Loadable : LoadData(p, d, source)
         \/ \E source \in Loadable : LoadFile(p, source)
         \/ LoadBuiltin(p)
  PROVE  Refined
<1>0. /\ Given \subseteq Texts
      /\ {"OK", "SYSTEM", "READ", "PROFILE_MALFORMED", "PROFILE_CONFLICT"} \subseteq Codes
  BY GivenTexts DEF Codes
<1>1. Idle(p) /\ UNCHANGED <<file, older, saving>>
  BY DEF LoadData, LoadFile, LoadBuiltin, Unsaved, disk
<1>2. ASSUME NEW d \in Texts, NEW s, NEW source, Taken(p, d, s, source) \/ Refused(p, d, s)
      PROVE  Refined
  <2>1. PackFault(d, s) \in Codes
    BY GivenTexts, FaultIsCode
  <2>2. PICK code \in Codes : Returned(p, code)
    BY <1>0, <1>2, <2>1 DEF Taken, Refused
  <2>3. \A q \in Procs \ {p} : store'[q] = store[q]
    BY <1>2 DEF Taken, Refused, Follows, Whole, StoresOK
  <2> QED BY <1>1, <2>2, <2>3, CallIsRefined
<1>3. ASSUME NEW code \in {"READ", "SYSTEM", "PROFILE_MALFORMED"}, Returned(p, code), UNCHANGED store
      PROVE  Refined
  BY <1>0, <1>1, <1>3, CallIsRefined
<1>4. CASE \E d \in Packs, source \in Loadable : LoadData(p, d, source)
  BY <1>0, <1>2, <1>4 DEF LoadData, Given
<1>5. CASE LoadBuiltin(p)
  BY <1>0, <1>2, <1>5 DEF LoadBuiltin, Given
<1>6. CASE \E source \in Loadable : LoadFile(p, source)
  <2>1. file # None => file.text \in Texts
    BY DEF Follows, RestTyped, Contents
  <2> QED BY <1>2, <1>3, <1>6, <2>1 DEF LoadFile
<1> QED BY <1>4, <1>5, <1>6

LEMMA BeginSaveIsRefined ==
  ASSUME Follows, NEW p \in Procs, BeginSave(p)
  PROVE  Refined
<1>1. UNCHANGED <<store, file, older>> /\ Idle(p)
  BY DEF BeginSave, disk
<1>2. CASE Returned(p, "SYSTEM") /\ UNCHANGED <<pc, saving, exported>>
  BY <1>1, <1>2, CallIsRefined DEF Codes
<1>3. CASE Returned(p, None) /\ saving' = [saving EXCEPT ![p] = Export(store[p])]
  <2>1. saving[p] = None
    BY <1>1 DEF Idle, Follows, FollowsOK, SavingOK
  <2>2. Held[p] = Export(store[p])
    BY DEF Held
  <2>3. Abstract!Ask(p)
    BY <1>1, <1>3, <2>1, <2>2 DEF Abstract!Ask, Abstract!Answers, Returned, Held
  <2> QED BY <2>3 DEF Refined, Abstract!Next
<1> QED BY <1>2, <1>3 DEF BeginSave

LEMMA SavingIsRefined ==
  ASSUME Follows, NEW p \in Procs,
         Open(p) \/ Write(p) \/ Sync(p) \/ Close(p) \/ Rename(p) \/ Unlink(p)
  PROVE  Refined
<1>0. /\ TypedSaves /\ TemporaryOK(p) /\ SavingOK(p)
      /\ saving[p] # None
  <2>1. pc[p] # "idle"
    BY DEF Open, Write, Sync, Close, Rename, Unlink
  <2> QED BY <2>1, UnderWay DEF Follows, Whole, SavesOK, FollowsOK
<1>1. ASSUME NEW step, StepOn(p, step) PROVE Refined
  BY <1>1, Stutters DEF StepOn, SaveStep, disk, Refined
<1>2. ASSUME EndSave(p, "SYSTEM"), UNCHANGED disk PROVE Refined
  <2>1. Abstract!GiveUp(p)
    BY <1>0, <1>2 DEF Abstract!GiveUp, Abstract!Answers, EndSave, Returned, SaveStep, disk, Codes
  <2> QED BY <2>1 DEF Refined, Abstract!Next
<1>3. CASE Open(p) \/ Write(p) \/ Sync(p) \/ Close(p) \/ Unlink(p)
  BY <1>1, <1>2, <1>3 DEF Open, Write, Sync, Close, Unlink
<1>4. CASE Rename(p)
  <2>1. CASE StepOn(p, "unlink")
    BY <1>1, <2>1
  <2>2. CASE file' = temp[p] /\ older' = older \cup {file} /\ EndSave(p, "OK")
    <3>1. temp[p] \in Temporaries /\ temp[p].whole /\ temp[p].text = saving[p]
      BY <1>0, <1>4 DEF Rename, TemporaryOK, SavingOK, Steps
    <3>2. temp[p] # None
      BY <3>1, ExportedTexts, NoneAssumption DEF Follows
    <3>3. Shown(file') = saving[p]
      BY <2>2, <3>1, <3>2 DEF Shown
    <3>4. {Shown(c) : c \in older'} = {Shown(c) : c \in older} \cup {Shown(file)}
      BY <2>2
    <3>5. /\ UNCHANGED store /\ saving' = [saving EXCEPT ![p] = None]
          /\ ret' = [ret EXCEPT ![p] = "OK"]
      BY <2>2 DEF EndSave, SaveStep, Returned
    <3>6. Abstract!Commit(p)
      BY <1>0, <3>3, <3>4, <3>5 DEF Abstract!Commit, Abstract!Answers
    <3> QED BY <3>6 DEF Refined, Abstract!Next
  <2> QED BY <1>4, <2>1, <2>2 DEF Rename
<1> QED BY <1>3, <1>4

LEMMA EndingIsRefined ==
  ASSUME Follows, NEW P, Restart(P)
  PROVE  Abstract!End(P)
<1>1. Held' = [p \in Procs |-> IF p \in P THEN Export(<<>>) ELSE Held[p]]
  BY DEF Restart, Held
<1> QED BY <1>1 DEF Abstract!End, Restart, Held

LEMMA EveryStepIsRefined == Follows /\ [Next]_vars => Refined
<1> SUFFICES ASSUME Follows, [Next]_vars PROVE Refined
  OBVIOUS
<1>1. ASSUME NEW p \in Procs, Die(p) PROVE Refined
  <2>1. Abstract!Die(p)
    BY <1>1, EndingIsRefined DEF Die, Abstract!Die, disk
  <2> QED BY <2>1 DEF Refined, Abstract!Next
<1>2. CASE PowerFails
  <2>1. PICK c \in {file} \cup older : file' \in Surviving(c)
    BY <1>2 DEF PowerFails
  <2>2. file' = c /\ older' = {} /\ Restart(Procs)
    BY <1>2, <2>1 DEF PowerFails, Surviving, Follows, Whole, SavesOK, DiskOK, Kept
  <2>3. Shown(file') \in {Shown(file)} \cup {Shown(b) : b \in older}
    BY <2>2
  <2>4. {Shown(b) : b \in older'} = {}
    BY <2>2
  <2>5. Abstract!PowerFails
    BY <2>2, <2>3, <2>4, EndingIsRefined DEF Abstract!PowerFails
  <2> QED BY <2>5 DEF Refined, Abstract!Next
<1>3. CASE Flush
  <2>1. {Shown(c) : c \in older'} = {} /\ UNCHANGED <<file, store, saving, ret>>
    BY <1>3 DEF Flush, process
  <2>2. Abstract!Settle
    BY <2>1 DEF Abstract!Settle
  <2> QED BY <2>2 DEF Refined, Abstract!Next
<1>4. CASE UNCHANGED vars
  BY <1>4, Stutters DEF vars, process, disk, Refined
<1> QED BY <1>1, <1>2, <1>3, <1>4, LoadIsRefined, BeginSaveIsRefined, SavingIsRefined DEF Next

(* A save implements one atomic step, whoever else saves, whichever system *)
(* call fails and whenever processes die or the power goes: the file       *)
(* becomes what the store held, with the answer OK, or is left as it is.   *)
THEOREM SavesAreAtomic == Spec => SaveIsAtomic
<1>1. Follows /\ [Next]_vars => [Abstract!Next]_(Abstract!absVars)
  BY EveryStepIsRefined DEF Refined
<1>2. Init => Follows
  BY WholeInit, RestInit, FollowsInit DEF Follows
<1>3. Follows /\ [Next]_vars => Follows'
  BY WholeStep, RestStep, FollowsStep DEF Follows
<1> QED BY <1>1, <1>2, <1>3, AbstractInit, PTL DEF Spec, SaveIsAtomic, Abstract!Spec
=============================================================================
