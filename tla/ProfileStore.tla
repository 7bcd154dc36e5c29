---------------------------- MODULE ProfileStore ----------------------------
(***************************************************************************)
(* The monitor profile store of core/profile_store.c: what a pack must be  *)
(* to be loaded, how profiles of several packs compose for one display,    *)
(* and how a store becomes a file.  Processes hold a store each and share  *)
(* one file; a process may die and the machine may lose power at any step. *)
(*                                                                         *)
(* A pack is what its text says: the profiles it lists, whether the text   *)
(* is whole (a broken one ends after the profiles listed), its schema and  *)
(* whether this library supports it.  A profile states its confidence      *)
(* before its controls.                                                    *)
(***************************************************************************)
EXTENDS Integers, Sequences, FiniteSets

CONSTANTS
  Procs,          \* the processes that use the store
  Packs,          \* the packs a caller can load
  FirstFiles,     \* what the profile file may hold at first: packs, or None
  BuiltinPack,    \* the pack compiled into the library
  Displays,       \* the identities a caller resolves
  Predicates,     \* the optional parts of an identity
  ControlIds,     \* the controls packs name
  SchemaVersion,  \* RSS_DDC_PROFILE_SCHEMA_VERSION
  MaxProfiles,    \* RSS_DDC_PROFILE_MAX_PROFILES
  MaxControls,    \* RSS_DDC_PROFILE_MAX_CONTROLS
  FileMax,        \* RSS_DDC_PROFILE_FILE_MAX_BYTES, in controls
  MaxCalls,       \* bound on loads and saves
  MaxCrashes,     \* bound on crashes
  None

ASSUME BoundAssumption ==
  /\ MaxProfiles \in Nat /\ MaxControls \in Nat /\ FileMax \in Nat
  /\ MaxCalls \in Nat /\ MaxCrashes \in Nat

(* Texts list profiles and profiles list controls; a text that names a     *)
(* control or a confidence the library does not know is a broken one.      *)
Given == Packs \cup {BuiltinPack} \cup (FirstFiles \ {None})
Profiles == UNION {{d.profiles[i] : i \in DOMAIN d.profiles} : d \in Given}
Controls == UNION {{r.controls[j] : j \in DOMAIN r.controls} : r \in Profiles}

ASSUME PackAssumption ==
  \A d \in Given :
    /\ d = [whole |-> d.whole, schema |-> d.schema, supported |-> d.supported,
            profiles |-> d.profiles]
    /\ d.whole \in BOOLEAN /\ d.supported \in BOOLEAN
    /\ Len(d.profiles) \in Nat
    /\ d.profiles = [i \in 1..Len(d.profiles) |-> d.profiles[i]]
    /\ \A i \in DOMAIN d.profiles : DOMAIN d.profiles[i].controls \subseteq Nat \ {0}
ASSUME ControlAssumption ==
  \A q \in Controls : q.id \in ControlIds /\ q.confidence \in Nat

(* The identity has three optional parts. *)
ASSUME PredicateAssumption == IsFiniteSet(Predicates) /\ Cardinality(Predicates) < 10

HardwareValidated == 5    \* RSS_DDC_PROFILE_CONFIDENCE_HARDWARE_VALIDATED
Loadable == {"VALIDATED_PACK", "LOCAL", "RESEARCH"}
Sources == Loadable \cup {"BUILTIN"}
Rank == [s \in Sources |-> CASE s = "LOCAL" -> 4 [] s = "VALIDATED_PACK" -> 3
                             [] s = "BUILTIN" -> 2 [] s = "RESEARCH" -> 1]

(* A control together with what decides between two of them. *)
Candidates == [control : Controls, source : Sources, score : Nat]

Texts == [whole : BOOLEAN, schema : {d.schema : d \in Given} \cup {SchemaVersion},
          supported : BOOLEAN, profiles : Seq(Profiles)]
Contents == [text : Texts, whole : BOOLEAN, synced : BOOLEAN]

ASSUME NoneAssumption == None \notin Candidates \cup Texts \cup Contents

VARIABLES
  store,      \* the profiles each process holds, each with its source
  pc, saving, \* a save under way: the step, and the text that is written
  failed,     \* whether a step of it failed
  temp,       \* its temporary file
  file,       \* the profile file
  older,      \* contents the file may have again after a loss of power
  ret,        \* what the last call of a process returned
  calls, crashes,
  exported,   \* history: the texts that saves were asked to write
  granted     \* history: the writable controls that packs other than
              \* research packs brought in, each with its identity

process == <<store, pc, saving, failed, temp, ret>>
disk == <<file, older>>
history == <<exported, granted>>
vars == <<process, disk, calls, crashes, history>>

-----------------------------------------------------------------------------
(* What a pack must be. *)

Least(S) == CHOOSE i \in S : \A j \in S : i <= j

(* The first error of a list that has one at each place, or OK. *)
FirstFault(faults) ==
  LET wrong == {i \in DOMAIN faults : faults[i] # "OK"}
  IN  IF wrong = {} THEN "OK" ELSE faults[Least(wrong)]

(* enums: neither an id nor a value twice. *)
EnumsConflict(q) ==
  \E i \in DOMAIN q.enums : \E j \in DOMAIN q.enums :
    i # j /\ (q.enums[i].id = q.enums[j].id \/ q.enums[i].value = q.enums[j].value)

(* Mutant: a research pack may offer a write. *)
MutControlFault(q, source) ==
  IF q.writable /\ q.confidence # HardwareValidated THEN "PROFILE_UNSAFE" ELSE "OK"

(* one_control *)
ControlFault(q, source) ==
  IF EnumsConflict(q) THEN "PROFILE_CONFLICT"
  ELSE IF q.address = 0 \/ (q.method = "VCP" /\ q.address > 255)
  THEN "PROFILE_MALFORMED"
  ELSE IF q.method = "LG_ALT_INPUT" /\ q.id # "INPUT" THEN "PROFILE_UNSAFE"
  ELSE IF q.id = "INPUT" /\ q.method = "VCP" /\ q.address # 96 THEN "PROFILE_UNSAFE"
  ELSE IF q.id = "PICTURE_MODE" /\ q.enums = <<>> THEN "PROFILE_MALFORMED"
  ELSE IF q.writable /\ (source = "RESEARCH" \/ q.confidence # HardwareValidated)
  THEN "PROFILE_UNSAFE"
  ELSE "OK"

(* profile *)
FaultOfControl(r, i, source) ==
  LET q == r.controls[i]
  IN  IF i > MaxControls THEN "PROFILE_MALFORMED"
      ELSE IF ControlFault(q, source) # "OK" THEN ControlFault(q, source)
      ELSE IF q.confidence > r.confidence THEN "PROFILE_MALFORMED"
      ELSE IF \E j \in 1..i-1 : r.controls[j].id = q.id THEN "PROFILE_CONFLICT"
      ELSE "OK"

ProfileFault(r, source) ==
  IF r.controls = <<>> THEN "PROFILE_MALFORMED"
  ELSE FirstFault([i \in DOMAIN r.controls |-> FaultOfControl(r, i, source)])

(* The length of a text, in the controls it lists. *)
Size(d) ==
  Cardinality(UNION {{i} \X DOMAIN d.profiles[i].controls : i \in DOMAIN d.profiles})

(* parse_pack; equal_id compares the whole identity. *)
FaultOfProfile(d, i, source) ==
  IF i > MaxProfiles THEN "PROFILE_MALFORMED"
  ELSE IF ProfileFault(d.profiles[i], source) # "OK"
  THEN ProfileFault(d.profiles[i], source)
  ELSE IF \E j \in 1..i-1 : d.profiles[j].identity = d.profiles[i].identity
  THEN "PROFILE_CONFLICT"
  ELSE "OK"

PackFault(d, source) ==
  LET listed == FirstFault([i \in DOMAIN d.profiles |-> FaultOfProfile(d, i, source)])
  IN  IF Size(d) > FileMax THEN "ARGUMENT"
      ELSE IF listed # "OK" THEN listed
      ELSE IF ~d.whole THEN "PROFILE_MALFORMED"
      ELSE IF d.schema # SchemaVersion THEN "PROFILE_SCHEMA"
      ELSE IF ~d.supported THEN "PROFILE_VERSION"
      ELSE "OK"

AsLoaded(d, source) ==
  [i \in 1..Len(d.profiles) |-> [source |-> source, profile |-> d.profiles[i]]]

(* Mutant: a list of values is not written. *)
MutExport(held) ==
  [whole |-> TRUE, schema |-> SchemaVersion, supported |-> TRUE,
   profiles |-> [i \in DOMAIN held |->
     [held[i].profile EXCEPT !.controls =
        [j \in DOMAIN @ |-> [@[j] EXCEPT !.enums = <<>>]]]]]

(* rss_ddc_profile_store_export_json: the source of a profile is not part  *)
(* of the text.                                                            *)
Export(held) ==
  [whole |-> TRUE, schema |-> SchemaVersion, supported |-> TRUE,
   profiles |-> [i \in DOMAIN held |-> held[i].profile]]

-----------------------------------------------------------------------------
(* rss_ddc_profile_store_resolve *)

Matches(p, a) ==
  /\ p.required = a.required
  /\ \A k \in Predicates : p.optional[k] \in {None, a.optional[k]}

Score(p) == 4 + Cardinality({k \in Predicates : p.optional[k] # None})

Candidate(held, j) ==
  [control |-> held.profile.controls[j], source |-> held.source,
   score |-> Score(held.profile.identity)]

(* Mutant: a more specific identity goes before a more trusted source. *)
MutOutranks(a, b) ==
  \/ a.control.confidence > b.control.confidence
  \/ /\ a.control.confidence = b.control.confidence
     /\ \/ a.score > b.score
        \/ a.score = b.score /\ Rank[a.source] > Rank[b.source]

Outranks(a, b) ==
  \/ a.control.confidence > b.control.confidence
  \/ /\ a.control.confidence = b.control.confidence
     /\ \/ Rank[a.source] > Rank[b.source]
        \/ Rank[a.source] = Rank[b.source] /\ a.score > b.score

EqualAuthority(a, b) ==
  /\ a.control.confidence = b.control.confidence
  /\ Rank[a.source] = Rank[b.source] /\ a.score = b.score

(* equal_control compares neither id nor confidence. *)
EqualControl(a, b) ==
  \A f \in {"method", "address", "readable", "writable", "enums"} :
    a.control[f] = b.control[f]

Named(held) == {held.profile.controls[j].id : j \in DOMAIN held.profile.controls}
Offer(held, c) ==
  Candidate(held, CHOOSE j \in DOMAIN held.profile.controls :
                    held.profile.controls[j].id = c)

Clash(found, held) ==
  \E c \in Named(held) : /\ found.controls[c] # None
                         /\ EqualAuthority(Offer(held, c), found.controls[c])
                         /\ ~EqualControl(Offer(held, c), found.controls[c])

(* One profile after those before it: its controls are told apart by id. *)
Compose(found, held, display) ==
  IF found.error # "OK" \/ ~Matches(held.profile.identity, display) THEN found
  ELSE IF Clash(found, held) THEN [found EXCEPT !.error = "PROFILE_CONFLICT"]
  ELSE [found EXCEPT !.controls = [c \in ControlIds |->
          IF c \in Named(held) /\ (@[c] = None \/ Outranks(Offer(held, c), @[c]))
          THEN Offer(held, c) ELSE @[c]]]

NothingFound == [error |-> "OK", controls |-> [c \in ControlIds |-> None]]

(* What has been found after each profile, in the order they were loaded. *)
Walk(helds, display) ==
  LET walk[n \in 0..Len(helds)] ==
        IF n = 0 THEN NothingFound ELSE Compose(walk[n-1], helds[n], display)
  IN  walk

Resolution(helds, display) ==
  LET last == Walk(helds, display)[Len(helds)]
  IN  IF last = NothingFound THEN [last EXCEPT !.error = "NOT_FOUND"] ELSE last

(* The write_authorized flag of an effective control. *)
WriteAuthorized(a) ==
  a.control.writable /\ a.control.confidence = HardwareValidated /\ a.source # "RESEARCH"

-----------------------------------------------------------------------------
(* Loading. *)

(* The writable controls of a pack, each with its profile's identity.      *)
Writable(d) ==
  UNION {{<<d.profiles[i].identity, d.profiles[i].controls[j]>> :
            j \in {k \in DOMAIN d.profiles[i].controls :
                    d.profiles[i].controls[k].writable}} : i \in DOMAIN d.profiles}

Idle(p) == pc[p] = "idle"
Called == calls < MaxCalls /\ calls' = calls + 1
Returned(p, code) == ret' = [ret EXCEPT ![p] = code]

(* Mutant: the profiles are counted before those of the pack are added.    *)
MutTaken(p, d, parsed, source) ==
  /\ PackFault(d, parsed) = "OK"
  /\ Len(store[p]) <= MaxProfiles
  /\ store' = [store EXCEPT ![p] = @ \o AsLoaded(d, source)]
  /\ Returned(p, "OK")

(* load and add: the pack is parsed into a store of its own, and joins     *)
(* this one as a whole or not at all.                                      *)
Taken(p, d, parsed, source) ==
  /\ PackFault(d, parsed) = "OK"
  /\ Len(store[p]) + Len(d.profiles) <= MaxProfiles
  /\ store' = [store EXCEPT ![p] = @ \o AsLoaded(d, source)]
  /\ Returned(p, "OK")

Refused(p, d, parsed) ==
  /\ \/ Returned(p, "SYSTEM")
     \/ PackFault(d, parsed) # "OK" /\ Returned(p, PackFault(d, parsed))
     \/ /\ PackFault(d, parsed) = "OK"
        /\ Len(store[p]) + Len(d.profiles) > MaxProfiles
        /\ Returned(p, "PROFILE_CONFLICT")
  /\ UNCHANGED store

Unsaved == UNCHANGED <<pc, saving, failed, temp, disk, crashes, exported>>

(* rss_ddc_profile_store_load_pack_data, _load_local_data, _load_research_data *)
LoadData(p, d, source) ==
  /\ Idle(p) /\ Called /\ Unsaved
  /\ \/ /\ Taken(p, d, source, source)
        /\ granted' = IF source = "RESEARCH" THEN granted ELSE granted \cup Writable(d)
     \/ Refused(p, d, source) /\ UNCHANGED granted

(* rss_ddc_profile_store_load_builtin: read like a validated pack, then    *)
(* marked as what it is.                                                   *)
LoadBuiltin(p) ==
  /\ Idle(p) /\ Called /\ Unsaved
  /\ \/ /\ Taken(p, BuiltinPack, "VALIDATED_PACK", "BUILTIN")
        /\ granted' = granted \cup Writable(BuiltinPack)
     \/ Refused(p, BuiltinPack, "VALIDATED_PACK") /\ UNCHANGED granted

(* load_file: a file that is too long is refused before it is parsed.      *)
LoadFile(p, source) ==
  /\ Idle(p) /\ Called /\ Unsaved /\ UNCHANGED granted
  /\ \/ Returned(p, "READ") /\ UNCHANGED store
     \/ /\ file # None /\ UNCHANGED store
        /\ \E code \in {"SYSTEM", "PROFILE_MALFORMED"} : Returned(p, code)
     \/ /\ file # None /\ file.whole /\ Size(file.text) <= FileMax
        /\ Taken(p, file.text, source, source) \/ Refused(p, file.text, source)

-----------------------------------------------------------------------------
(* Saving: rss_ddc_profile_store_save_file. *)

Goto(p, step) == pc' = [pc EXCEPT ![p] = step]
Fail(p) == failed' = [failed EXCEPT ![p] = TRUE]

BeginSave(p) ==
  /\ Idle(p) /\ Called
  /\ \/ /\ Goto(p, "open") /\ Returned(p, None)
        /\ saving' = [saving EXCEPT ![p] = Export(store[p])]
        /\ exported' = exported \cup {Export(store[p])}
     \/ Returned(p, "SYSTEM") /\ UNCHANGED <<pc, saving, exported>>
  /\ UNCHANGED <<store, failed, temp, disk, crashes, granted>>

SaveStep == UNCHANGED <<store, calls, crashes, history>>
StepOn(p, step) == Goto(p, step) /\ UNCHANGED <<saving, ret, disk>> /\ SaveStep

(* A save returns; what is left of its temporary file is removed.          *)
EndSave(p, code) ==
  /\ Goto(p, "idle") /\ Returned(p, code) /\ SaveStep
  /\ saving' = [saving EXCEPT ![p] = None] /\ failed' = [failed EXCEPT ![p] = FALSE]
  /\ temp' = [temp EXCEPT ![p] = None]

(* mkstemp gives every save a file of its own. *)
Open(p) ==
  /\ pc[p] = "open"
  /\ \/ /\ StepOn(p, "write") /\ UNCHANGED failed
        /\ temp' = [temp EXCEPT ![p] =
                     [text |-> saving[p], whole |-> FALSE, synced |-> FALSE]]
     \/ EndSave(p, "SYSTEM") /\ UNCHANGED disk

(* The write loop: the rest of the text, or an error after some of it. *)
Write(p) ==
  /\ pc[p] = "write"
  /\ \/ /\ StepOn(p, "sync") /\ UNCHANGED failed
        /\ temp' = [temp EXCEPT ![p].whole = TRUE]
     \/ StepOn(p, "close") /\ Fail(p) /\ UNCHANGED temp

(* Mutant: nobody asks that the text is on the disk before the rename. *)
MutSync(p) ==
  /\ pc[p] = "sync" /\ StepOn(p, "close") /\ UNCHANGED <<temp, failed>>

Sync(p) ==
  /\ pc[p] = "sync" /\ StepOn(p, "close")
  /\ \/ temp' = [temp EXCEPT ![p].synced = TRUE] /\ UNCHANGED failed
     \/ Fail(p) /\ UNCHANGED temp

Close(p) ==
  /\ pc[p] = "close" /\ UNCHANGED temp
  /\ \/ /\ ~failed[p] /\ StepOn(p, "rename") /\ UNCHANGED failed
     \/ StepOn(p, "unlink") /\ Fail(p)

(* Mutant: the directory is synced after the rename, and may fail to be. *)
MutRename(p) ==
  /\ pc[p] = "rename"
  /\ \/ /\ file' = temp[p] /\ older' = older \cup {file}
        /\ \E code \in {"OK", "SYSTEM"} : EndSave(p, code)
     \/ StepOn(p, "unlink") /\ Fail(p) /\ UNCHANGED temp

(* The directory is not synced: the content before may come back.          *)
Rename(p) ==
  /\ pc[p] = "rename"
  /\ \/ /\ file' = temp[p] /\ older' = older \cup {file}
        /\ EndSave(p, "OK")
     \/ StepOn(p, "unlink") /\ Fail(p) /\ UNCHANGED temp

Unlink(p) ==
  /\ pc[p] = "unlink" /\ EndSave(p, "SYSTEM") /\ UNCHANGED disk

-----------------------------------------------------------------------------
(* The system around the store. *)

(* The system writes its directory back in its own time. *)
Flush ==
  /\ older # {} /\ older' = {}
  /\ UNCHANGED <<process, file, calls, crashes, history>>

(* Processes stop and are started again with empty stores; a temporary     *)
(* file stays behind under a name that nobody reads.                       *)
Restart(P) ==
  /\ crashes < MaxCrashes /\ crashes' = crashes + 1
  /\ store' = [p \in Procs |-> IF p \in P THEN <<>> ELSE store[p]]
  /\ pc' = [p \in Procs |-> IF p \in P THEN "idle" ELSE pc[p]]
  /\ saving' = [p \in Procs |-> IF p \in P THEN None ELSE saving[p]]
  /\ failed' = [p \in Procs |-> IF p \in P THEN FALSE ELSE failed[p]]
  /\ temp' = [p \in Procs |-> IF p \in P THEN None ELSE temp[p]]
  /\ ret' = [p \in Procs |-> IF p \in P THEN None ELSE ret[p]]
  /\ UNCHANGED <<calls, history>>

Die(p) == Restart({p}) /\ UNCHANGED disk

(* What was not synced may be on the disk in part. *)
Surviving(content) ==
  IF content = None THEN {None}
  ELSE IF content.synced THEN {content}
  ELSE {[content EXCEPT !.whole = w, !.synced = TRUE] : w \in {FALSE, content.whole}}

PowerFails ==
  /\ Restart(Procs)
  /\ file' \in UNION {Surviving(c) : c \in {file} \cup older}
  /\ older' = {}

Init ==
  /\ store = [p \in Procs |-> <<>>]
  /\ pc = [p \in Procs |-> "idle"] /\ ret = [p \in Procs |-> None]
  /\ saving = [p \in Procs |-> None] /\ failed = [p \in Procs |-> FALSE]
  /\ temp = [p \in Procs |-> None]
  /\ file \in {IF d = None THEN None ELSE [text |-> d, whole |-> TRUE, synced |-> TRUE] :
                d \in FirstFiles}
  /\ older = {} /\ calls = 0 /\ crashes = 0 /\ exported = {}
  /\ granted = IF file = None THEN {} ELSE Writable(file.text)

Next ==
  \/ \E p \in Procs :
       \/ \E d \in Packs, source \in Loadable : LoadData(p, d, source)
       \/ \E source \in Loadable : LoadFile(p, source)
       \/ LoadBuiltin(p)
       \/ BeginSave(p) \/ Open(p) \/ Write(p) \/ Sync(p) \/ Close(p)
       \/ Rename(p) \/ Unlink(p) \/ Die(p)
  \/ Flush \/ PowerFails

Spec == Init /\ [][Next]_vars

-----------------------------------------------------------------------------
(* Properties. *)

Codes == {"OK", "SYSTEM", "READ", "PROFILE_MALFORMED", "PROFILE_SCHEMA",
          "PROFILE_VERSION", "PROFILE_CONFLICT", "PROFILE_UNSAFE", "ARGUMENT"}

TypeOK ==
  /\ \A p \in Procs : /\ store[p] \in Seq([source : Sources, profile : Profiles])
                      /\ Len(store[p]) <= MaxProfiles
  /\ pc \in [Procs -> {"idle", "open", "write", "sync", "close", "rename", "unlink"}]
  /\ saving \in [Procs -> Texts \cup {None}] /\ failed \in [Procs -> BOOLEAN]
  /\ temp \in [Procs -> Contents \cup {None}]
  /\ file \in Contents \cup {None} /\ older \subseteq Contents \cup {None}
  /\ ret \in [Procs -> Codes \cup {None}]
  /\ calls \in 0..MaxCalls /\ crashes \in 0..MaxCrashes
  /\ exported \subseteq Texts

(* Whoever saves, whichever step of it fails, and wherever a process dies  *)
(* or the power goes: the file and all it may become again hold one text   *)
(* in full, the one that was there at first or one that was to be saved.   *)
SavedFileIsWhole ==
  \A c \in {file} \cup older :
    c # None => c.whole /\ c.text \in exported \cup FirstFiles

(* A file shows its text, and one that holds a part of it shows no text.   *)
Shown(c) == IF c # None /\ c.whole THEN c.text ELSE c

Abstract == INSTANCE AtomicSave WITH
  Initial <- FirstFiles, Empty <- Export(<<>>),
  content <- Shown(file), behind <- {Shown(c) : c \in older},
  held <- [p \in Procs |-> Export(store[p])], asked <- saving, answer <- ret

(* A save is atomic: at the moment it answers OK the file becomes what the *)
(* store held at the call, and a save that fails at any of its steps, or   *)
(* whose process dies, leaves the file as it is, whoever else saves.       *)
SaveIsAtomic == Abstract!Spec

(* A store that was saved can be loaded again as what a caller may write,  *)
(* but for the two things that loading packs one after the other brings    *)
(* together and no single pack may hold: more text than a file may have,   *)
(* and two profiles of one identity.                                       *)
SavedStoreReloads ==
  \A text \in exported, source \in {"LOCAL", "VALIDATED_PACK"} :
    LET twice == \E i \in DOMAIN text.profiles : \E j \in 1..i-1 :
                   text.profiles[i].identity = text.profiles[j].identity
    IN  PackFault(text, source) = IF Size(text) > FileMax THEN "ARGUMENT"
                                  ELSE IF twice THEN "PROFILE_CONFLICT" ELSE "OK"

(* No path through loads, saves and loads of what was saved, which drops   *)
(* the source of a profile, authorizes the write of a control: some pack   *)
(* that was not research offered it as writable for an identity that the   *)
(* display matches.                                                        *)
WriteNeedsValidation ==
  \A p \in Procs, a \in Displays, c \in ControlIds :
    LET r == Resolution(store[p], a)
    IN  r.error = "OK" /\ r.controls[c] # None /\ WriteAuthorized(r.controls[c]) =>
          \E g \in granted : Matches(g[1], a) /\ g[2] = r.controls[c].control

(* What the profiles of a store that match a display offer for a control.  *)
Offered(held, a, c) ==
  IF ~Matches(held.profile.identity, a) THEN {}
  ELSE {Candidate(held, j) : j \in {k \in DOMAIN held.profile.controls :
                                     held.profile.controls[k].id = c}}

(* Confidence first, then the source, then how much the identity says.     *)
Weight(o) == 100 * o.control.confidence + 10 * Rank[o.source] + o.score

(* Whatever the packs and the order they were loaded in: the control in    *)
(* effect is one the store offers and none it offers weighs more, nothing  *)
(* of its weight says otherwise, a conflict is reported only where two of  *)
(* one weight differ, and nothing found means nothing offered.             *)
ResolutionIsMostTrusted ==
  \A p \in Procs, a \in Displays :
    LET r == Resolution(store[p], a)
        All(c) == UNION {Offered(store[p][i], a, c) : i \in DOMAIN store[p]}
    IN  /\ r.error = "OK" => \A c \in ControlIds :
             IF r.controls[c] = None THEN All(c) = {}
             ELSE /\ r.controls[c] \in All(c)
                  /\ \A o \in All(c) :
                       /\ Weight(o) <= Weight(r.controls[c])
                       /\ Weight(o) = Weight(r.controls[c]) =>
                            EqualControl(o, r.controls[c])
        /\ r.error = "PROFILE_CONFLICT" =>
             \E c \in ControlIds : \E o, q \in All(c) :
               Weight(o) = Weight(q) /\ ~EqualControl(o, q)
        /\ r.error = "NOT_FOUND" <=> \A c \in ControlIds : All(c) = {}
=============================================================================
