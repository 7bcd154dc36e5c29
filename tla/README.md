# rss-ddc in TLA+

rss-ddc is a C and Objective-C library, with a command line, that speaks DDC/CI
to external monitors on Apple silicon: it finds the display a user means in the
IOKit registry, reads and writes its VCP controls over private IOAV services,
retrieves its MCCS capabilities, scans what a monitor answers, and keeps what it
learns as facts with a provenance.

The library has no threads of its own and, but for the objects a caller holds and the
profile file it saves, keeps no state between calls. What is
hard about it is the world around a call: monitors that come, go and take over
each other's display ids, list indices and ports while the call runs; replies
that are late, wrong, repeated or missing; writes that half succeed; registry
walks that see a different registry each time; fixed-size tables that fill up.
The models are therefore of one caller, one call after the other, against an
environment that moves at every step at which the code gives it a chance; only the
profile file has several writers at a time.

## 1. Inventory

| Component | Source | State | Operations |
|---|---|---|---|
| VCP operations, Set-and-Verify | `core/rss_ddc.c`, `core/verify.c`, `providers/dp/*_vcp.m` | per call: the binding, the identity captured before the SET, the attempt | `get_vcp`, `set_vcp`, `set_vcp_and_verify` |
| Discovery, correlation, dispatch | `platform/macos/discovery.m`, `core/correlation.c`, `core/provider.c`, `providers/dispatch.c`, `providers/ps190.m` | per call: up to three retained registry entries, provider, capabilities, reason | resolve, gate, dispatch, EDID and DPCD reads, release |
| MCCS retrieval | `core/mccs_retrieval.c`, `ddc/protocol.c` | per call: collected bytes, next offset, requests | `retrieve_mccs_capabilities` |
| Monitor knowledge | `core/monitor_knowledge.c` | the caller's objects: at most 128 facts | create, add, add from a profile, merge, resolve, destroy |
| Alien probe | `core/probe.c` | a probe: observations, counters, declaration, knowledge | create, quick scan, extended scan, `_for_display`, destroy |
| Profile store | `core/profile_store.c` | profiles in load order, and the file they are saved to | load, resolve, export, save |
| Display enumeration | `discovery.m`, `core/enumeration.c`, `cli/main.m` | none | list, with a two-call sizing contract |
| GET, SET and reversible SET validation | `ddc/set_validation.c`, `ddc/get_validation.c` | a report | one GET, one SET, one SET with restoration (tests and harnesses) |
| Input switching, picture mode | `ddc/input_switch.c`, `core/input_switch.c`, `core/picture_mode.c` | none | one write, gated by a profile |
| MCCS capabilities parser | `core/mccs_capabilities.c` | none | parse, find a code, list its values |
| Frames and decoders | `ddc/protocol.c`, `ddc/edid.c`, `dpcd/dpcd.c` | none | pure functions |
| Command line | `cli/` | none beyond a command | parsing, output settings, layout |
| Research labs | `research/` | none | experiments outside the library |

How they interact. Every public operation resolves a list index to a binding
(discovery), passes a gate (correlation), and is dispatched by provider to a
transport. Set-and-Verify does so once for the SET and again, afresh, for every
verification GET, comparing an identity across them. The probe calls GET and
MCCS retrieval through function pointers and hands what it read to a knowledge
object; profile controls enter knowledge as facts too. Nothing calls back into
the caller except delays and diagnostics.

What makes each part correct:

- *VCP operations*: one call speaks to one monitor; OK of a verified SET is what
  that monitor reads; the SET is sent once; the retry window is exact; the result
  code tells the caller whether something may have been written; the call ends.
- *Discovery*: an interface is used only on the selected display, whatever moves
  between the walks; advertised capabilities, gates and dispatch agree;
  references are released on every path; siblings do not get in each other's way.
- *MCCS retrieval*: the text is collected in order, within bounds, published whole
  or not at all; the largest admissible text passes; the retrieval ends.
- *Knowledge*: bounded, distinct; merge is all or nothing; what is preferred is
  most trusted; a conflict is real; a view is complete.
- *Probe*: counters are those of the observations; knowledge is of one scan; the
  abort is exact; a rescan inherits nothing.
- *MCCS parser*: it accepts the texts of the grammar and no other, and reads from
  them the codes and values they declare.
- *Profile store*: a pack is loaded whole or not at all; what a display resolves to is
  the most trusted of what was loaded; no path gains the right to write; a saved store
  can be loaded; the file survives crashes and concurrent saves.
- *Validation runners, input and picture mode*: a service is released on every path; a
  confirmed SET lands; a monitor that was changed is put back, or the report says that
  it may not be; report and return value agree.

The hazards of the code, each at its line, are in `PROJECT.json`; the properties
below were chosen for them.

## 2. Modules

### SetVerify, refining VerifiedSet

`SetVerify` is one caller of the three VCP entry points. `Call` accepts or rejects
the arguments (`ArgumentsRejected`: the policy bounds of `verify.c:9`); the steps
are the points at which the code enters the system, in its order:

| Action | Code |
|---|---|
| `FindDisplay`, `Correlate` | list index to display id; id to service and gate (`discovery.m:562-644`) |
| `CaptureIdentity`, `MatchIdentity` | the evidence before the SET and its comparison before each GET (`rss_ddc.c:244`, `:203`) |
| `ConstructForSet`, `WriteSet` | `IOAVService`, then two identical frames (`dp/set_vcp.m`) |
| `Wake` | the end of the settle or retry delay |
| `ConstructForGet`, `WriteGet`, `ReadReply` | one GET (`dp/get_vcp.m`), any reply error included |

`SetDone`, `GetFails`, `Judge` and `CannotResolve` are the orchestrator's
decisions: which result is retried, which ends the call, with which code. The
environment (`Attach`, `Detach`, `Settled`) plugs monitors in and out, reuses
display ids and list positions, and applies an accepted SET late or never.
`hotplug` names the assumption of a behaviour: under `"anytime"` monitors move
between any two steps, under `"pauses"` only while the call sleeps or no call runs.
A transfer reaches the monitor attached when the binding was made, or none: an
attachment has an epoch and is never repeated, as a service proxy is not.
`landed`, `asked`, `setWrites` and `gets` record what the bus saw of a call; the
code's guards never read them.

`VerifiedSet` is what the caller is promised, without retries, bindings or
indices: a call writes at most one monitor, confirms only that one, and its code
says whether a frame may have been taken (only `WRITE` leaves it open).
`AnswersAreHonest` is the refinement, with the mapping at the end of `SetVerify`.

`Correlate` is one step here. What can happen inside it is the next module.

### ServiceBinding

The resolution itself: walk by walk over a registry of display pipes. `ScanServices`,
`InspectService`, `ScanBranches` and `ScanDevices` are the registry walks, each of
which sees the registry of its own moment and may be cut short by an invalidated
iterator; `GateDP` and `GatePS190` are the predicates of `correlation.c` and
`discovery.m:233`, with their reasons; `Dispatch` is the provider table,
`FindPeer`, `Construct`, `Transfer` and `DropPeer` the EDID and DPCD reads, which
search the registry once more. `held` counts the references retained by each
variable. `Replug` changes a pipe and invalidates its entries (`Alive`).

### MccsRetrieval

The F3/E3 fragment loop. A text is its positions 1..n with the set of beginnings the
parser accepts (`wholes`), since a published text can be a beginning in which
parentheses close; what these are is the next two modules' matter. `Ask` sends one request; the monitor, in one of three manners
(`Answers`: full fragments, short ones, or also early ends and repeated fragments of
any offset), answers; `ExchangeFails` is every transport and frame error;
`Receive` takes or refuses a fragment by the limits of `collector_append`
(`Refusal`, `Take`), and `Parse` publishes.

### MccsParser and MccsCapabilities

`MccsParser` is the parser of `mccs_capabilities.c` as an operator: `Balance` and
`Closing` for the parentheses, `Sections`, `VcpSection` and `EnumValues` for the three
loops, `AppendFeature` for the table, with the error of each. A loop is its body
(`SectionStep`, `CodeStep`, `ValueStep`) applied as often as the text has characters;
a body that has failed or reached the end changes nothing more. Where the code tests
for the end of the range while it scans (`Past`), the model names the first position
that does not belong. One character stands for the three letters of `vcp`, one for
letters that are no digit, and four hex digits for all: the code tells no more apart,
but for the value of a byte.

`MccsCapabilities` joins it to the retrieval. It states the grammar a second time,
without a scan: which character may stand beside which at which depth of nesting
(`SectionsAreNamed`, `VcpIsWellFormed`), and what is `Declared`.
`ParserFollowsGrammar` compares the two on each text of the run and on each text that
one lost, added or changed character makes of it, and checks that `wholes` is what the
parser accepts. `MccsParserProofs` proves the same of every text.

### MonitorKnowledge

Knowledge objects, merge and resolve with the loops one route at a time. A fact
abstracts its texts to an id and a `content`, and keeps what the code compares:
equivalence (`Equivalent`), identity with provenance (`Identical`), authority
(`Authority`, confidence before source). `Consider` is `select_route` for reading
and for writing; `Published` the withdrawal of preferences in a conflict.

### Probe

One probe, created by a caller or by a `_for_display` call (`ours`, until its
scan ends), and scanned any number of times. One step per address holds both GETs;
a reply is an error of one of the four classes the code tells apart, a value, or a
value for another address. `Observe`, `CountQuick`, `CountExtended`, `Extend` and
`FactsOf` are the code's functions of that name or purpose; `Build` adds all facts or
none. `shown` is what the diagnostics' pointer to the observations points at.

### ProfileStore

Processes with a store each and one profile file. A pack is what its text says: its
profiles in order, and whether the text is whole, of this schema and supported.
`PackFault` is what `parse_pack` returns for it, through `FaultOfProfile`,
`FaultOfControl`, `ControlFault` and `EnumsConflict`, the first fault of the text first.
`Taken` and `Refused` are `load` and `add`: `LoadData`, `LoadFile` and `LoadBuiltin`
differ in where the text comes from and as what it is parsed. `Export` drops the source
of a profile, as the JSON does. `Resolution` walks the profiles in load order with one
`Compose` each: controls by id, precedence by confidence, source and specificity
(`Outranks`), and an error where two of equal authority differ.

`rss_ddc_profile_store_save_file` is one action per system call: `Open`, `Write`,
`Sync`, `Close`, `Rename`, `Unlink`, each of which may fail. `Die` is the death of a
process at any step, `PowerFails` a loss of power: what was not synced may be on the
disk in part, and since the directory is not synced a rename may be undone (`older`)
until `Flush`. `exported` and `granted` are history: what was to be saved, and which
writable controls packs other than research packs brought in.

`AtomicSave` is what a caller of save is promised, with neither a temporary file nor a
system call in it: the file becomes what the store holds in the step that answers OK, or
stays as it is. `SaveIsAtomic` maps the profile file to what it shows (`Shown`), each
store to what it is saved as and a save under way to the text it was called with.

Four things the code does that the model shows and no property rejects: a conflict
among profiles of lower authority is an error or not depending on whether the one that
outranks them was loaded before; a profile must state its confidence before its
controls; a crash during a save leaves the temporary file behind; `OK` of a save does
not outlive a loss of power, for want of a sync of the directory.

### ValidationRunners

The operations that run a short list of transactions on a service of their own. A call
begins with a `plan` (`Begin`) or is refused (`Reject`): `GetValidation`,
`SetValidation`, `AltInputRunner`, `SetInput` and `SetPictureMode` say with which.
`Resolve` is the binding of the two operations that look a display up, with the
profile and the gate they ask for (`TargetFault`); `Construct`, `Transact`,
`FailTransaction` and `Release` run the plan, of which `trace` keeps what was done.
The standard input method and the picture mode end in a plain SET (`Vcp`), whose wire is
`SetVerify`'s. `ReversibleSet` has an action for each callback it calls, in the code's
order: `PreGet`, `TargetSet`, `Settle`, `Verify`, `RestoreSet`, `RestoreSettle`,
`RestoreVerify`; `Unverified` and `Unrestored` are its two ways of going wrong.

The monitor takes what it was sent in order and late (`Take`), drops a bounded number
of values it accepted, and somebody else may change its brightness (`Touch`). `Final`
is what it will show when it has taken all it was sent.

`MonitorIsPutBack` has one exception, which is the code's: if the target was never read
back, or the monitor was behind when the call began, the original value that the last
GET reads may be from before the target was taken, and the restoring value may have been
dropped. A refused reversible SET leaves the caller's report as it was.

## 3. Runs

Every passing run explores its whole state space. Deadlock is checked except in
`mccs_retrieval`, `profile_store` and `validation_runners`, where callers stop after
`MaxCalls` calls.

| Run | Shows | Bounds, and why they suffice |
|---|---|---|
| `set_verify` | `OneMonitorPerCall`, `VerifiedIsTheTarget`, `WindowIsExhausted`, `SetIsNeverRepeated`, `AnswersAreHonest`, `CallReturns` | two monitors and three ports (a third with an unsupported provider), two ids and one attachment after the start: the least with which a sibling can take over an index, an id and a port. One retry, so that first, last and only attempt differ. The monitor that is there first and its port are fixed, since symmetry would be unsound for the liveness property. |
| `service_binding` | `StaysOnSelectedDisplay`, `CapabilitiesAreHonest`, `ReferencesAreReleased`, `SiblingsDoNotMatter` | two pipes, each in 18 contents (every provider, and each single thing wrong), one replug and a cut at any step; scoping errors need no third pipe |
| `mccs_retrieval` | `CollectedInOrder`, `RetrievalIsBounded`, `NothingPartialIsPublished`, `FullSizeIsRetrievable`, `ParserFollowsGrammar`, `RetrievalEnds` | fragments of five, a collector of ten, three requests: the code's ratio of 32, 4096 and 129 (full fragments and one for the end), with eleven texts below, at and above the limit, one section or two, with and without lists, and such as the parser refuses; a nesting of three, two codes and two values, so that each table overflows; two calls into one structure |
| `monitor_knowledge` | `FactsAreBoundedAndDistinct`, `MergeIsAllOrNothing`, `PreferredIsMostTrusted`, `ConflictIsReal`, `ViewIsComplete` | two objects of three places and five routes and one profile control: agreement, disagreement, a higher authority and another control, with overflow by add, by merge and by resolve |
| `probe` | `CountersMatchObservations`, `KnowledgeIsOfOneScan`, `AbortIsExact` | three addresses, two of them quick, a tolerance of two: a run of failures can start at the first or the second address or be broken; room for three of up to five facts |
| `profile_store` | `SavedFileIsWhole`, `SavedStoreReloads`, `WriteNeedsValidation`, `ResolutionIsMostTrusted`, `SaveIsAtomic` | two processes, three loads or saves and one crash: two saves at once, and save, crash, load; four packs that add to, outrank or contradict each other, six of one fault each and one too long, and room for three profiles and a file of four controls, so that legal packs overflow both |
| `validation_runners` | `ServiceIsReleased`, `SetLands`, `MonitorIsPutBack`, `ReportIsTrue` | three brightness values and a maximum that may be zero, so that there is a target below, above or none; two calls, so that the second finds a monitor that is behind; three values on their way, one dropped, one outside change |

`TypeOK` is checked with each of the passing runs.

Five runs show where the code does something else than its documentation says; each
is a finding in `PROJECT.json`, with the quotation:

- `edid_sibling`: after the gate the PS190 EDID read searches the whole registry for
  the branch again and can open a sibling's device. `StaysOnSelectedDisplay` states
  for EDID only what does hold: with a registry that is calm during the call.
- `correlation_reason`: the reason `NO_DISPLAY_REGISTRY_NODE` depends on which
  framebuffer came last in the registry.
- `global_uniqueness`: two PS190 displays of one product refuse each other.
- `knowledge_order`: the conflict of two routes of lower authority survives a later
  route of higher authority, so the preference depends on the order of the sources.
- `probe_enum`: an address that could not be read is reported as having its current
  value in the declared list when that list holds 0.

## 4. Fairness

`CallReturns` assumes weak fairness of the library's steps together
(`WF_vars(Step)`), `RetrievalEnds` of the retrieval's: the calling thread
is scheduled, the system calls it makes return (with any result), and sleeps end.
Nothing is assumed of monitors or of the caller; both may be idle, or misbehave,
forever. All other properties are safety and need no fairness.

## 5. Proofs

The theorems hold for every value of the constants that satisfies the modules'
`ASSUME`s, which state types, the absence of sentinel values from the sets they stand
beside, and the facts below.

**SetVerifyProofs**: `TypeCorrect`, `CallStaysWithItsMonitor`,
`VerifiedValueIsTheTargets`, `WindowBound`, `SetIsSentOnce` and the refinement,
`RefinesVerifiedSet`. `OneMonitorPerCall`
is not inductive: that the monitor a GET reaches is the one the SET reached follows
from nothing the call itself sees. The invariant adds why. Attachments have growing
epochs and share no port or id (`LinksOK`); a binding names one attachment
(`BindingOK`); whenever a call is about to transfer and its attachment still exists,
the captured UUID is that attachment's monitor's (`EvidenceOK`), and a binding whose
attachment is gone transfers nothing. So all a call touched has the captured UUID
(`TouchedOK`), and UUIDs are unique (`UuidAssumption`: that macOS gives two
monitors two UUIDs is assumed, and is what the code relies on). `ControlOK`,
`WindowOK` and `FramesOK` count attempts, GETs and frames by location. The refinement
maps each step to a step of `VerifiedSet` or a stutter: a failure at attempt 0 is a
refusal because no frame has landed, a later one a report because both have. What it
needs beyond `IInv` is `ProviderOK`: a verification GET is dispatched to the provider
that took the SET, so it is never refused as unsupported. The frames landing on one
monitor and a confirmed value coming from it are the first two theorems, used in the
state after the step.

**MccsRetrievalProofs**: `TypeCorrect`, `FragmentsAreInOrder`, `Bounded`,
`OnlyWholeTextsArePublished`. `CollectorOK` (what is collected is the beginning that
ends at the next offset), `CountsOK` and `ResultOK` make the invariant inductive. The
proof needs `MaxBytes <= OffsetMax`: the collector is smaller than a 16-bit offset,
which is why the overflow code can never be returned. `FullSizeFits`, that the
request limit never refuses a text that fits, needs how many requests a collector of
full fragments takes, `MaxBytes <= (MaxRequests - 1) * FragmentMax` (the code's 4096,
129 and 32), and that of a monitor that fills its fragments what is collected is as
many full fragments as were counted, or everything (`ExactOK`).

**ProfileStoreProofs**: all five properties of the run, its type invariant and the
refinement of `AtomicSave`. `FileStaysWhole` needs what a
save has at each step (`TemporaryOK`: from the rename on, the temporary file is whole
and synced, and its text is one that was to be saved) and that everything the disk may
show is whole and synced (`DiskOK`). `StoresReload` needs that every store holds profiles
that a pack with their source may hold (`StoresOK`); that what is fit for one source
is fit for local and validated is `ProfileTrust`, that the first fault of a list is none
exactly if no place has one is `FirstFaultIs`, by the well-foundedness of `Nat`.
`ResolutionTrusts` is an induction over the profiles of a store, and `Walk` is a
recursive function: `WalkIs` shows that it has a value and `WalkOK` that after each
profile the control in effect is the best of all that was offered so far
(`ComposedOK`), both by taking the least number of profiles at which they fail. A
profile that was loaded names a control once (`NamedOnce`, from what `profile`
refuses), so that a profile offers one candidate for it (`OfferedIs`); and the order
of `Outranks` is that of a single number because the score, four and at most the
number of optional parts, stays below what a source counts (`OutranksIsHeavier`, from
`PredicateAssumption`; the code has three such parts). `WritesAreValidated` follows the
right to write wherever a profile goes, through stores, texts to be saved, the file and
what it may become (`GrantedOK`), and uses the resolution theorem for the last step,
from what is in effect to what is held. `SavesAreAtomic` maps `Rename` to the atomic
step, every other step of a save to a stutter or to giving up; it needs that the
temporary file of a save holds the text of that save (`FollowsOK`).

**ValidationRunnersProofs**: all five properties of the run. `ControlOK` and `PlanOK`
tie operation, location and plan together. `MonitorsArePutBack` rests on
`RestorationOK`: from the accepted target on, unless somebody else interfered, what the
monitor shows and has still to take is one of a few shapes (`Owes`, `Shows`), and a
reading of the original value after the target was seen leaves only that in which the
restoring value was taken. `ReportsAreTrue` is by location; `ServicesAreReleased` by
the shape of the trace (`TraceOK`), `SetsLand` by that of plan and queue (`Landing`).

**MonitorKnowledgeProofs**: `TypeCorrect`, `KnowledgeIsBounded`, `PreferenceIsSound`,
`ConflictsAreReal`, `MergeLosesNothing`, `ViewsAreComplete`. `ViewOK` says of a resolution that runs what the properties say of
a finished one: what is selected so far is of the highest authority so far, all of
that authority agree with it unless a conflict was seen (`Chosen`), and a conflict
was seen only if two routes clash. `SelectionStaysBest` is the step of `select_route`. The last two
theorems need that the loops have covered what lies behind them (`CInv`).

**ServiceBindingProofs**: all five properties of `service_binding`. `Owned` says who
holds which reference at each location, `Gated` and `Paired` what a passed gate has
established of provider and devices, `Asked` what a transfer was asked of and
`Refused` why a call was refused. `Undisturbed` carries `SiblingsNeverMatter`: while
nothing was replugged and the selected pipe is complete, every walk so far has found
it.

**ProbeProofs**: all four properties of `probe`. `KnowledgeAgrees` needs that an
observation is read exactly if its category says so (`ObservationsOK`) and that what is
said to be advertised is in the declaration the probe still holds (`DeclaredOK`).
`AbortsExactly` needs that the failures counted are the last observations in a row and
that the one before them is none (`ExtendedOK`). For the counters, each observation adds one to
the counts of its kind (`NumberAfter`), and the addresses not yet reached are unattempted.

**MccsParserProofs**: `ParserIsCorrect`, of every sequence over the alphabet, with
any bound on its length, its nesting and the two tables, and from it
`ParserAlwaysRight`, the property of the run for any texts. The parser goes from left
to right and the grammar speaks of neighbours at a depth, so the proof has to show
that no position is judged in another place than the one the parser stands in.

- *Places.* Balance makes the depth a natural number that moves by one (`Depths`);
  a parenthesis closes at the first place one level up, and all between is deeper
  (`Enclosed`). What is framed by such a pair, or is the whole text, is `Framed`.
- *What was read.* `Holds(t, p, s)`: the features of `s` are the codes before `p`, one
  each, their offsets and counts delimit the values of that code's list in order
  (`Describes`, by the rank of a value in its list), and the tables are as long as
  there are codes and values. `Sound` adds that all positions before `p` are well
  placed and the codes distinct. `ValuesAreRead`, `CodeStepKeeps` and `SectionStepKeeps`
  are the steps of the three loops: each keeps `Sound` up to where it stands next.
- *What was refused.* The same steps show of each error that the grammar forbids the
  text too: a third digit or a single one, a missing space or an empty list
  (`NotAByte` and the cases of `CodeStepKeeps`), a code declared twice, a table too
  small (`MoreIsRead`), a section without a name (`SectionMustBeNamed`). So an error
  at any step means that the text is not `Good`, and no error that it is
  (`SectionsAreRead`).
- *Loops.* A recursive function over `0..n` has a value (`LoopRuns`), and what moves on
  with each step unless it is done is done after as many steps as there are places
  (`LoopEnds`): the bound by the length of the text cuts nothing off. Induction is
  `Induct`, from the least counterexample.

Only model-checked: `CallReturns` and `RetrievalEnds`, which are liveness. What is
proved of them is the half that needs no fairness: `CallIsShort` and
`RetrievalIsShort` count the steps a call has left (`StepsLeft`), show that each step
of the library leaves fewer and that a replug or a monitor's delay adds none, and bound
them, by eight for each attempt of the policy and eight before the first, and by two
for each request and two. That the library can always take its next step, which
`ENABLED` would say, is left to the two properties.

## 6. Abstractions

- Values have a range of two or three; `uint16_t` matters only where the code narrows
  it (`Probe`'s comparison of a low byte) or adds to it (the MCCS offset).
- Checksums, byte positions, names and delays are not modelled; which replies are
  refused, and with which error, is. Time is not: a delay ends at some moment.
- An allocation that can fail is modelled where its failure leaves state behind
  (knowledge, probe, MCCS); elsewhere it is one of the error codes of its step.
- `SetVerify` binds a display in one step, `ServiceBinding` opens that step. Their
  composition (a Set-and-Verify over walks) is not built: the walks' outcomes that
  `SetVerify` assumes, the selected display's service or a refusal, are what
  `StaysOnSelectedDisplay` checks.
- Registry, monitors, CoreGraphics ids and the caller are external and modelled from
  what the code asks of them.

Not modelled, and why, is in `PROJECT.json` under `components`: the command line and
the research labs hold no state of interest; the EDID and DPCD decoders and the bytes of
the frames are pure functions; the listing of displays, with its two-call sizing, is the
one operation of the library that has a hazard and no model.

## 7. Plan

What could follow, in order of importance:

1. `DisplayList`: the two-call sizing of `rss_macos_discover_displays` and the CLI's
   use of it, with displays arriving between the system calls.
2. Composition: a `_for_display` probe over `SetVerify`'s monitors (each GET looks the
   index up again, `probe.c:598`), and the resolution of `ServiceBinding` inside
   `SetVerify`'s `Correlate`.
3. The same count of the steps left (end of section 5) for the scans of `Probe`, the
   plans of `ValidationRunners` and the loops of `MonitorKnowledge`, and a proof that
   the walks of `ServiceBinding` implement the one-step binding of `SetVerify`.
