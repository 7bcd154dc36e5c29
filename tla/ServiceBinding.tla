--------------------------- MODULE ServiceBinding ---------------------------
(***************************************************************************)
(* How an operation on a selected display finds the IOKit services it      *)
(* talks to: the correlation of platform/macos/discovery.m, the gates of   *)
(* core/correlation.c, the provider table of core/provider.c, the dispatch *)
(* of providers/dispatch.c, and the devices the EDID and DPCD reads use.   *)
(*                                                                         *)
(* The resolver walks the whole registry up to four times and monitors     *)
(* come and go between the walks.  A walk whose iterator the system        *)
(* invalidates ends early, and the code takes the entries it has seen for  *)
(* all of them.  A display pipe is one framebuffer with the entries the    *)
(* registry lists for what is plugged in there; a display id names a pipe. *)
(***************************************************************************)
EXTENDS Integers, FiniteSets, Sequences

CONSTANTS
  Pipes,          \* 1..n, in registry order
  Contents,       \* what a pipe can show
  Role,           \* EPIC role of the entries below a pipe
  Profiled,       \* the product and role of the one profiled LG monitor
  MaxNodes,       \* most entries of one kind below one pipe
  MaxReplugs,     \* bound on the changes of the registry
  WalksAreCut,    \* whether a walk may be invalidated half-way
  None

Providers == {"PS190", "DCPDP13", "DCPDP_SERVICE", "MCDP29XX", "UNKNOWN"}

(* rss_ddc_provider_capabilities *)
Capabilities(class) ==
  CASE class = "DCPDP13" -> {"get", "set", "dpcd", "mccs", "lg_alt"}
    [] class = "DCPDP_SERVICE" -> {"get", "set", "dpcd"}
    [] class = "PS190" -> {"get", "set", "edid", "dpcd"}
    [] OTHER -> {}

Ops == {"info", "get", "set", "edid", "dpcd", "dpcd_path", "mccs", "lg_alt",
        "picture"}

ServiceNode == [external : BOOLEAN, provider : Providers \cup {None},
                epic : BOOLEAN, role : BOOLEAN, unit_zero : BOOLEAN,
                ui : BOOLEAN]

ASSUME PipeAssumption ==
  /\ Pipes = 1..Cardinality(Pipes) /\ IsFiniteSet(Pipes)
  /\ MaxNodes \in Nat /\ MaxReplugs \in Nat /\ WalksAreCut \in BOOLEAN
ASSUME ContentAssumption ==
  \A c \in Contents :
    /\ c.display \in BOOLEAN /\ c.builtin \in BOOLEAN
    /\ c.service \in Seq(ServiceNode) /\ Len(c.service) <= MaxNodes
    /\ Len(c.transport) <= MaxNodes /\ Len(c.device) <= MaxNodes
ASSUME RoleAssumption ==
  \A p, q \in Pipes : Role[p] = Role[q] => p = q

VARIABLES
  registry,       \* what each pipe shows
  replugs,        \* changes of the registry so far
  since,          \* when a pipe last changed: its entries do not survive it
  calm,           \* no walk of the current call was cut short or overtaken
  pc, op, target, \* where the call is, its operation and display
  name, external, \* product name and kind of the display, copied early
  service,        \* binding->service_proxy
  provider, caps, transport,   \* read from the service's EPIC parent
  branch, device, \* BranchDeviceID and binding->dcpdp_device_proxy
  peer,           \* the device a DPCD or EDID read constructs
  held,           \* references retained, by the variable that holds them
  ret, reason     \* what the call returned, and correlation_failure

system == <<registry, replugs, since>>
display == <<name, external>>
epic == <<provider, caps, transport>>
proxies == <<service, branch, device, peer>>
answer == <<ret, reason>>
vars == <<system, calm, pc, op, target, display, proxies, epic, held, answer>>

Slots == {"service", "device", "peer"}
Locations == {"idle", "list", "name", "services", "inspect", "gate_dp",
              "branches", "devices", "gate_ps190", "dispatch", "peers",
              "construct", "transfer", "release", "returned"}

(* A retained registry entry: where and since when it is there. *)
Entry == [pipe : Pipes, since : 0..MaxReplugs]
Proxy == [entry : Entry, node : ServiceNode]

ASSUME NoneAssumption ==
  /\ None \notin Proxy /\ None \notin Entry /\ None \notin Pipes
  /\ None \notin Providers
  /\ \A p \in Pipes : Role[p] # None

TypeOK ==
  /\ registry \in [Pipes -> Contents] /\ replugs \in 0..MaxReplugs
  /\ since \in [Pipes -> 0..MaxReplugs] /\ calm \in BOOLEAN
  /\ pc \in Locations
  /\ op \in Ops \cup {None} /\ target \in Pipes \cup {None}
  /\ external \in BOOLEAN
  /\ service \in Proxy \cup {None}
  /\ {device, peer} \subseteq Entry \cup {None}
  /\ provider \in Providers /\ caps \subseteq Ops
  /\ held \in [Slots -> 0..1]

-----------------------------------------------------------------------------
(* The registry. *)

Replug(p, content) ==
  /\ replugs < MaxReplugs
  /\ registry[p] # content
  /\ registry' = [registry EXCEPT ![p] = content]
  /\ replugs' = replugs + 1
  /\ since' = [since EXCEPT ![p] = replugs + 1]
  /\ calm' = FALSE
  /\ UNCHANGED <<pc, op, target, display, proxies, epic, held, answer>>

Alive(entry) == since[entry.pipe] = entry.since

EntryAt(n) == [pipe |-> n[1], since |-> since[n[1]]]

(* A walk sees the entries of a kind up to a cut, pipe after pipe. *)
End == <<Cardinality(Pipes), MaxNodes>>
Cuts == IF WalksAreCut THEN {<<0, 0>>} \cup Pipes \X (0..MaxNodes)
                       ELSE {End}

Walk(kind, cut) ==
  {n \in Pipes \X (1..MaxNodes) :
     /\ n[2] \in DOMAIN registry[n[1]][kind]
     /\ n[1] < cut[1] \/ (n[1] = cut[1] /\ n[2] <= cut[2])}

Node(kind, n) == registry[n[1]][kind][n[2]]

-----------------------------------------------------------------------------
(* How a call ends. *)

(* Mutant: a PS190 refusal forgets that it released the device. *)
MutRefuse(code, why) ==
  /\ pc' = "release" /\ ret' = code /\ reason' = why
  /\ held' = IF pc = "gate_ps190" /\ device # None
             THEN [held EXCEPT !["device"] = @ - 1] ELSE held
  /\ UNCHANGED device

(* Every refusal reaches rss_macos_release_binding; that of the PS190 gate *)
(* has released and cleared the device proxy by then.                      *)
Refuse(code, why) ==
  /\ pc' = "release" /\ ret' = code /\ reason' = why
  /\ IF pc = "gate_ps190" /\ device # None
     THEN held' = [held EXCEPT !["device"] = @ - 1] /\ device' = None
     ELSE UNCHANGED <<held, device>>

Continue(l) == pc' = l /\ UNCHANGED <<answer, held, device>>

Conclude(code) == Refuse(code, reason)

Release ==
  /\ pc = "release"
  /\ held' = [s \in Slots |->
                held[s] - (IF \/ s = "service" /\ service # None
                              \/ s = "device" /\ device # None THEN 1 ELSE 0)]
  /\ service' = None /\ device' = None /\ branch' = None /\ peer' = None
  /\ pc' = "returned"
  /\ UNCHANGED <<system, calm, op, target, display, epic, answer>>

-----------------------------------------------------------------------------
(* rss_macos_resolve_binding, walk by walk. *)

Call(o) ==
  /\ pc \in {"idle", "returned"}
  /\ pc' = "list" /\ op' = o /\ calm' = TRUE
  /\ target' = None /\ name' = None /\ external' = FALSE
  /\ provider' = "UNKNOWN" /\ caps' = {} /\ transport' = None
  /\ ret' = None /\ reason' = "NONE"
  /\ UNCHANGED <<system, proxies, held>>

FindDisplay ==
  /\ pc = "list"
  /\ \/ \E p \in Pipes : registry[p].display /\ target' = p /\ Continue("name")
     \/ /\ \E e \in {"NOT_FOUND", "DISCOVERY", "SYSTEM"} :
             Refuse(e, "NO_SELECTED_DISPLAY")
        /\ UNCHANGED target
  /\ UNCHANGED <<system, calm, op, display, service, branch, peer, epic>>

CopyName ==
  /\ pc = "name"
  /\ external' = ~registry[target].builtin
  /\ name' = IF registry[target].display THEN registry[target].product
                                         ELSE "Unknown Display"
  /\ Continue("services")
  /\ UNCHANGED <<system, calm, op, target, service, branch, peer, epic>>

(* Mutant: the scope is never left again. *)
MutInScope(n) == n[1] >= target

(* The framebuffer the walk passed last is the display's own. *)
InScope(n) == n[1] = target

ScanServices ==
  /\ pc = "services"
  /\ \E cut \in Cuts :
       LET found == {n \in Walk("service", cut) :
                       InScope(n) /\ Node("service", n).external}
       IN  /\ calm' = (calm /\ cut = End)
           /\ CASE ~registry[target].display ->
                     /\ Refuse("DISCOVERY", "NO_DISPLAY_REGISTRY_NODE")
                     /\ UNCHANGED service
                [] registry[target].display /\ Cardinality(found) > 1 ->
                     /\ Refuse("SAFETY_GATE", "AMBIGUOUS_SERVICE_PROXY")
                     /\ UNCHANGED service
                [] registry[target].display /\ found = {} ->
                     /\ Refuse("DISCOVERY",
                               IF cut[1] = target
                               THEN "NO_SERVICE_PROXY"
                               ELSE "NO_DISPLAY_REGISTRY_NODE")
                     /\ UNCHANGED service
                [] OTHER ->
                     /\ \E n \in found : Cardinality(found) = 1
                          /\ service' = [entry |-> EntryAt(n),
                                         node |-> Node("service", n)]
                     /\ held' = [held EXCEPT !["service"] = @ + 1]
                     /\ pc' = "inspect" /\ ret' = ret
                     /\ reason' = "NO_SERVICE_PROXY" /\ UNCHANGED device
  /\ UNCHANGED <<system, op, target, display, branch, peer, epic>>

(* The EPIC parent of an entry that is gone cannot be found any more. *)
Parent == IF Alive(service.entry) THEN service.node.provider ELSE None

ServiceRole == IF service.node.role THEN Role[service.entry.pipe] ELSE None

InspectService ==
  /\ pc = "inspect"
  /\ LET p == IF Parent = None THEN "UNKNOWN" ELSE Parent
         t == IF Alive(service.entry) THEN ServiceRole ELSE None
     IN  /\ provider' = p /\ transport' = t
         /\ caps' = Capabilities(p) \cup
              (IF external /\ p = "DCPDP13" /\ <<name, t>> = Profiled
               THEN {"picture"} ELSE {})
         /\ IF Parent = None
            THEN Refuse("DISCOVERY", "MISSING_SERVICE_PROVIDER")
            ELSE Continue(CASE p \in {"DCPDP13", "DCPDP_SERVICE"} -> "gate_dp"
                            [] p = "PS190" -> "branches"
                            [] OTHER -> "dispatch")
  /\ UNCHANGED <<system, calm, op, target, display, service, branch, peer>>

(* rss_ddc_evaluate_dp_correlation, rss_ddc_evaluate_dcpdpservice_correlation *)
GateDP ==
  /\ pc = "gate_dp"
  /\ CASE ~external -> Refuse("SAFETY_GATE", "NOT_EXTERNAL")
       [] external /\ Parent # provider ->
            Refuse("SAFETY_GATE", "UNEXPECTED_EPIC_PARENT")
       [] external /\ Parent = provider /\ ~service.node.ui ->
            Refuse("SAFETY_GATE", "UI_UNSUPPORTED")
       [] OTHER -> Continue("dispatch")
  /\ UNCHANGED <<system, calm, op, target, display, service, branch, peer,
                 epic>>

(* active_branch_for_product: every active transport of the product name,  *)
(* wherever it is; one without a BranchDeviceID does not count.            *)
ScanBranches ==
  /\ pc = "branches"
  /\ \E cut \in Cuts :
       LET selected == {n \in Walk("transport", cut) :
                          LET t == Node("transport", n)
                          IN  t.active /\ t.product = name}
           found == {n \in selected : Node("transport", n).branch # None}
       IN  /\ calm' = (calm /\ cut = End)
           /\ CASE found = {} -> /\ branch' = None
                                 /\ reason' = IF selected = {}
                                              THEN "NO_ACTIVE_BRANCH"
                                              ELSE "MISSING_BRANCH_DEVICE_ID"
                                 /\ pc' = "gate_ps190"
                [] Cardinality(found) > 1 ->
                                 /\ branch' = None
                                 /\ reason' = "AMBIGUOUS_ACTIVE_BRANCH"
                                 /\ pc' = "gate_ps190"
                [] OTHER ->      /\ \E n \in found :
                                      branch' = Node("transport", n).branch
                                 /\ pc' = "devices" /\ UNCHANGED reason
  /\ UNCHANGED <<system, op, target, display, service, device, peer, epic,
                 held, ret>>

Branched(cut) == {n \in Walk("device", cut) :
                    /\ Node("device", n).external
                    /\ Node("device", n).branch = branch}

(* branch_has_unique_device_proxy *)
ScanDevices ==
  /\ pc = "devices"
  /\ \E cut \in Cuts :
       /\ calm' = (calm /\ cut = End)
       /\ IF Cardinality(Branched(cut)) = 1
          THEN /\ \E n \in Branched(cut) :
                    /\ device' = EntryAt(n)
                    /\ reason' = IF Node("device", n).role THEN reason
                                 ELSE "UNEXPECTED_EPIC_PARENT"
                    /\ branch' = IF Node("device", n).role THEN branch ELSE None
               /\ held' = [held EXCEPT !["device"] = @ + 1]
          ELSE /\ reason' = IF Branched(cut) = {}
                            THEN "NO_DCPDP_DEVICE_PROXY"
                            ELSE "AMBIGUOUS_DCPDP_DEVICE_PROXY"
               /\ branch' = None
               /\ UNCHANGED <<device, held>>
  /\ pc' = "gate_ps190"
  /\ UNCHANGED <<system, op, target, display, service, peer, epic, ret>>

(* Mutant: the roles of service and device are not compared. *)
MutSameRole == TRUE

SameRole == ServiceRole = Role[device.pipe]

(* rss_ddc_evaluate_ps190_correlation, after branch and device were found; *)
(* `branch' is None from here on where they were not.                      *)
GatePS190 ==
  /\ pc = "gate_ps190"
  /\ CASE ~external -> Refuse("SAFETY_GATE", "NOT_EXTERNAL")
       [] external /\ branch = None -> Refuse("SAFETY_GATE", reason)
       [] external /\ branch # None /\ Parent # "PS190" ->
            Refuse("SAFETY_GATE", "UNEXPECTED_EPIC_PARENT")
       [] external /\ branch # None /\ Parent = "PS190" ->
            LET s == service.node
            IN  CASE ~s.epic -> Refuse("SAFETY_GATE", "UNEXPECTED_EPIC_PARENT")
                  [] s.epic /\ ~s.unit_zero ->
                       Refuse("SAFETY_GATE", "UNIT_MISMATCH")
                  [] s.epic /\ s.unit_zero /\ ~s.ui ->
                       Refuse("SAFETY_GATE", "UI_UNSUPPORTED")
                  [] s.epic /\ s.unit_zero /\ s.ui /\ ~SameRole ->
                       Refuse("SAFETY_GATE", "ROLE_MISMATCH")
                  [] OTHER -> Continue("dispatch")
  /\ UNCHANGED <<system, calm, op, target, display, service, branch, peer,
                 epic>>

-----------------------------------------------------------------------------
(* What the operation does with the binding. *)

(* The providers with a backend for the operation. *)
Served(o) ==
  CASE o \in {"get", "set"} -> {"PS190", "DCPDP13", "DCPDP_SERVICE"}
    [] o = "edid" -> {"PS190"}
    [] o = "dpcd" -> {"PS190", "DCPDP13", "DCPDP_SERVICE"}
    [] o = "dpcd_path" -> {"DCPDP13", "DCPDP_SERVICE"}
    [] o \in {"mccs", "lg_alt", "picture"} -> {"DCPDP13"}

(* Mutant: an operation tied to one monitor runs on every DCPDP13 display. *)
MutDispatch ==
  /\ pc = "dispatch"
  /\ CASE op = "info" -> Conclude("OK")
       [] op # "info" /\ provider \notin Served(op) ->
            Conclude("UNSUPPORTED_CAPABILITY")
       [] OTHER -> Continue(IF op \in {"dpcd", "dpcd_path", "edid"}
                            THEN "peers" ELSE "construct")
  /\ UNCHANGED <<system, calm, op, target, display, service, branch, peer,
                 epic>>

Dispatch ==
  /\ pc = "dispatch"
  /\ CASE op = "info" -> Conclude("OK")
       [] op # "info" /\ provider \notin Served(op) ->
            Conclude(IF provider = "UNKNOWN" /\ op # "dpcd_path"
                     THEN "UNSUPPORTED_PROVIDER" ELSE "UNSUPPORTED_CAPABILITY")
       [] op \in {"lg_alt", "picture"} /\ provider \in Served(op)
            /\ <<name, transport>> # Profiled ->
            Conclude("UNSUPPORTED_CAPABILITY")
       [] OTHER -> Continue(IF op \in {"dpcd", "dpcd_path", "edid"}
                            THEN "peers" ELSE "construct")
  /\ UNCHANGED <<system, calm, op, target, display, service, branch, peer,
                 epic>>

(* dp_device_candidates_for_role *)
SameRoleDevices(cut) ==
  {n \in Walk("device", cut) : LET d == Node("device", n)
                               IN  /\ d.external /\ d.epic /\ d.role
                                   /\ Role[n[1]] = ServiceRole}

(* ps190_dcpdp_device_for_branch and ps190_paired_av_device: the device is *)
(* searched for again, by its branch only.                                 *)
PairedDevices(cut) ==
  IF Cardinality(Branched(cut)) = 1
  THEN {n \in Branched(cut) : Node("device", n).av = 1} ELSE {}

FindPeer ==
  /\ pc = "peers"
  /\ IF op = "dpcd" /\ provider = "PS190"
     THEN /\ peer' = device /\ Continue("construct")
          /\ UNCHANGED calm
     ELSE \E cut \in Cuts :
            LET found == IF op = "edid" THEN PairedDevices(cut)
                         ELSE IF Alive(service.entry) /\ ServiceRole # None
                              THEN SameRoleDevices(cut) ELSE {}
            IN  /\ calm' = (calm /\ cut = End)
                /\ IF Cardinality(found) # 1
                   THEN Conclude("SAFETY_GATE") /\ UNCHANGED peer
                   ELSE IF op = "dpcd_path"
                   THEN Conclude("OK") /\ UNCHANGED peer
                   ELSE /\ \E n \in found : peer' = EntryAt(n)
                        /\ held' = [held EXCEPT !["peer"] = @ + 1]
                        /\ pc' = "construct" /\ UNCHANGED <<answer, device>>
  /\ UNCHANGED <<system, op, target, display, service, branch, epic>>

(* The entry an interface is constructed on. *)
Endpoint == IF op \in {"dpcd", "edid"} THEN peer ELSE service.entry

DropPeer == [held EXCEPT !["peer"] = 0]

(* The interface of an entry that is gone cannot be constructed; an EDID   *)
(* read lets go of the device as soon as it has its interface.             *)
Construct ==
  /\ pc = "construct"
  /\ \/ /\ Alive(Endpoint) /\ pc' = "transfer" /\ UNCHANGED answer
        /\ held' = IF op = "edid" THEN DropPeer ELSE held
     \/ /\ pc' = "release" /\ ret' = "SERVICE_CONSTRUCTION"
        /\ held' = DropPeer /\ UNCHANGED reason
  /\ UNCHANGED <<system, calm, op, target, display, proxies, epic>>

(* One failure stands for those of the transfer. *)
Transfer ==
  /\ pc = "transfer"
  /\ \E code \in {"OK", "TRANSFER"} : ret' = code
  /\ pc' = "release"
  /\ held' = DropPeer
  /\ UNCHANGED <<system, calm, op, target, display, proxies, epic, reason>>

-----------------------------------------------------------------------------
Init ==
  /\ registry \in [Pipes -> Contents]
  /\ replugs = 0 /\ since = [p \in Pipes |-> 0] /\ calm = TRUE
  /\ pc = "idle" /\ op = None /\ target = None
  /\ name = None /\ external = FALSE
  /\ service = None /\ branch = None /\ device = None /\ peer = None
  /\ provider = "UNKNOWN" /\ caps = {} /\ transport = None
  /\ held = [s \in Slots |-> 0]
  /\ ret = None /\ reason = "NONE"

Next ==
  \/ \E p \in Pipes, c \in Contents : Replug(p, c)
  \/ \E o \in Ops : Call(o)
  \/ FindDisplay \/ CopyName \/ ScanServices \/ InspectService \/ GateDP
  \/ ScanBranches \/ ScanDevices \/ GatePS190
  \/ Dispatch \/ FindPeer \/ Construct \/ Transfer \/ Release

Spec == Init /\ [][Next]_vars
-----------------------------------------------------------------------------
(* Properties. *)

(* Whatever is replugged between the walks, and however short a walk is    *)
(* cut, an interface is used only on the pipe of the selected display.  An *)
(* EDID read searches by branch alone: for it this takes a calm registry.  *)
StaysOnSelectedDisplay ==
  pc = "transfer" /\ (op # "edid" \/ calm) => Endpoint.pipe = target

(* An operation that touches a monitor is one its capabilities advertise,  *)
(* and one refused as unsupported is not, the LG input excepted, which is  *)
(* advertised by the provider and granted by the profile.                  *)
CapabilitiesAreHonest ==
  /\ pc \in {"construct", "transfer"} => op \in caps
  /\ pc = "release" /\ ret \in {"UNSUPPORTED_PROVIDER", "UNSUPPORTED_CAPABILITY"}
       => op \notin caps \/ op = "lg_alt"

(* Every reference a walk retained is released once, on every path out.    *)
ReferencesAreReleased ==
  pc \in {"idle", "returned"} => held = [s \in Slots |-> 0]

(* A display that has everything its provider's gate asks for. *)
Complete(p) ==
  /\ registry[p].display /\ ~registry[p].builtin
  /\ \E n \in Walk("service", End) :
       /\ n[1] = p /\ Node("service", n).external
       /\ \A m \in Walk("service", End) : m[1] = p => m = n
       /\ LET s == Node("service", n)
          IN  s.provider \in {"DCPDP13", "DCPDP_SERVICE"} /\ s.ui

(* A display of the DP family that is complete by itself is bound,         *)
(* whatever the other pipes show: no global uniqueness is asked for.       *)
SiblingsDoNotMatter ==
  calm /\ pc = "release" /\ target # None /\ Complete(target)
    => ret \notin {"SAFETY_GATE", "DISCOVERY"} \/ op \in {"dpcd", "dpcd_path"}

(* architecture.md: EDID uses the same selected-display correlation and    *)
(* never scans global displays or borrows a sibling binding.               *)
EdidComesFromSelectedDisplay ==
  pc = "transfer" /\ op = "edid" => Endpoint.pipe = target

(* macos_internal.h: correlation_failure is the exact predicate that       *)
(* rejected the binding.                                                   *)
ReasonIsExact ==
  calm /\ pc = "release" /\ ret = "DISCOVERY"
       /\ reason = "NO_DISPLAY_REGISTRY_NODE" => ~registry[target].display

(* architecture.md: the resolver requires uniqueness only after candidates *)
(* are scoped to the selected display.                                     *)
OnlyScopedUniqueness ==
  calm /\ pc = "release" /\ ret = "SAFETY_GATE"
       /\ reason \in {"AMBIGUOUS_ACTIVE_BRANCH", "AMBIGUOUS_DCPDP_DEVICE_PROXY"}
    => \E kind \in {"transport", "device"} : Len(registry[target][kind]) > 1
=============================================================================
