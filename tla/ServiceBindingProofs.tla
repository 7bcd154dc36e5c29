------------------------ MODULE ServiceBindingProofs ------------------------
(***************************************************************************)
(* That a call stays on the display it selected, is refused exactly when   *)
(* the capabilities say so, returns every reference, and minds no sibling; *)
(* for any number of pipes and contents, and wherever the walks are cut    *)
(* and the registry changes.                                               *)
(***************************************************************************)
EXTENDS ServiceBinding, FiniteSetTheorems, TLAPS

(* Before a service is bound; while it is, in the order of the steps; and  *)
(* once its provider is known.                                             *)
Early == {"idle", "list", "name", "services", "returned"}
Known == {"gate_dp", "branches", "devices", "gate_ps190", "dispatch", "peers",
          "construct", "transfer"}
Bound == {"inspect"} \cup Known
DPFamily == {"DCPDP13", "DCPDP_SERVICE"}

Started ==
  /\ pc # "idle" => op \in Ops
  /\ pc = "list" => target = None
  /\ pc \in Bound \cup {"name", "services"} => target \in Pipes

(* Who holds a reference, and where the service is. *)
Owned ==
  /\ held["service"] = IF service # None THEN 1 ELSE 0
  /\ held["device"] = IF device # None THEN 1 ELSE 0
  /\ pc \notin {"construct", "transfer"} => held["peer"] = 0
  /\ pc \in Early => service = None
  /\ pc \in Early \cup {"inspect", "gate_dp", "branches", "devices"} => device = None
  /\ pc \in Bound => service # None /\ service.entry.pipe = target

(* What the gates have established of the provider. *)
Picture == IF external /\ provider = "DCPDP13" /\ <<name, transport>> = Profiled
           THEN {"picture"} ELSE {}

Gated ==
  /\ pc \in Known => caps = Capabilities(provider) \cup Picture
  /\ pc = "gate_dp" => provider \in DPFamily
  /\ pc \in {"branches", "devices", "gate_ps190"} => provider = "PS190"
  /\ pc \in {"dispatch", "peers"} /\ provider \in DPFamily => external

(* The device of a PS190 display: of the display's own role, and in a      *)
(* registry that keeps still the only one of its branch.                   *)
Paired ==
  /\ pc = "devices" => branch # None
  /\ pc = "gate_ps190" /\ branch # None => device # None
  /\ pc \in {"dispatch", "peers"} /\ provider = "PS190" =>
       branch # None /\ device # None /\ device.pipe = target
  /\ calm /\ pc \in {"gate_ps190", "dispatch", "peers"} /\ device # None /\ branch # None
       => \A n \in Branched(End) : n[1] = device.pipe

Asked ==
  /\ pc = "peers" => op \in {"dpcd", "dpcd_path", "edid"} /\ provider \in Served(op)
  /\ pc \in {"construct", "transfer"} =>
       /\ op \in caps
       /\ op # "edid" \/ calm => Endpoint.pipe = target

Refused ==
  pc = "release" /\ ret \in {"UNSUPPORTED_PROVIDER", "UNSUPPORTED_CAPABILITY"}
    => op \notin caps \/ op = "lg_alt"

(* A complete display in a registry that keeps still. *)
Undisturbed ==
  calm /\ target # None /\ Complete(target) =>
    /\ pc \in Bound \cup {"services"} => external
    /\ pc \in Bound =>
         /\ Alive(service.entry) /\ service.node.provider \in DPFamily
         /\ service.node.ui
    /\ pc \in Known => provider = service.node.provider
    /\ pc = "release" =>
         ret \notin {"SAFETY_GATE", "DISCOVERY"} \/ op \in {"dpcd", "dpcd_path"}

Inv == TypeOK /\ Started /\ Owned /\ Gated /\ Paired /\ Asked /\ Refused /\ Undisturbed

-----------------------------------------------------------------------------
(* What a walk finds. *)

LEMMA WalkFinds ==
  ASSUME TypeOK, NEW kind, NEW cut, NEW n \in Walk(kind, cut)
  PROVE  /\ n[1] \in Pipes /\ EntryAt(n) \in Entry /\ EntryAt(n).pipe = n[1]
         /\ EntryAt(n) # None /\ Alive(EntryAt(n))
<1>1. n[1] \in Pipes
  BY DEF Walk
<1>2. EntryAt(n) \in Entry
  BY <1>1 DEF EntryAt, Entry, TypeOK
<1>3. EntryAt(n).pipe = n[1] /\ EntryAt(n).since = since[n[1]]
  BY DEF EntryAt
<1> QED
  BY <1>1, <1>2, <1>3, NoneAssumption DEF Alive

LEMMA WalkFindsService ==
  ASSUME TypeOK, NEW cut, NEW n \in Walk("service", cut)
  PROVE  Node("service", n) \in ServiceNode
<1>1. n[1] \in Pipes /\ n[2] \in DOMAIN registry[n[1]].service
  BY DEF Walk
<1>2. registry[n[1]].service \in Seq(ServiceNode)
  BY <1>1, ContentAssumption DEF TypeOK
<1>3. registry[n[1]].service[n[2]] \in ServiceNode
  BY <1>1, <1>2
<1> QED
  BY <1>3 DEF Node

LEMMA WalkIsFinite ==
  ASSUME NEW kind, NEW cut, NEW some \in SUBSET Walk(kind, cut)
  PROVE  IsFiniteSet(some)
<1>1. IsFiniteSet(1..MaxNodes)
  BY PipeAssumption, FS_Interval
<1>2. IsFiniteSet(Pipes \X (1..MaxNodes))
  BY <1>1, PipeAssumption, FS_Product
<1>3. some \subseteq Pipes \X (1..MaxNodes)
  BY DEF Walk
<1> QED
  BY <1>2, <1>3, FS_Subset

(* The only one of several found. *)
LEMMA TheOnlyOne ==
  ASSUME NEW kind, NEW cut, NEW some \in SUBSET Walk(kind, cut),
         Cardinality(some) = 1, NEW n \in some
  PROVE  some = {n}
<1>1. IsFiniteSet(some)
  BY WalkIsFinite
<1>2. \E x : some = {x}
  BY <1>1, FS_Singleton
<1> QED
  BY <1>2

LEMMA WholeWalk ==
  ASSUME NEW kind, NEW n \in Pipes \X (1..MaxNodes),
         n[2] \in DOMAIN registry[n[1]][kind]
  PROVE  n \in Walk(kind, End)
<1>1. Cardinality(Pipes) \in Nat /\ Pipes = 1..Cardinality(Pipes)
  BY PipeAssumption, FS_CardinalityType
<1>2. n[1] <= Cardinality(Pipes) /\ n[2] <= MaxNodes
  BY <1>1
<1>3. End[1] = Cardinality(Pipes) /\ End[2] = MaxNodes
  BY DEF End
<1>4. n[1] < End[1] \/ (n[1] = End[1] /\ n[2] <= End[2])
  BY <1>1, <1>2, <1>3, PipeAssumption
<1> QED
  BY <1>4 DEF Walk

LEMMA SameRegistry ==
  ASSUME UNCHANGED <<registry, since>>
  PROVE  /\ \A p : Complete(p)' = Complete(p)
         /\ \A e : Alive(e)' = Alive(e)
         /\ branch' = branch => \A cut : Branched(cut)' = Branched(cut)
<1>1. \A kind, cut : Walk(kind, cut)' = Walk(kind, cut)
  BY DEF Walk
<1>2. \A kind, n : Node(kind, n)' = Node(kind, n)
  BY DEF Node
<1> QED
  BY <1>1, <1>2 DEF Complete, Alive, Branched, End

(* A refusal: what each caller of it must know of its code. *)
LEMMA RefuseInv ==
  ASSUME Inv, pc \notin {"idle", "construct", "transfer", "returned", "release"},
         NEW code, NEW why, Refuse(code, why),
         UNCHANGED <<registry, replugs, since, op, target, service, peer>>,
         calm' \in BOOLEAN, external' \in BOOLEAN, provider' \in Providers,
         caps' \subseteq Ops, calm' => calm,
         code \in {"UNSUPPORTED_PROVIDER", "UNSUPPORTED_CAPABILITY"}
           => op \notin caps' \/ op = "lg_alt",
         calm' /\ target # None /\ Complete(target)
           => code \notin {"SAFETY_GATE", "DISCOVERY"} \/ op \in {"dpcd", "dpcd_path"}
  PROVE  Inv'
<1>1. /\ pc' = "release" /\ ret' = code
      /\ IF pc = "gate_ps190" /\ device # None
         THEN held' = [held EXCEPT !["device"] = @ - 1] /\ device' = None
         ELSE held' = held /\ device' = device
  BY DEF Refuse
<1>2. /\ held' \in [Slots -> 0..1] /\ device' \in Entry \cup {None}
      /\ held'["service"] = held["service"] /\ held'["peer"] = held["peer"]
      /\ held'["device"] = IF device' # None THEN 1 ELSE 0
  BY <1>1 DEF Inv, TypeOK, Owned, Slots
<1>3. TypeOK'
  BY <1>1, <1>2 DEF Inv, TypeOK, Locations
<1>4. Started'
  BY <1>1 DEF Inv, Started, Bound, Known
<1>5. Owned'
  BY <1>1, <1>2 DEF Inv, Owned, Early, Bound, Known
<1>6. Gated' /\ Paired' /\ Asked'
  BY <1>1 DEF Gated, Paired, Asked, Known
<1>7. Refused'
  BY <1>1 DEF Refused
<1>8. Undisturbed'
  BY <1>1, SameRegistry DEF Undisturbed, Bound, Known
<1> QED
  BY <1>3, <1>4, <1>5, <1>6, <1>7, <1>8 DEF Inv

-----------------------------------------------------------------------------
LEMMA InitInv == Init => Inv
<1> SUFFICES ASSUME Init PROVE Inv
  OBVIOUS
<1>1. TypeOK
  <2>1. /\ replugs \in 0..MaxReplugs /\ since \in [Pipes -> 0..MaxReplugs]
        /\ held \in [Slots -> 0..1]
    BY PipeAssumption DEF Init
  <2> QED
    BY <2>1 DEF Init, TypeOK, Locations, Providers
<1>2. Owned
  BY DEF Init, Owned, Early, Bound, Known, Slots
<1> QED
  BY <1>1, <1>2 DEF Init, Inv, Started, Gated, Paired, Asked, Refused, Undisturbed,
     Bound, Known

LEMMA ReplugInv ==
  ASSUME Inv, NEW p \in Pipes, NEW content \in Contents, Replug(p, content)
  PROVE  Inv'
<1>1. /\ calm' = FALSE
      /\ UNCHANGED <<pc, op, target, name, external, service, branch, device, peer,
                     provider, caps, transport, held, ret, reason>>
  BY DEF Replug, display, proxies, epic, answer
<1>2. TypeOK'
  <2>1. replugs' \in 0..MaxReplugs /\ since' \in [Pipes -> 0..MaxReplugs]
        /\ registry' \in [Pipes -> Contents]
    BY PipeAssumption DEF Replug, Inv, TypeOK
  <2> QED
    BY <1>1, <2>1 DEF Inv, TypeOK
<1>3. Started' /\ Owned'
  BY <1>1 DEF Inv, Started, Owned
<1>4. Gated'
  BY <1>1 DEF Inv, Gated, Picture
<1>5. Paired'
  BY <1>1 DEF Inv, Paired
<1>6. Asked'
  BY <1>1 DEF Inv, Asked, Endpoint
<1>7. Refused' /\ Undisturbed'
  BY <1>1 DEF Inv, Refused, Undisturbed
<1> QED
  BY <1>2, <1>3, <1>4, <1>5, <1>6, <1>7 DEF Inv

LEMMA CallInv ==
  ASSUME Inv, NEW o \in Ops, Call(o)
  PROVE  Inv'
<1>1. /\ pc \in {"idle", "returned"} /\ pc' = "list" /\ op' = o /\ calm' = TRUE
      /\ target' = None /\ external' = FALSE /\ provider' = "UNKNOWN" /\ caps' = {}
      /\ UNCHANGED <<registry, replugs, since, service, branch, device, peer, held>>
  BY DEF Call, system, proxies
<1>2. TypeOK'
  BY <1>1 DEF Inv, TypeOK, Locations, Providers
<1>3. Started' /\ Owned'
  BY <1>1 DEF Inv, Started, Owned, Early, Bound, Known
<1>4. Gated' /\ Paired' /\ Asked' /\ Refused' /\ Undisturbed'
  BY <1>1 DEF Gated, Paired, Asked, Refused, Undisturbed, Known
<1> QED
  BY <1>2, <1>3, <1>4 DEF Inv

LEMMA FindDisplayInv ==
  ASSUME Inv, FindDisplay
  PROVE  Inv'
<1>1. /\ pc = "list" /\ target = None
      /\ UNCHANGED <<registry, replugs, since, calm, op, name, external, service,
                     branch, peer, provider, caps, transport>>
  BY DEF Inv, Started, FindDisplay, system, display, epic
<1>2. CASE \E p \in Pipes : registry[p].display /\ target' = p /\ Continue("name")
  <2>1. target' \in Pipes /\ pc' = "name" /\ UNCHANGED <<held, device, ret, reason>>
    BY <1>2 DEF Continue, answer
  <2>2. TypeOK'
    BY <1>1, <2>1 DEF Inv, TypeOK, Locations
  <2>3. Started' /\ Owned'
    BY <1>1, <2>1 DEF Inv, Started, Owned, Early, Bound, Known
  <2>4. Gated' /\ Paired' /\ Asked' /\ Refused' /\ Undisturbed'
    BY <2>1 DEF Gated, Paired, Asked, Refused, Undisturbed, Bound, Known
  <2> QED
    BY <2>2, <2>3, <2>4 DEF Inv
<1>3. CASE /\ \E e \in {"NOT_FOUND", "DISCOVERY", "SYSTEM"} :
                Refuse(e, "NO_SELECTED_DISPLAY")
           /\ UNCHANGED target
  <2>1. PICK e \in {"NOT_FOUND", "DISCOVERY", "SYSTEM"} :
          Refuse(e, "NO_SELECTED_DISPLAY")
    BY <1>3
  <2>2. /\ calm' \in BOOLEAN /\ external' \in BOOLEAN /\ provider' \in Providers
        /\ caps' \subseteq Ops
    BY <1>1 DEF Inv, TypeOK
  <2> QED
    BY <1>1, <1>3, <2>1, <2>2, RefuseInv
<1> QED
  BY <1>2, <1>3 DEF FindDisplay

LEMMA CopyNameInv ==
  ASSUME Inv, CopyName
  PROVE  Inv'
<1>1. /\ pc = "name" /\ pc' = "services" /\ external' = ~registry[target].builtin
      /\ UNCHANGED <<registry, replugs, since, calm, op, target, service, branch,
                     device, peer, provider, caps, transport, held, ret, reason>>
  BY DEF CopyName, Continue, system, epic, answer
<1>2. TypeOK'
  BY <1>1 DEF Inv, TypeOK, Locations
<1>3. Started' /\ Owned'
  BY <1>1 DEF Inv, Started, Owned, Early, Bound, Known
<1>4. Gated' /\ Paired' /\ Asked' /\ Refused'
  BY <1>1 DEF Gated, Paired, Asked, Refused, Known
<1>5. Undisturbed'
  BY <1>1, SameRegistry DEF Undisturbed, Bound, Known, Complete
<1> QED
  BY <1>2, <1>3, <1>4, <1>5 DEF Inv

(* The one service of a complete display, and that there is one. *)
LEMMA CompleteService ==
  ASSUME Inv, pc = "services", Complete(target),
         NEW some, some = {n \in Walk("service", End) :
                             InScope(n) /\ Node("service", n).external}
  PROVE  \E n \in some : /\ some = {n}
                         /\ Node("service", n).provider \in DPFamily
                         /\ Node("service", n).ui
BY DEF Complete, InScope, DPFamily

LEMMA ScanServicesInv ==
  ASSUME Inv, ScanServices
  PROVE  Inv'
<1>1. /\ pc = "services" /\ target \in Pipes /\ service = None /\ device = None
      /\ UNCHANGED <<registry, replugs, since, op, target, name, external,
                     branch, peer, provider, caps, transport>>
  BY DEF Inv, Started, Owned, Early, ScanServices, system, display, epic
<1> DEFINE Found(cut) == {n \in Walk("service", cut) :
                            InScope(n) /\ Node("service", n).external}
<1>2. PICK cut \in Cuts :
        /\ calm' = (calm /\ cut = End)
        /\ \/ /\ ~registry[target].display /\ Refuse("DISCOVERY", "NO_DISPLAY_REGISTRY_NODE")
              /\ UNCHANGED service
           \/ /\ Cardinality(Found(cut)) > 1
              /\ Refuse("SAFETY_GATE", "AMBIGUOUS_SERVICE_PROXY") /\ UNCHANGED service
           \/ /\ Found(cut) = {}
              /\ Refuse("DISCOVERY", IF cut[1] = target THEN "NO_SERVICE_PROXY"
                                     ELSE "NO_DISPLAY_REGISTRY_NODE")
              /\ UNCHANGED service
           \/ /\ \E n \in Found(cut) : Cardinality(Found(cut)) = 1
                   /\ service' = [entry |-> EntryAt(n), node |-> Node("service", n)]
              /\ held' = [held EXCEPT !["service"] = @ + 1]
              /\ pc' = "inspect" /\ ret' = ret
              /\ reason' = "NO_SERVICE_PROXY" /\ UNCHANGED device
  BY DEF ScanServices
<1>3. /\ calm' \in BOOLEAN /\ external' \in BOOLEAN /\ provider' \in Providers
      /\ caps' \subseteq Ops /\ (calm' => calm /\ cut = End)
  BY <1>1, <1>2 DEF Inv, TypeOK
<1>4. ASSUME calm', Complete(target)
      PROVE  /\ registry[target].display
             /\ \E n \in Found(cut) : /\ Found(cut) = {n}
                                      /\ Node("service", n).provider \in DPFamily
                                      /\ Node("service", n).ui
  BY <1>1, <1>3, <1>4, CompleteService DEF Complete
<1>5. \A n : Cardinality({n}) = 1
  BY FS_Singleton
<1>6. ASSUME UNCHANGED service, NEW code \in {"DISCOVERY", "SAFETY_GATE"}, NEW why,
             Refuse(code, why), ~(calm' /\ Complete(target))
      PROVE  Inv'
  BY <1>1, <1>3, <1>6, RefuseInv
<1>7. CASE /\ \E n \in Found(cut) : Cardinality(Found(cut)) = 1
                /\ service' = [entry |-> EntryAt(n), node |-> Node("service", n)]
           /\ held' = [held EXCEPT !["service"] = @ + 1]
           /\ pc' = "inspect" /\ ret' = ret /\ UNCHANGED device
  <2>1. PICK n \in Found(cut) :
          service' = [entry |-> EntryAt(n), node |-> Node("service", n)]
    BY <1>7
  <2>2. /\ n \in Walk("service", cut) /\ n[1] = target
        /\ EntryAt(n) \in Entry /\ EntryAt(n).pipe = n[1] /\ Alive(EntryAt(n))
        /\ Node("service", n) \in ServiceNode
    BY WalkFinds, WalkFindsService DEF Inv, InScope
  <2>3. /\ service' \in Proxy /\ service' # None /\ service'.entry = EntryAt(n)
        /\ service'.node = Node("service", n)
    BY <2>1, <2>2, NoneAssumption DEF Proxy
  <2>4. /\ held' \in [Slots -> 0..1] /\ held'["service"] = 1
        /\ held'["device"] = held["device"] /\ held'["peer"] = held["peer"]
    BY <1>1, <1>7 DEF Inv, TypeOK, Owned, Slots
  <2>5. TypeOK'
    BY <1>1, <1>3, <1>7, <2>3, <2>4 DEF Inv, TypeOK, Locations
  <2>6. Started' /\ Owned'
    BY <1>1, <1>7, <2>2, <2>3, <2>4 DEF Inv, Started, Owned, Early, Bound, Known
  <2>7. Gated' /\ Paired' /\ Asked' /\ Refused'
    BY <1>7 DEF Gated, Paired, Asked, Refused, Known
  <2>8. ASSUME calm', Complete(target)
        PROVE  /\ external /\ Alive(service.entry)'
               /\ service'.node.provider \in DPFamily /\ service'.node.ui
    <3>1. external
      BY <1>1, <1>3, <2>8, NoneAssumption, PipeAssumption DEF Inv, Undisturbed, Complete
    <3>2. Alive(service.entry)'
      BY <1>1, <2>2, <2>3 DEF Alive
    <3> QED
      BY <1>4, <2>1, <2>3, <2>8, <3>1, <3>2
  <2>9. Undisturbed'
    BY <1>1, <1>7, <2>8, SameRegistry DEF Undisturbed, Bound, Known
  <2> QED
    BY <2>5, <2>6, <2>7, <2>9 DEF Inv
<1> QED
  BY <1>2, <1>4, <1>5, <1>6, <1>7

LEMMA InspectServiceInv ==
  ASSUME Inv, InspectService
  PROVE  Inv'
<1> DEFINE p == IF Parent = None THEN "UNKNOWN" ELSE Parent
           next == CASE p \in {"DCPDP13", "DCPDP_SERVICE"} -> "gate_dp"
                     [] p = "PS190" -> "branches"
                     [] OTHER -> "dispatch"
<1>1. /\ pc = "inspect" /\ provider' = p
      /\ caps' = Capabilities(p) \cup
           (IF external /\ p = "DCPDP13" /\ <<name, transport'>> = Profiled
            THEN {"picture"} ELSE {})
      /\ IF Parent = None THEN Refuse("DISCOVERY", "MISSING_SERVICE_PROVIDER")
         ELSE Continue(next)
      /\ UNCHANGED <<registry, replugs, since, calm, op, target, name, external,
                     service, branch, peer>>
  BY DEF InspectService, system, display
<1>2. /\ service # None /\ service \in Proxy /\ service.entry.pipe = target
      /\ service.node \in ServiceNode /\ target \in Pipes /\ op \in Ops
  BY <1>1 DEF Inv, TypeOK, Started, Owned, Bound, Proxy
<1>3. Parent # None => Parent = service.node.provider /\ Parent \in Providers
  BY <1>2 DEF Parent, ServiceNode
<1>4. p \in Providers
  BY <1>3 DEF Providers
<1>5. caps' \subseteq Ops /\ caps' = Capabilities(provider') \cup Picture'
  BY <1>1 DEF Capabilities, Ops, Picture
<1>6. ASSUME calm, Complete(target)
      PROVE  /\ Parent = service.node.provider /\ Parent \in DPFamily
             /\ external /\ Alive(service.entry) /\ service.node.ui
  BY <1>1, <1>2, <1>6, NoneAssumption DEF Inv, Undisturbed, Bound, Parent
<1> HIDE DEF p, next
<1>7. CASE Parent = None
  <2>1. calm /\ Complete(target) => FALSE
    <3> SUFFICES ASSUME calm, Complete(target) PROVE FALSE
      OBVIOUS
    <3>1. Parent \in Providers
      BY <1>6 DEF DPFamily, Providers
    <3> QED
      BY <1>7, <3>1, NoneAssumption
  <2>2. /\ calm \in BOOLEAN /\ external \in BOOLEAN
    BY DEF Inv, TypeOK
  <2> QED
    BY <1>1, <1>4, <1>5, <1>7, <2>1, <2>2, RefuseInv
<1>8. CASE Parent # None
  <2>1. /\ p = service.node.provider
        /\ pc' = next /\ UNCHANGED <<ret, reason, held, device>>
    BY <1>1, <1>3, <1>8 DEF Continue, answer, p
  <2>2. \/ next = "gate_dp" /\ p \in DPFamily
        \/ next = "branches" /\ p = "PS190"
        \/ next = "dispatch" /\ p \notin DPFamily \cup {"PS190"}
    BY DEF next, DPFamily
  <2>3. TypeOK'
    <3>1. pc' \in Locations
      BY <2>1, <2>2 DEF Locations
    <3> QED
      BY <1>1, <1>4, <1>5, <2>1, <3>1 DEF Inv, TypeOK
  <2>4. Started' /\ Owned'
    BY <1>1, <1>2, <2>1, <2>2 DEF Inv, Started, Owned, Early, Bound, Known
  <2>5. Gated'
    BY <1>1, <1>5, <2>1, <2>2 DEF Gated, Known, DPFamily
  <2>6. Paired'
    <3>1. device = None
      BY <1>1 DEF Inv, Owned
    <3> QED
      BY <1>1, <2>1, <2>2, <3>1 DEF Paired
  <2>7. Asked' /\ Refused'
    BY <2>1, <2>2 DEF Asked, Refused
  <2>8. Undisturbed'
    <3>1. ASSUME calm, Complete(target)
          PROVE  external /\ Alive(service.entry) /\ p \in DPFamily /\ service.node.ui
      BY <1>3, <1>6, <1>8, <2>1, <3>1
    <3> QED
      BY <1>1, <2>1, <2>2, <3>1, SameRegistry DEF Undisturbed, Bound, Known
  <2> QED
    BY <2>3, <2>4, <2>5, <2>6, <2>7, <2>8 DEF Inv
<1> QED
  BY <1>7, <1>8

(* A gate that lets the call through to dispatch. *)
LEMMA PassInv ==
  ASSUME Inv, pc \in {"gate_dp", "gate_ps190"}, Continue("dispatch"), external,
         UNCHANGED <<system, calm, op, target, display, service, branch, peer, epic>>,
         pc = "gate_ps190" => branch # None /\ device # None /\ device.pipe = target
  PROVE  Inv'
<1>1. /\ pc' = "dispatch"
      /\ UNCHANGED <<registry, replugs, since, calm, op, target, name, external,
                     service, branch, device, peer, provider, caps, transport,
                     held, ret, reason>>
  BY DEF Continue, answer, system, display, epic
<1>2. TypeOK'
  BY <1>1 DEF Inv, TypeOK, Locations
<1>3. Started' /\ Owned'
  BY <1>1 DEF Inv, Started, Owned, Early, Bound, Known
<1>4. Gated'
  BY <1>1 DEF Inv, Gated, Known, Picture
<1>5. Paired'
  <2>1. provider = "PS190" => pc = "gate_ps190"
    BY DEF Inv, Gated, DPFamily
  <2>2. calm /\ device # None /\ branch # None => \A n \in Branched(End) : n[1] = device.pipe
    <3>1. pc = "gate_dp" => device = None
      BY DEF Inv, Owned
    <3> QED
      BY <3>1 DEF Inv, Paired
  <2>3. \A cut : Branched(cut)' = Branched(cut)
    BY <1>1, SameRegistry
  <2>4. End' = End
    BY DEF End
  <2> QED
    BY <1>1, <2>1, <2>2, <2>3, <2>4 DEF Paired
<1>6. Asked' /\ Refused'
  BY <1>1 DEF Asked, Refused
<1>7. Undisturbed'
  BY <1>1, SameRegistry DEF Inv, Undisturbed, Bound, Known
<1> QED
  BY <1>2, <1>3, <1>4, <1>5, <1>6, <1>7 DEF Inv

(* What the gate and what follows it may take for granted. *)
LEMMA BoundState ==
  ASSUME Inv, pc \in Known
  PROVE  /\ service # None /\ service \in Proxy /\ service.entry \in Entry
         /\ service.entry.pipe = target /\ service.node \in ServiceNode
         /\ target \in Pipes /\ target # None /\ op \in Ops
         /\ calm \in BOOLEAN /\ external \in BOOLEAN /\ provider \in Providers
         /\ caps \subseteq Ops
         /\ calm /\ Complete(target) =>
              /\ external /\ Alive(service.entry) /\ service.node.ui
              /\ provider \in DPFamily /\ provider = service.node.provider
              /\ Parent = provider
<1>1. /\ service # None /\ service \in Proxy /\ service.entry.pipe = target
      /\ target \in Pipes /\ op \in Ops
      /\ calm \in BOOLEAN /\ external \in BOOLEAN /\ provider \in Providers
      /\ caps \subseteq Ops
  BY DEF Inv, TypeOK, Started, Owned, Bound, Known
<1>2. service.entry \in Entry /\ service.node \in ServiceNode /\ target # None
  BY <1>1, NoneAssumption DEF Proxy
<1>3. calm /\ Complete(target) =>
        /\ external /\ Alive(service.entry) /\ service.node.ui
        /\ provider \in DPFamily /\ provider = service.node.provider
  BY <1>2 DEF Inv, Undisturbed, Bound
<1> QED
  BY <1>1, <1>2, <1>3 DEF Parent

LEMMA GateDPInv ==
  ASSUME Inv, GateDP
  PROVE  Inv'
<1>1. /\ pc = "gate_dp" /\ pc \in Known
      /\ UNCHANGED <<registry, replugs, since, calm, op, target, name, external,
                     service, branch, peer, provider, caps, transport>>
  BY DEF GateDP, system, display, epic, Known
<1>2. CASE external /\ Continue("dispatch")
  BY <1>1, <1>2, PassInv DEF GateDP
<1>3. ASSUME NEW why, Refuse("SAFETY_GATE", why), ~(calm /\ Complete(target))
      PROVE  Inv'
  BY <1>1, <1>3, BoundState, RefuseInv
<1>4. calm /\ Complete(target) => external /\ Parent = provider /\ service.node.ui
  BY <1>1, BoundState
<1> QED
  BY <1>2, <1>3, <1>4 DEF GateDP

LEMMA ScanBranchesInv ==
  ASSUME Inv, ScanBranches
  PROVE  Inv'
<1>1. /\ pc = "branches" /\ provider = "PS190" /\ device = None
      /\ pc' \in {"gate_ps190", "devices"} /\ calm' \in BOOLEAN /\ (calm' => calm)
      /\ UNCHANGED <<registry, replugs, since, op, target, name, external,
                     service, device, peer, provider, caps, transport, held, ret>>
  <2>1. \E cut \in Cuts : calm' = (calm /\ cut = End)
    BY DEF ScanBranches
  <2>2. pc = "branches" /\ pc' \in {"gate_ps190", "devices"}
    BY DEF ScanBranches
  <2>3. provider = "PS190" /\ device = None
    BY <2>2 DEF Inv, Gated, Owned
  <2> QED
    BY <2>1, <2>2, <2>3 DEF ScanBranches, Inv, TypeOK, system, display, epic
<1>2. pc' = "devices" => branch' # None
  BY DEF ScanBranches
<1>3. pc' = "gate_ps190" => branch' = None
  BY DEF ScanBranches
<1>4. TypeOK'
  BY <1>1 DEF Inv, TypeOK, Locations
<1>5. Started' /\ Owned'
  BY <1>1 DEF Inv, Started, Owned, Early, Bound, Known
<1>6. Gated'
  BY <1>1 DEF Inv, Gated, Known, Picture
<1>7. Paired' /\ Asked' /\ Refused'
  BY <1>1, <1>2, <1>3 DEF Paired, Asked, Refused
<1>8. Undisturbed'
  BY <1>1, BoundState, SameRegistry DEF Undisturbed, Known, DPFamily
<1> QED
  BY <1>4, <1>5, <1>6, <1>7, <1>8 DEF Inv

(* In a registry that keeps still, the device found is the only one of its *)
(* branch there is.                                                        *)
LEMMA ScanDevicesInv ==
  ASSUME Inv, ScanDevices
  PROVE  Inv'
<1>1. /\ pc = "devices" /\ pc \in Known /\ provider = "PS190" /\ device = None
      /\ branch # None /\ pc' = "gate_ps190"
      /\ UNCHANGED <<registry, replugs, since, op, target, name, external,
                     service, peer, provider, caps, transport, ret>>
  BY DEF ScanDevices, Inv, Gated, Paired, Owned, system, display, epic, Known
<1>2. PICK cut \in Cuts :
        /\ calm' = (calm /\ cut = End)
        /\ \/ /\ Cardinality(Branched(cut)) = 1
              /\ \E n \in Branched(cut) : device' = EntryAt(n)
              /\ branch' = branch \/ branch' = None
              /\ held' = [held EXCEPT !["device"] = @ + 1]
           \/ branch' = None /\ UNCHANGED <<device, held>>
  <2>1. PICK cut \in Cuts :
          /\ calm' = (calm /\ cut = End)
          /\ IF Cardinality(Branched(cut)) = 1
             THEN /\ \E n \in Branched(cut) :
                       /\ device' = EntryAt(n)
                       /\ branch' = IF Node("device", n).role THEN branch ELSE None
                  /\ held' = [held EXCEPT !["device"] = @ + 1]
             ELSE branch' = None /\ UNCHANGED <<device, held>>
    BY DEF ScanDevices
  <2>2. CASE Cardinality(Branched(cut)) = 1
    BY <2>1, <2>2
  <2>3. CASE Cardinality(Branched(cut)) # 1
    BY <2>1, <2>3
  <2> QED
    BY <2>2, <2>3
<1>3. calm' \in BOOLEAN /\ (calm' => calm /\ cut = End)
  BY <1>2 DEF Inv, TypeOK
<1>4. /\ held' \in [Slots -> 0..1] /\ device' \in Entry \cup {None}
      /\ held'["service"] = held["service"] /\ held'["peer"] = held["peer"]
      /\ held'["device"] = IF device' # None THEN 1 ELSE 0
  <2>1. held \in [Slots -> 0..1] /\ held["device"] = 0
    BY <1>1 DEF Inv, TypeOK, Owned
  <2>2. \A n \in Branched(cut) : EntryAt(n) \in Entry /\ EntryAt(n) # None
    BY WalkFinds DEF Inv, Branched
  <2>3. CASE UNCHANGED <<device, held>>
    BY <1>1, <2>1, <2>3
  <2>4. CASE /\ \E n \in Branched(cut) : device' = EntryAt(n)
             /\ held' = [held EXCEPT !["device"] = @ + 1]
    BY <2>1, <2>2, <2>4 DEF Slots
  <2> QED
    BY <1>2, <2>3, <2>4
<1>5. TypeOK'
  BY <1>1, <1>3, <1>4 DEF Inv, TypeOK, Locations
<1>6. Started' /\ Owned'
  BY <1>1, <1>4 DEF Inv, Started, Owned, Early, Bound, Known
<1>7. Gated'
  BY <1>1 DEF Inv, Gated, Known, Picture
<1>8. Paired'
  <2>1. branch' # None =>
          /\ branch' = branch /\ device' # None
          /\ calm' => \A n \in Branched(End) : n[1] = device'.pipe
    <3> SUFFICES ASSUME branch' # None
                 PROVE  /\ branch' = branch /\ device' # None
                        /\ calm' => \A n \in Branched(End) : n[1] = device'.pipe
      OBVIOUS
    <3>1. /\ Cardinality(Branched(cut)) = 1 /\ branch' = branch
          /\ \E n \in Branched(cut) : device' = EntryAt(n)
      BY <1>2
    <3>2. PICK n \in Branched(cut) : device' = EntryAt(n)
      BY <3>1
    <3>3. EntryAt(n).pipe = n[1] /\ EntryAt(n) # None
      BY WalkFinds DEF Inv, Branched
    <3>4. Branched(cut) = {n}
      <4>1. Branched(cut) \in SUBSET Walk("device", cut)
        BY DEF Branched
      <4> QED
        BY <3>1, <4>1, TheOnlyOne
    <3> QED
      BY <1>3, <3>1, <3>2, <3>3, <3>4
  <2>2. branch' # None => \A c : Branched(c)' = Branched(c)
    BY <1>1, <2>1, SameRegistry
  <2>3. End' = End
    BY DEF End
  <2> QED
    BY <1>1, <2>1, <2>2, <2>3 DEF Paired
<1>9. Asked' /\ Refused'
  BY <1>1 DEF Asked, Refused
<1>10. Undisturbed'
  BY <1>1, <1>3, BoundState, SameRegistry DEF Undisturbed, DPFamily
<1> QED
  BY <1>5, <1>6, <1>7, <1>8, <1>9, <1>10 DEF Inv

LEMMA GatePS190Inv ==
  ASSUME Inv, GatePS190
  PROVE  Inv'
<1>1. /\ pc = "gate_ps190" /\ pc \in Known /\ provider = "PS190"
      /\ UNCHANGED <<registry, replugs, since, calm, op, target, name, external,
                     service, branch, peer, provider, caps, transport>>
  BY DEF GatePS190, Inv, Gated, system, display, epic, Known
<1>2. CASE external /\ branch # None /\ SameRole /\ Continue("dispatch")
  <2>1. device # None /\ device \in Entry
    BY <1>1, <1>2 DEF Inv, Paired, TypeOK
  <2>2. device.pipe \in Pipes
    BY <2>1 DEF Entry
  <2>3. ServiceRole = Role[service.entry.pipe]
    BY <1>2, <2>2, NoneAssumption DEF SameRole, ServiceRole
  <2>4. device.pipe = target
    BY <1>1, <1>2, <2>2, <2>3, BoundState, RoleAssumption DEF SameRole
  <2> QED
    BY <1>1, <1>2, <2>1, <2>4, PassInv DEF GatePS190
<1>3. ASSUME NEW why, Refuse("SAFETY_GATE", why)
      PROVE  Inv'
  <2>1. ~(calm /\ Complete(target))
    BY <1>1, BoundState DEF DPFamily
  <2> QED
    BY <1>1, <1>3, <2>1, BoundState, RefuseInv
<1> QED
  BY <1>2, <1>3 DEF GatePS190

(* The operations of a provider are those that dispatch serves. *)
LEMMA ServedAreCapable ==
  ASSUME NEW o \in Ops \ {"info"}, provider \in Providers,
         caps = Capabilities(provider) \cup Picture,
         provider \in DPFamily => external
  PROVE  /\ provider \notin Served(o) => o \notin caps
         /\ /\ provider \in Served(o) /\ o # "dpcd_path"
            /\ o \in {"lg_alt", "picture"} => <<name, transport>> = Profiled
            => o \in caps
         /\ o = "picture" /\ <<name, transport>> # Profiled => o \notin caps
<1>1. CASE provider = "DCPDP13"
  BY <1>1 DEF Ops, Served, Capabilities, Picture, DPFamily
<1>2. CASE provider = "DCPDP_SERVICE"
  BY <1>2 DEF Ops, Served, Capabilities, Picture
<1>3. CASE provider = "PS190"
  BY <1>3 DEF Ops, Served, Capabilities, Picture
<1>4. CASE provider \in {"MCDP29XX", "UNKNOWN"}
  BY <1>4 DEF Ops, Served, Capabilities, Picture
<1> QED
  BY <1>1, <1>2, <1>3, <1>4 DEF Providers

LEMMA DispatchInv ==
  ASSUME Inv, Dispatch
  PROVE  Inv'
<1>1. /\ pc = "dispatch" /\ pc \in Known
      /\ UNCHANGED <<registry, replugs, since, calm, op, target, name, external,
                     service, branch, peer, provider, caps, transport>>
  BY DEF Dispatch, system, display, epic, Known
<1>2. /\ caps = Capabilities(provider) \cup Picture
      /\ provider \in DPFamily => external
  BY <1>1 DEF Inv, Gated
<1>3. ASSUME NEW code \in {"OK", "UNSUPPORTED_PROVIDER", "UNSUPPORTED_CAPABILITY"},
             Conclude(code), code = "OK" \/ op \notin caps \/ op = "lg_alt"
      PROVE  Inv'
  BY <1>1, <1>3, BoundState, RefuseInv DEF Conclude
<1>4. CASE op = "info"
  BY <1>1, <1>3, <1>4 DEF Dispatch
<1>5. CASE op # "info" /\ provider \notin Served(op)
  <2>1. op \notin caps
    BY <1>1, <1>2, <1>5, BoundState, ServedAreCapable
  <2> QED
    BY <1>1, <1>3, <1>5, <2>1 DEF Dispatch
<1>6. CASE /\ op # "info" /\ provider \in Served(op)
           /\ op \in {"lg_alt", "picture"} /\ <<name, transport>> # Profiled
  <2>1. op = "picture" => op \notin caps
    BY <1>1, <1>2, <1>6, BoundState, ServedAreCapable
  <2> QED
    BY <1>1, <1>3, <1>6, <2>1 DEF Dispatch
<1>7. CASE /\ op # "info" /\ provider \in Served(op)
           /\ op \in {"lg_alt", "picture"} => <<name, transport>> = Profiled
  <2> DEFINE peers == op \in {"dpcd", "dpcd_path", "edid"}
  <2>1. /\ pc' = IF peers THEN "peers" ELSE "construct"
        /\ UNCHANGED <<ret, reason, held, device>>
    BY <1>1, <1>7 DEF Dispatch, Continue, answer
  <2>2. ~peers => op \in caps
    BY <1>1, <1>2, <1>7, BoundState, ServedAreCapable
  <2> HIDE DEF peers
  <2>3. TypeOK'
    BY <1>1, <2>1 DEF Inv, TypeOK, Locations
  <2>4. Started' /\ Owned'
    BY <1>1, <2>1 DEF Inv, Started, Owned, Early, Bound, Known
  <2>5. Gated'
    BY <1>1, <2>1 DEF Inv, Gated, Known, Picture
  <2>6. Paired'
    <3>1. \A cut : Branched(cut)' = Branched(cut)
      BY <1>1, SameRegistry
    <3>2. End' = End
      BY DEF End
    <3> QED
      BY <1>1, <2>1, <3>1, <3>2 DEF Inv, Paired
  <2>7. Asked'
    <3>1. peers => op \in {"dpcd", "dpcd_path", "edid"}
      BY DEF peers
    <3>2. ~peers => op # "edid" /\ Endpoint' = service.entry
      BY <1>1 DEF peers, Endpoint
    <3>3. service.entry.pipe = target
      BY <1>1, BoundState
    <3>4. CASE peers
      BY <1>1, <1>7, <2>1, <3>1, <3>4 DEF Asked, Served
    <3>5. CASE ~peers
      BY <1>1, <2>1, <2>2, <3>2, <3>3, <3>5 DEF Asked
    <3> QED
      BY <3>4, <3>5
  <2>8. Refused'
    BY <2>1 DEF Refused
  <2>9. Undisturbed'
    BY <1>1, <2>1, BoundState, SameRegistry DEF Undisturbed, Known
  <2> QED
    BY <2>3, <2>4, <2>5, <2>6, <2>7, <2>8, <2>9 DEF Inv
<1> QED
  BY <1>4, <1>5, <1>6, <1>7

(* The device a DPCD or EDID read is about to use. *)
LEMMA FindPeerInv ==
  ASSUME Inv, FindPeer
  PROVE  Inv'
<1>1. /\ pc = "peers" /\ pc \in Known /\ op \in {"dpcd", "dpcd_path", "edid"}
      /\ provider \in Served(op) /\ held["peer"] = 0
      /\ UNCHANGED <<registry, replugs, since, op, target, name, external,
                     service, branch, provider, caps, transport>>
  BY DEF FindPeer, Inv, Asked, Owned, system, display, epic, Known
<1>2. /\ caps = Capabilities(provider) \cup Picture
      /\ provider \in DPFamily => external
      /\ op # "dpcd_path" => op \in caps
  <2>1. caps = Capabilities(provider) \cup Picture /\ (provider \in DPFamily => external)
    BY <1>1 DEF Inv, Gated
  <2> QED
    BY <1>1, <2>1, BoundState, ServedAreCapable
<1>3. ASSUME NEW code \in {"OK", "SAFETY_GATE"}, Conclude(code), UNCHANGED peer,
             calm' \in BOOLEAN, calm' => calm,
             code = "SAFETY_GATE" => op # "edid" \/ provider = "PS190"
      PROVE  Inv'
  <2>1. calm /\ Complete(target) => provider \in DPFamily
    BY <1>1, BoundState
  <2> QED
    BY <1>1, <1>3, <2>1, BoundState, RefuseInv DEF Conclude, DPFamily
<1>4. ASSUME peer' \in Entry, peer'.pipe = target \/ (op = "edid" /\ ~calm'),
             op # "dpcd_path", pc' = "construct", UNCHANGED <<ret, reason, device>>,
             held' \in [Slots -> 0..1], held'["service"] = held["service"],
             held'["device"] = held["device"],
             calm' \in BOOLEAN, calm' => calm
      PROVE  Inv'
  <2>1. TypeOK'
    BY <1>1, <1>4 DEF Inv, TypeOK, Locations
  <2>2. Started' /\ Owned'
    BY <1>1, <1>4 DEF Inv, Started, Owned, Early, Bound, Known
  <2>3. Gated' /\ Paired'
    BY <1>1, <1>4 DEF Inv, Gated, Paired, Known, Picture
  <2>4. Asked'
    <3>1. Endpoint' = peer'
      BY <1>1, <1>4 DEF Endpoint
    <3> QED
      BY <1>1, <1>2, <1>4, <3>1 DEF Asked
  <2>5. Refused'
    BY <1>4 DEF Refused
  <2>6. Undisturbed'
    BY <1>1, <1>4, BoundState, SameRegistry DEF Undisturbed, Known
  <2> QED
    BY <2>1, <2>2, <2>3, <2>4, <2>5, <2>6 DEF Inv
<1>5. CASE op = "dpcd" /\ provider = "PS190"
  <2>1. peer' = device /\ pc' = "construct" /\ UNCHANGED <<calm, ret, reason, held, device>>
    BY <1>5 DEF FindPeer, Continue, answer
  <2>2. device \in Entry /\ device.pipe = target
    BY <1>1, <1>5 DEF Inv, Paired, TypeOK
  <2>3. calm \in BOOLEAN /\ held \in [Slots -> 0..1]
    BY DEF Inv, TypeOK
  <2> QED
    BY <1>4, <1>5, <2>1, <2>2, <2>3
<1>6. CASE ~(op = "dpcd" /\ provider = "PS190")
  <2> DEFINE Found(cut) == IF op = "edid" THEN PairedDevices(cut)
                           ELSE IF Alive(service.entry) /\ ServiceRole # None
                                THEN SameRoleDevices(cut) ELSE {}
  <2>1. PICK cut \in Cuts :
          /\ calm' = (calm /\ cut = End)
          /\ IF Cardinality(Found(cut)) # 1
             THEN Conclude("SAFETY_GATE") /\ UNCHANGED peer
             ELSE IF op = "dpcd_path"
             THEN Conclude("OK") /\ UNCHANGED peer
             ELSE /\ \E n \in Found(cut) : peer' = EntryAt(n)
                  /\ held' = [held EXCEPT !["peer"] = @ + 1]
                  /\ pc' = "construct" /\ UNCHANGED <<answer, device>>
    BY <1>6 DEF FindPeer
  <2>2. calm' \in BOOLEAN /\ (calm' => calm /\ cut = End)
    BY <2>1 DEF Inv, TypeOK
  <2>3. op = "edid" => provider = "PS190"
    BY <1>1 DEF Served
  <2>4. ASSUME NEW n \in Found(cut), op # "dpcd_path"
        PROVE  /\ EntryAt(n) \in Entry
               /\ EntryAt(n).pipe = target \/ (op = "edid" /\ ~calm')
    <3>1. CASE op = "edid"
      <4>1. n \in Branched(cut)
        BY <2>4, <3>1 DEF PairedDevices
      <4>2. EntryAt(n) \in Entry /\ EntryAt(n).pipe = n[1]
        BY <4>1, WalkFinds DEF Inv, Branched
      <4>3. calm' => n[1] = target
        BY <1>1, <2>2, <2>3, <3>1, <4>1 DEF Inv, Paired
      <4> QED
        BY <2>2, <3>1, <4>2, <4>3
    <3>2. CASE op # "edid"
      <4>1. ServiceRole # None /\ n \in Walk("device", cut) /\ Role[n[1]] = ServiceRole
        BY <2>4, <3>2 DEF SameRoleDevices
      <4>2. EntryAt(n) \in Entry /\ EntryAt(n).pipe = n[1] /\ n[1] \in Pipes
        BY <4>1, WalkFinds DEF Inv
      <4>3. Role[n[1]] = Role[target]
        BY <1>1, <4>1, BoundState DEF ServiceRole
      <4>4. n[1] = target
        BY <1>1, <4>2, <4>3, BoundState, RoleAssumption
      <4> QED
        BY <4>2, <4>4
    <3> QED
      BY <3>1, <3>2
  <2> HIDE DEF Found
  <2>5. CASE Cardinality(Found(cut)) # 1
    BY <1>3, <2>1, <2>2, <2>3, <2>5
  <2>6. CASE Cardinality(Found(cut)) = 1 /\ op = "dpcd_path"
    BY <1>3, <2>1, <2>2, <2>6
  <2>7. CASE Cardinality(Found(cut)) = 1 /\ op # "dpcd_path"
    <3>1. PICK n \in Found(cut) : peer' = EntryAt(n)
      BY <2>1, <2>7
    <3>2. pc' = "construct" /\ UNCHANGED <<ret, reason, device>>
          /\ held' = [held EXCEPT !["peer"] = @ + 1]
      BY <2>1, <2>7 DEF answer
    <3>3. held' \in [Slots -> 0..1] /\ held'["service"] = held["service"]
          /\ held'["device"] = held["device"]
      BY <1>1, <3>2 DEF Inv, TypeOK, Slots
    <3> QED
      BY <1>4, <2>2, <2>4, <2>7, <3>1, <3>2, <3>3
  <2> QED
    BY <2>5, <2>6, <2>7
<1> QED
  BY <1>5, <1>6

LEMMA DropPeerDrops ==
  ASSUME Inv
  PROVE  /\ DropPeer \in [Slots -> 0..1] /\ DropPeer["peer"] = 0
         /\ DropPeer["service"] = held["service"] /\ DropPeer["device"] = held["device"]
BY DEF Inv, TypeOK, DropPeer, Slots

(* The transfer or the construction that ends the call. *)
LEMMA EndInv ==
  ASSUME Inv, pc \in {"construct", "transfer"}, pc' = "release", held' = DropPeer,
         ret' \in {"SERVICE_CONSTRUCTION", "OK", "TRANSFER"},
         UNCHANGED <<system, calm, op, target, display, proxies, epic>>
  PROVE  Inv'
<1>1. UNCHANGED <<registry, replugs, since, calm, op, target, name, external,
                  service, branch, device, peer, provider, caps, transport>>
  BY DEF system, display, proxies, epic
<1>2. TypeOK'
  BY <1>1, DropPeerDrops DEF Inv, TypeOK, Locations
<1>3. Started' /\ Owned'
  BY <1>1, DropPeerDrops DEF Inv, Started, Owned, Early, Bound, Known
<1>4. Gated' /\ Paired' /\ Asked' /\ Refused'
  BY DEF Gated, Paired, Asked, Refused, Known
<1>5. Undisturbed'
  BY DEF Undisturbed, Bound, Known
<1> QED
  BY <1>2, <1>3, <1>4, <1>5 DEF Inv

LEMMA ConstructInv ==
  ASSUME Inv, Construct
  PROVE  Inv'
<1>1. /\ pc = "construct" /\ pc \in Known
      /\ UNCHANGED <<registry, replugs, since, calm, op, target, name, external,
                     service, branch, device, peer, provider, caps, transport>>
  BY DEF Construct, system, display, proxies, epic, Known
<1>2. CASE /\ pc' = "transfer" /\ UNCHANGED answer
           /\ held' = DropPeer \/ held' = held
  <2>1. held' \in [Slots -> 0..1] /\ held'["service"] = held["service"]
        /\ held'["device"] = held["device"]
    BY <1>2, DropPeerDrops DEF Inv, TypeOK
  <2>2. TypeOK'
    BY <1>1, <1>2, <2>1 DEF Inv, TypeOK, Locations
  <2>3. Started' /\ Owned'
    BY <1>1, <1>2, <2>1 DEF Inv, Started, Owned, Early, Bound, Known
  <2>4. Gated' /\ Paired' /\ Refused'
    BY <1>1, <1>2 DEF Inv, Gated, Paired, Refused, Known, Picture
  <2>5. Asked'
    BY <1>1, <1>2 DEF Inv, Asked, Endpoint
  <2>6. Undisturbed'
    BY <1>1, <1>2, BoundState, SameRegistry DEF Undisturbed, Known
  <2> QED
    BY <2>2, <2>3, <2>4, <2>5, <2>6 DEF Inv
<1>3. CASE pc' = "release" /\ ret' = "SERVICE_CONSTRUCTION" /\ held' = DropPeer
  BY <1>1, <1>3, EndInv DEF Construct
<1> QED
  BY <1>2, <1>3 DEF Construct

LEMMA TransferInv ==
  ASSUME Inv, Transfer
  PROVE  Inv'
BY EndInv DEF Transfer

LEMMA ReleaseInv ==
  ASSUME Inv, Release
  PROVE  Inv'
<1>1. /\ pc = "release" /\ pc' = "returned"
      /\ service' = None /\ device' = None /\ peer' = None
      /\ UNCHANGED <<registry, replugs, since, calm, op, target, name, external,
                     provider, caps, transport, ret, reason>>
  BY DEF Release, system, display, epic, answer
<1>2. /\ held' \in [Slots -> 0..1]
      /\ held'["service"] = 0 /\ held'["device"] = 0 /\ held'["peer"] = 0
  <2>1. /\ held["service"] = IF service # None THEN 1 ELSE 0
        /\ held["device"] = IF device # None THEN 1 ELSE 0
        /\ held["peer"] = 0
    BY <1>1 DEF Inv, Owned
  <2>2. \A s \in Slots : held'[s] = 0
    BY <2>1 DEF Release, Slots
  <2>3. held' = [s \in Slots |-> 0]
    BY <2>2 DEF Release
  <2> QED
    BY <2>3 DEF Slots
<1>3. TypeOK'
  BY <1>1, <1>2 DEF Inv, TypeOK, Locations
<1>4. Started' /\ Owned'
  BY <1>1, <1>2 DEF Inv, Started, Owned, Bound, Known
<1>5. Gated' /\ Paired' /\ Asked' /\ Refused' /\ Undisturbed'
  BY <1>1 DEF Gated, Paired, Asked, Refused, Undisturbed, Bound, Known
<1> QED
  BY <1>3, <1>4, <1>5 DEF Inv

LEMMA StutterInv ==
  ASSUME Inv, UNCHANGED vars
  PROVE  Inv'
<1>1. UNCHANGED <<registry, replugs, since, calm, pc, op, target, name, external,
                  service, branch, device, peer, provider, caps, transport, held,
                  ret, reason>>
  BY DEF vars, system, display, proxies, epic, answer
<1>2. /\ \A cut : Branched(cut)' = Branched(cut)
      /\ End' = End /\ Endpoint' = Endpoint /\ Picture' = Picture
  BY <1>1, SameRegistry DEF End, Endpoint, Picture
<1>3. TypeOK' /\ Started' /\ Owned' /\ Refused'
  BY <1>1 DEF Inv, TypeOK, Started, Owned, Refused
<1>4. Gated' /\ Asked'
  BY <1>1, <1>2 DEF Inv, Gated, Asked
<1>5. Paired'
  BY <1>1, <1>2 DEF Inv, Paired
<1>6. Undisturbed'
  BY <1>1, SameRegistry DEF Inv, Undisturbed
<1> QED
  BY <1>3, <1>4, <1>5, <1>6 DEF Inv

LEMMA StepInv == Inv /\ [Next]_vars => Inv'
BY ReplugInv, CallInv, FindDisplayInv, CopyNameInv, ScanServicesInv,
   InspectServiceInv, GateDPInv, ScanBranchesInv, ScanDevicesInv, GatePS190Inv,
   DispatchInv, FindPeerInv, ConstructInv, TransferInv, ReleaseInv, StutterInv
   DEF Next

-----------------------------------------------------------------------------
THEOREM Invariance == Spec => []Inv
<1> QED
  BY InitInv, StepInv, PTL DEF Spec

(* Type correctness: no reference is retained twice in one variable or     *)
(* released without having been retained.                                  *)
THEOREM TypeCorrect == Spec => []TypeOK
<1>1. Inv => TypeOK
  BY DEF Inv
<1> QED
  BY <1>1, Invariance, PTL

(* However walks are cut and pipes replugged, an interface is used only on *)
(* the display the call selected; for EDID while the registry keeps still. *)
THEOREM SelectedDisplayOnly == Spec => []StaysOnSelectedDisplay
<1>1. Inv => StaysOnSelectedDisplay
  BY DEF Inv, Asked, StaysOnSelectedDisplay
<1> QED
  BY <1>1, Invariance, PTL

(* rss_ddc_provider_capabilities, the profile's picture mode and the       *)
(* dispatch tables say the same of every provider.                         *)
THEOREM CapabilitiesMatchDispatch == Spec => []CapabilitiesAreHonest
<1>1. Inv => CapabilitiesAreHonest
  BY DEF Inv, Asked, Refused, CapabilitiesAreHonest
<1> QED
  BY <1>1, Invariance, PTL

(* rss_macos_release_binding and the early releases of a refusal together  *)
(* return every reference once, on all paths.                              *)
THEOREM ReferencesBalance == Spec => []ReferencesAreReleased
<1>1. ASSUME Inv, pc \in {"idle", "returned"} PROVE held = [s \in Slots |-> 0]
  <2>1. held["service"] = 0 /\ held["device"] = 0 /\ held["peer"] = 0
    BY <1>1 DEF Inv, Owned, Early
  <2>2. held \in [Slots -> 0..1] /\ \A s \in Slots : held[s] = 0
    BY <1>1, <2>1 DEF Inv, TypeOK, Slots
  <2> QED
    BY <2>2
<1>2. Inv => ReferencesAreReleased
  BY <1>1 DEF ReferencesAreReleased
<1> QED
  BY <1>2, Invariance, PTL

(* No number and no state of other pipes makes the resolver refuse a       *)
(* complete display of the DP family.                                      *)
THEOREM SiblingsNeverMatter == Spec => []SiblingsDoNotMatter
<1>1. Inv => SiblingsDoNotMatter
  BY DEF Inv, Undisturbed, SiblingsDoNotMatter
<1> QED
  BY <1>1, Invariance, PTL
=============================================================================
