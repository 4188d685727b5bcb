--------------------------- MODULE RegistryStore ----------------------------
(***************************************************************************)
(* The registry store in memory (store.rs, Store): the maps of items and    *)
(* services, the applicability bindings, the C4 and C5 descriptors and the  *)
(* audit log.  Every mutation runs under the one mutex of AppState, so each *)
(* is one action: its guard is what the handler and the store check, its    *)
(* effect is `record', which appends to the log and applies.  A refused     *)
(* request changes nothing and is no step.                                 *)
(***************************************************************************)
EXTENDS StoreProperties

CONSTANTS
    Identifier,     \* identifiers of registry items
    ServiceId,      \* identifiers of service descriptors
    DescriptorId,   \* identifiers of protocol bindings and mechanisms
    Version,        \* version numbers
    Window,         \* the effective windows a request may state
    Class,          \* the item classes in use
    Subject,        \* product types that profiles are bound to
    Terms,          \* windows and flags of a binding, opaque to the store
    Source,         \* EXPRESS source texts
    MaxLog          \* bound on the length of the audit log

\* "data-element" stands for every class that has no intake check.
ItemClass        == {"data-element", "profile", "cross-register-mapping", "model"}
\* The classes whose schema requires a manifest with a version key.
PinnedClass      == {"profile", "cross-register-mapping"}
ValidationStatus == {"valid", "invalid", "pending"}
ServiceStatus    == {"active", "superseded", "suspended", "succeeded"}

ASSUME VersionAssumption == Version \subseteq Nat
ASSUME ClassAssumption == Class \subseteq ItemClass
ASSUME WindowAssumption ==
    \A w \in Window : /\ w.from \in Nat
                      /\ \/ w.until = None
                         \/ w.until \in Nat /\ w.until > w.from
ASSUME MaxLogAssumption == MaxLog \in Nat

VARIABLES mem, log

vars == <<mem, log>>

-----------------------------------------------------------------------------
(* The shape of the data.                                                  *)

EntryOf(status) ==
    [status : status, from : Nat, until : Nat \cup {None},
     next : Version \cup {None}]

IsHistory(vs, status) ==
    DOMAIN vs \subseteq Version /\ vs \in [DOMAIN vs -> EntryOf(status)]

ItemStatus == {"valid", "superseded"}

Express == [source : Source, validation : ValidationStatus]

Manifest == [pin : Version \cup {None}, express : Express \cup {None}]

IsItem(item) ==
    /\ item = [class |-> item.class, versions |-> item.versions, manifest |-> item.manifest]
    /\ item.class \in Class
    /\ IsHistory(item.versions, ItemStatus)
    /\ item.manifest \in Manifest \cup {None}

Binding == [id : Nat \ {0}, subject : Subject, profile : Identifier,
            pin : Version \cup {None}, terms : Terms]

IsStore(st) ==
    /\ st = [items |-> st.items, bindings |-> st.bindings, services |-> st.services,
             protocols |-> st.protocols, mechanisms |-> st.mechanisms,
             nextBindingId |-> st.nextBindingId]
    /\ DOMAIN st.items \subseteq Identifier
    /\ \A id \in DOMAIN st.items : IsItem(st.items[id])
    /\ st.bindings \in Seq(Binding)
    /\ DOMAIN st.services \subseteq ServiceId
    /\ \A id \in DOMAIN st.services : IsHistory(st.services[id], ServiceStatus)
    /\ st.protocols \subseteq DescriptorId
    /\ st.mechanisms \subseteq DescriptorId
    /\ st.nextBindingId \in Nat \ {0}

IsOp(o) ==
    \/ /\ o.op = "register-item"
       /\ o = RegisterItemOp(o.identifier, o.item)
       /\ o.identifier \in Identifier /\ IsItem(o.item)
    \/ /\ o.op = "supersede-version"
       /\ o = SupersedeVersionOp(o.identifier, o.superseded, o.number, o.successor,
                                 o.manifest)
       /\ o.superseded \in Version /\ o.number \in Version
       /\ o.successor \in EntryOf(ItemStatus) /\ o.manifest \in Manifest \cup {None}
    \/ /\ o.op = "bind-applicability"
       /\ o = BindApplicabilityOp(o.binding)
       /\ o.binding \in Binding
    \/ /\ o.op = "register-service"
       /\ o = RegisterServiceOp(o.identifier, o.versions)
       /\ o.identifier \in ServiceId /\ IsHistory(o.versions, ServiceStatus)
    \/ /\ o.op = "supersede-service"
       /\ o = SupersedeServiceOp(o.identifier, o.superseded, o.number, o.successor)
       /\ o.superseded \in Version /\ o.number \in Version
       /\ o.successor \in EntryOf(ServiceStatus)
    \/ /\ o.op \in {"register-protocol-binding", "register-verification-mechanism"}
       /\ o = [op |-> o.op, identifier |-> o.identifier]
       /\ o.identifier \in DescriptorId
    \/ /\ o.op = "update-model-validation"
       /\ o = UpdateModelValidationOp(o.identifier, o.version, o.validation)
       /\ o.validation \in ValidationStatus

IsLog(records) ==
    /\ records \in Seq({records[i] : i \in DOMAIN records})
    /\ \A i \in DOMAIN records : /\ records[i] = [seq |-> i, op |-> records[i].op]
                                 /\ IsOp(records[i].op)

(* The type invariant: the store and the log are well-formed, and the       *)
(* records are numbered by their positions (Store::record, Store::log_json).*)
TypeOK == IsStore(mem) /\ IsLog(log)

-----------------------------------------------------------------------------
Entry(status, w) == [status |-> status, from |-> w.from, until |-> w.until, next |-> None]

Init == mem = EmptyStore /\ log = << >>

(* A mutant that numbers the records from zero. *)
RecordFromZero(st, o) == /\ Len(log) < MaxLog
                         /\ log' = Append(log, [seq |-> Len(log), op |-> o])
                         /\ mem' = Apply(st, o)

Record(st, o) == /\ Len(log) < MaxLog
                 /\ log' = Append(log, [seq |-> Len(log) + 1, op |-> o])
                 /\ mem' = Apply(st, o)

(* The manifests POST /items accepts: pinned to the one version there is;   *)
(* a profile and a mapping have to carry one.                              *)
FirstManifests(class, number) ==
    IF class \in PinnedClass THEN {[pin |-> number, express |-> None]}
    ELSE {None, [pin |-> number, express |-> None]}

CreateItem(id, class, number, w, manifest) ==
    /\ class # "model"
    /\ manifest \in FirstManifests(class, number)
    /\ CanRegisterItem(mem, id)
    /\ Record(mem, RegisterItemOp(id, [class    |-> class,
                                       versions |-> [v \in {number} |-> Entry("valid", w)],
                                       manifest |-> manifest]))

(* POST /models: the outcome of the validator is already known, and an      *)
(* invalid source has been refused.                                        *)
DepositModel(id, number, w, source, validation) ==
    /\ validation # "invalid"
    /\ CanRegisterItem(mem, id)
    /\ Record(mem, RegisterItemOp(id,
            [class    |-> "model",
             versions |-> [v \in {number} |-> Entry("valid", w)],
             manifest |-> [pin     |-> number,
                           express |-> [source |-> source, validation |-> validation]]]))

(* The manifests POST /items/{id}/versions accepts: none (the old one       *)
(* stays), or one pinned to the new or a registered version; a class that   *)
(* has no intake check may leave the pin out, and a model item may carry    *)
(* any express block.                                                      *)
NextManifests(item, number) ==
    LET pins == DOMAIN item.versions \cup {number}
    IN  {None} \cup
        [pin     : IF item.class \in PinnedClass THEN pins ELSE pins \cup {None},
         express : IF item.class = "model" THEN Express \cup {None} ELSE {None}]

SupersedeItem(id, target, number, w, manifest) ==
    /\ CanSupersede(mem, id, target, number, Entry("valid", w))
    /\ manifest \in NextManifests(mem.items[id], number)
    /\ Record(mem, SupersedeVersionOp(id, target, number, Entry("valid", w), manifest))

(* bind advances the counter itself; the record it appends does so again.   *)
BindApplicability(subject, profile, pin, terms) ==
    /\ CanBind(mem, profile, pin)
    /\ Record([mem EXCEPT !.nextBindingId = @ + 1],
              BindApplicabilityOp([id |-> mem.nextBindingId, subject |-> subject,
                                   profile |-> profile, pin |-> pin, terms |-> terms]))

CreateService(id, number, w, status) ==
    /\ CanRegisterService(mem, id)
    /\ Record(mem, RegisterServiceOp(id, [v \in {number} |-> Entry(status, w)]))

SupersedeService(id, target, number, w, status) ==
    /\ CanSupersedeService(mem, id, target, number, Entry(status, w))
    /\ Record(mem, SupersedeServiceOp(id, target, number, Entry(status, w)))

CreateProtocolBinding(id) ==
    /\ CanRegisterProtocolBinding(mem, id)
    /\ Record(mem, RegisterProtocolBindingOp(id))

CreateVerificationMechanism(id) ==
    /\ CanRegisterVerificationMechanism(mem, id)
    /\ Record(mem, RegisterVerificationMechanismOp(id))

(* The second half of POST /models/{id}/validate: whatever the validator    *)
(* found is recorded for a version the item has.                           *)
UpdateModelValidation(id, version, validation) ==
    /\ CanUpdateModelValidation(mem, id, version)
    /\ Record(mem, UpdateModelValidationOp(id, version, validation))

-----------------------------------------------------------------------------
CreateItems ==
    \E id \in Identifier, class \in Class, number \in Version, w \in Window :
        \E manifest \in FirstManifests(class, number) :
            CreateItem(id, class, number, w, manifest)

DepositModels ==
    /\ "model" \in Class
    /\ \E id \in Identifier, number \in Version, w \in Window, source \in Source,
          validation \in ValidationStatus :
           DepositModel(id, number, w, source, validation)

SupersedeItems ==
    \E id \in DOMAIN mem.items, number \in Version, w \in Window :
        \E target \in DOMAIN mem.items[id].versions,
           manifest \in NextManifests(mem.items[id], number) :
            SupersedeItem(id, target, number, w, manifest)

BindApplicabilities ==
    \E subject \in Subject, profile \in Identifier, pin \in Version \cup {None},
       terms \in Terms : BindApplicability(subject, profile, pin, terms)

CreateServices ==
    \E id \in ServiceId, number \in Version, w \in Window, status \in ServiceStatus :
        CreateService(id, number, w, status)

SupersedeServices ==
    \E id \in ServiceId, target, number \in Version, w \in Window,
       status \in ServiceStatus : SupersedeService(id, target, number, w, status)

RegisterDescriptors ==
    \E id \in DescriptorId : CreateProtocolBinding(id) \/ CreateVerificationMechanism(id)

UpdateModelValidations ==
    \E id \in Identifier, version \in Version, validation \in ValidationStatus :
        UpdateModelValidation(id, version, validation)

Next == \/ CreateItems
        \/ DepositModels
        \/ SupersedeItems
        \/ BindApplicabilities
        \/ CreateServices
        \/ SupersedeServices
        \/ RegisterDescriptors
        \/ UpdateModelValidations

Spec == Init /\ [][Next]_vars
-----------------------------------------------------------------------------
(* Every item keeps one valid version at the end of one linear chain,       *)
(* whatever mix of explicit and defaulted targets, backdated or tied starts *)
(* the requests carry (the guards of Store::supersede).                     *)
HistoriesLinear == ItemHistoriesLinear(mem)

(* GET /items/{id}/supersession answers from every version, and ends at the *)
(* version GET /items/{id} shows as current.                               *)
ChainsReachCurrent == ItemChainsEndAtCurrent(mem)

(* Point-in-time reads of derived windows: no gap and no overlap between a  *)
(* version and its successor, and the last window belongs to the current    *)
(* version (Item::in_force_at against Item::window_until).                  *)
WindowsPartition == ItemWindowsPartition(mem)

(* The id a binding is acknowledged with names no other binding.            *)
BindingIdsUnique == BindingIdsFresh(mem)

(* No supersession leaves a binding or a manifest pinned to a version or to *)
(* a profile that is not there (seam S4).                                   *)
PinsAreRegistered == PinsResolve(mem)

(* A service keeps at most one active version, at the end of its links.     *)
ServicesForward == ServiceHistoriesForward(mem)

(* The log is the storage: applying its records to an empty store gives the *)
(* store in memory, counter of the bindings included.                       *)
LogIsState == mem = Replay([i \in DOMAIN log |-> log[i].op])

(* A registered version never changes but for one transition: serving to    *)
(* superseded, with its link, once.  No version, item or binding goes away, *)
(* and a link once set never moves.                                         *)
KeepsHistory(vs, vsNext) ==
    /\ DOMAIN vs \subseteq DOMAIN vsNext
    /\ \A v \in DOMAIN vs :
        \/ vsNext[v] = vs[v]
        \/ /\ vs[v].next = None
           /\ vsNext[v].next \in DOMAIN vsNext \ DOMAIN vs
           /\ vsNext[v] = [vs[v] EXCEPT !.status = "superseded",
                                        !.next = vsNext[v].next]

VersionsImmutable ==
    [][/\ \A id \in DOMAIN mem.items :
              /\ id \in DOMAIN mem.items'
              /\ KeepsHistory(mem.items[id].versions, mem.items[id].versions')
       /\ \A id \in DOMAIN mem.services :
              /\ id \in DOMAIN mem.services'
              /\ KeepsHistory(mem.services[id], mem.services[id]')
       /\ \A i \in DOMAIN mem.bindings : mem.bindings[i]' = mem.bindings[i]]_vars

-----------------------------------------------------------------------------
(* The register this store implements: the history of an entry is the chain *)
(* of links from the version no link leads to.                             *)
Lineage(vs) ==
    SupersessionChain(vs, CHOOSE v \in DOMAIN vs : \A w \in DOMAIN vs : vs[w].next # v)

ItemRegister == INSTANCE LinearRegister
    WITH Key <- Identifier, Number <- Version,
         history <- [id \in DOMAIN mem.items |-> Lineage(mem.items[id].versions)]

ServiceRegister == INSTANCE LinearRegister
    WITH Key <- ServiceId, Number <- Version,
         history <- [id \in DOMAIN mem.services |-> Lineage(mem.services[id])]

(* The links of an item's versions are a linear register: each registration *)
(* starts a history, each supersession extends one at its end.             *)
ItemsAreLinear == ItemRegister!Spec

(* The same for the services (README, "the same supersession discipline").  *)
ServicesAreLinear == ServiceRegister!Spec

-----------------------------------------------------------------------------
(* A statement of the README that the code does not keep.                  *)

(* README, discovery registry: the supersession discipline of items, "with  *)
(* derived window ends": the version a service shows at an instant is one   *)
(* whose resolved window covers the instant.                               *)
ServiceReadsUseDerivedEnds ==
    \A id \in DOMAIN mem.services :
        LET vs == mem.services[id]
        IN  \A t \in {w.from : w \in Window} \cup ({w.until : w \in Window} \ {None}) :
                LET v == ServiceInForceAt(vs, t)
                IN  v # None => Covers(vs[v].from, WindowUntil(vs, v), t)
=============================================================================
