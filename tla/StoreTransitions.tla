-------------------------- MODULE StoreTransitions --------------------------
(***************************************************************************)
(* The Store struct of store.rs as a value, `apply' as a function on it,    *)
(* and the checks each mutation makes before it records anything.  A store  *)
(* is a record                                                             *)
(*                                                                         *)
(*   items      : identifier -> [class, versions, manifest]                *)
(*   bindings   : sequence of [id, subject, profile, pin, terms]           *)
(*   services   : identifier -> version history                            *)
(*   protocols, mechanisms : sets of identifiers (their bodies never change) *)
(*   nextBindingId                                                         *)
(*                                                                         *)
(* A manifest is [pin, express]: the version key, and the deposited source  *)
(* with its validation when the manifest has an express block.             *)
(***************************************************************************)
EXTENDS VersionHistory

EmptyStore ==
    [items         |-> << >>,
     bindings      |-> << >>,
     services      |-> << >>,
     protocols     |-> {},
     mechanisms    |-> {},
     nextBindingId |-> 1]

With(f, key, value) == [k \in DOMAIN f \cup {key} |-> IF k = key THEN value ELSE f[k]]

-----------------------------------------------------------------------------
(* The operations of the audit log (enum Op).                              *)

RegisterItemOp(id, item) ==
    [op |-> "register-item", identifier |-> id, item |-> item]

SupersedeVersionOp(id, target, number, successor, manifest) ==
    [op |-> "supersede-version", identifier |-> id, superseded |-> target,
     number |-> number, successor |-> successor, manifest |-> manifest]

BindApplicabilityOp(binding) ==
    [op |-> "bind-applicability", binding |-> binding]

RegisterServiceOp(id, versions) ==
    [op |-> "register-service", identifier |-> id, versions |-> versions]

SupersedeServiceOp(id, target, number, successor) ==
    [op |-> "supersede-service", identifier |-> id, superseded |-> target,
     number |-> number, successor |-> successor]

RegisterProtocolBindingOp(id) ==
    [op |-> "register-protocol-binding", identifier |-> id]

RegisterVerificationMechanismOp(id) ==
    [op |-> "register-verification-mechanism", identifier |-> id]

UpdateModelValidationOp(id, version, validation) ==
    [op |-> "update-model-validation", identifier |-> id, version |-> version,
     validation |-> validation]

-----------------------------------------------------------------------------
(* apply, one operator per arm.  A record that names a missing item or      *)
(* service changes nothing; one that names a missing old version still      *)
(* pushes the successor.                                                   *)

ApplyRegisterItem(st, o) ==
    [st EXCEPT !.items = With(@, o.identifier, o.item)]

ApplySupersedeVersion(st, o) ==
    IF o.identifier \notin DOMAIN st.items THEN st
    ELSE LET old == st.items[o.identifier]
         IN  [st EXCEPT !.items[o.identifier] =
                [class    |-> old.class,
                 versions |-> Superseded(old.versions, o.superseded, o.number, o.successor),
                 manifest |-> IF o.manifest = None THEN old.manifest ELSE o.manifest]]

(* Mutants: a replay that does not restore the counter, one that derives it *)
(* from the number of bindings, and one that leaves it at the last id.      *)
ApplyBindKeepingCounter(st, o) ==
    [st EXCEPT !.bindings = Append(@, o.binding)]

ApplyBindCounting(st, o) ==
    [st EXCEPT !.bindings = Append(@, o.binding),
               !.nextBindingId = Len(st.bindings) + 2]

ApplyBindAtLastId(st, o) ==
    [st EXCEPT !.bindings = Append(@, o.binding), !.nextBindingId = o.binding.id]

ApplyBindApplicability(st, o) ==
    [st EXCEPT !.bindings = Append(@, o.binding),
               !.nextBindingId = IF o.binding.id >= @ THEN o.binding.id + 1 ELSE @]

ApplyRegisterService(st, o) ==
    [st EXCEPT !.services = With(@, o.identifier, o.versions)]

ApplySupersedeService(st, o) ==
    IF o.identifier \notin DOMAIN st.services THEN st
    ELSE [st EXCEPT !.services[o.identifier] =
                        Superseded(@, o.superseded, o.number, o.successor)]

(* The validation goes into the item-level manifest: the version the record *)
(* names is not looked at.                                                 *)
ApplyUpdateModelValidation(st, o) ==
    IF \/ o.identifier \notin DOMAIN st.items
       \/ st.items[o.identifier].manifest = None
    THEN st
    ELSE IF st.items[o.identifier].manifest.express = None THEN st
    ELSE [st EXCEPT !.items[o.identifier].manifest.express.validation = o.validation]

Apply(st, o) ==
    CASE o.op = "register-item"             -> ApplyRegisterItem(st, o)
      [] o.op = "supersede-version"         -> ApplySupersedeVersion(st, o)
      [] o.op = "bind-applicability"        -> ApplyBindApplicability(st, o)
      [] o.op = "register-service"          -> ApplyRegisterService(st, o)
      [] o.op = "supersede-service"         -> ApplySupersedeService(st, o)
      [] o.op = "register-protocol-binding" -> [st EXCEPT !.protocols = @ \cup {o.identifier}]
      [] o.op = "register-verification-mechanism" ->
             [st EXCEPT !.mechanisms = @ \cup {o.identifier}]
      [] o.op = "update-model-validation"   -> ApplyUpdateModelValidation(st, o)

(* replay: the fold of apply over a sequence of operations, from an empty   *)
(* store.                                                                  *)
Replay(ops) ==
    LET after[n \in 0 .. Len(ops)] ==
            IF n = 0 THEN EmptyStore ELSE Apply(after[n - 1], ops[n])
    IN  after[Len(ops)]

-----------------------------------------------------------------------------
(* What each mutation requires of the store, in the order of the code's     *)
(* early returns.                                                          *)

(* A mutant without the conflict check. *)
CanReregisterItem(st, id) == TRUE

CanRegisterItem(st, id) == id \notin DOMAIN st.items

(* Mutants, each without one check: the status of the target, a number in   *)
(* use, a start before the target's.                                       *)
CanSupersedeAnyTarget(st, id, target, number, successor) ==
    /\ id \in DOMAIN st.items
    /\ number \notin DOMAIN st.items[id].versions
    /\ target \in DOMAIN st.items[id].versions
    /\ successor.from >= st.items[id].versions[target].from

CanSupersedeWithAnyNumber(st, id, target, number, successor) ==
    /\ id \in DOMAIN st.items
    /\ target \in DOMAIN st.items[id].versions
    /\ st.items[id].versions[target].status = "valid"
    /\ successor.from >= st.items[id].versions[target].from

CanSupersedeBackwards(st, id, target, number, successor) ==
    /\ id \in DOMAIN st.items
    /\ number \notin DOMAIN st.items[id].versions
    /\ target \in DOMAIN st.items[id].versions
    /\ st.items[id].versions[target].status = "valid"

CanSupersede(st, id, target, number, successor) ==
    /\ id \in DOMAIN st.items
    /\ number \notin DOMAIN st.items[id].versions
    /\ target \in DOMAIN st.items[id].versions
    /\ st.items[id].versions[target].status = "valid"
    /\ successor.from >= st.items[id].versions[target].from

(* A mutant that does not look the pin up. *)
CanBindAnyPin(st, profile, pin) ==
    profile \in DOMAIN st.items /\ st.items[profile].class = "profile"

CanBind(st, profile, pin) ==
    /\ profile \in DOMAIN st.items
    /\ st.items[profile].class = "profile"
    /\ pin # None => pin \in DOMAIN st.items[profile].versions

CanRegisterService(st, id) == id \notin DOMAIN st.services

(* Mutants, without the check of the target's status and of the number.     *)
CanSupersedeAnyServiceVersion(st, id, target, number, successor) ==
    /\ id \in DOMAIN st.services
    /\ number \notin DOMAIN st.services[id]
    /\ target \in DOMAIN st.services[id]
    /\ successor.from >= st.services[id][target].from

CanSupersedeServiceWithAnyNumber(st, id, target, number, successor) ==
    /\ id \in DOMAIN st.services
    /\ target \in DOMAIN st.services[id]
    /\ st.services[id][target].status = "active"
    /\ successor.from >= st.services[id][target].from

CanSupersedeService(st, id, target, number, successor) ==
    /\ id \in DOMAIN st.services
    /\ number \notin DOMAIN st.services[id]
    /\ target \in DOMAIN st.services[id]
    /\ st.services[id][target].status = "active"
    /\ successor.from >= st.services[id][target].from

CanRegisterProtocolBinding(st, id) == id \notin st.protocols

CanRegisterVerificationMechanism(st, id) == id \notin st.mechanisms

(* A mutant that records outcomes for the serving version only. *)
CanUpdateServingValidation(st, id, version) ==
    /\ id \in DOMAIN st.items
    /\ st.items[id].class = "model"
    /\ version \in DOMAIN st.items[id].versions
    /\ st.items[id].versions[version].status = "valid"

CanUpdateModelValidation(st, id, version) ==
    /\ id \in DOMAIN st.items
    /\ st.items[id].class = "model"
    /\ version \in DOMAIN st.items[id].versions
=============================================================================
