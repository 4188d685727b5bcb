------------------------ MODULE RegistryStoreProofs -------------------------
(***************************************************************************)
(* Theorems about the store in memory, for every set of identifiers,        *)
(* versions, windows and sources and for every bound on the log: its type,  *)
(* the item histories, the bindings, the references of one entry to         *)
(* another, and what the log and the links of a history amount to:          *)
(* replaying the log gives the store, the links of an item spell its        *)
(* registrations in order, every chain ends at the current version and the  *)
(* derived windows partition the time.                                     *)
(***************************************************************************)
EXTENDS RegistryStore, SequenceTheorems, FiniteSetTheorems, TLAPS

-----------------------------------------------------------------------------
(* Types.                                                                  *)

(* An entry for a stated window is an entry. *)
LEMMA EntryType ==
    ASSUME NEW S, NEW status \in S, NEW w \in Window
    PROVE  Entry(status, w) \in EntryOf(S)
BY WindowAssumption DEF Entry, EntryOf

(* A history of one entry, and a supersession, are histories. *)
LEMMA FirstHistoryType ==
    ASSUME NEW S, NEW number \in Version, NEW e \in EntryOf(S)
    PROVE  IsHistory([v \in {number} |-> e], S)
BY DEF IsHistory

LEMMA SupersededType ==
    ASSUME NEW S, "superseded" \in S, NEW vs, IsHistory(vs, S),
           NEW target \in Version, NEW number \in Version, NEW e \in EntryOf(S)
    PROVE  IsHistory(Superseded(vs, target, number, e), S)
<1> DEFINE D == DOMAIN vs \cup {number}
           new == Superseded(vs, target, number, e)
<1>1. D \subseteq Version
  BY DEF IsHistory
<1>2. DOMAIN new = D
  BY DEF Superseded
<1>3. ASSUME NEW v \in D
      PROVE  new[v] \in EntryOf(S)
  <2>1. CASE v = number
    BY <2>1 DEF Superseded
  <2>2. CASE v # number
    <3>1. vs[v] \in EntryOf(S)
      BY <2>2 DEF IsHistory
    <3>2. Linked(vs[v], number) \in EntryOf(S)
      BY <3>1 DEF EntryOf, Linked
    <3> QED
      BY <2>2, <3>1, <3>2 DEF Superseded
  <2> QED
    BY <2>1, <2>2
<1>4. new \in [D -> EntryOf(S)]
  BY <1>3 DEF Superseded
<1> QED
  BY <1>1, <1>2, <1>4 DEF IsHistory

(* Six well-typed fields make a store, and so does replacing one of them.   *)
LEMMA StoreIntro ==
    ASSUME NEW items, DOMAIN items \subseteq Identifier,
           \A id \in DOMAIN items : IsItem(items[id]),
           NEW bindings \in Seq(Binding),
           NEW services, DOMAIN services \subseteq ServiceId,
           \A id \in DOMAIN services : IsHistory(services[id], ServiceStatus),
           NEW protocols, protocols \subseteq DescriptorId,
           NEW mechanisms, mechanisms \subseteq DescriptorId,
           NEW nextBindingId \in Nat \ {0}
    PROVE  IsStore([items |-> items, bindings |-> bindings, services |-> services,
                    protocols |-> protocols, mechanisms |-> mechanisms,
                    nextBindingId |-> nextBindingId])
<1> DEFINE st == [items |-> items, bindings |-> bindings, services |-> services,
                  protocols |-> protocols, mechanisms |-> mechanisms,
                  nextBindingId |-> nextBindingId]
<1>1. /\ st.items = items /\ st.bindings = bindings /\ st.services = services
      /\ st.protocols = protocols /\ st.mechanisms = mechanisms
      /\ st.nextBindingId = nextBindingId
  OBVIOUS
<1>2. st = [items |-> st.items, bindings |-> st.bindings, services |-> st.services,
            protocols |-> st.protocols, mechanisms |-> st.mechanisms,
            nextBindingId |-> st.nextBindingId]
  OBVIOUS
<1> HIDE DEF st
<1>3. IsStore(st)
  BY <1>1, <1>2 DEF IsStore
<1> QED
  BY <1>3 DEF st

LEMMA ItemsUpdate ==
    ASSUME NEW st, IsStore(st), NEW x, DOMAIN x \subseteq Identifier, \A id \in DOMAIN x : IsItem(x[id])
    PROVE  IsStore([st EXCEPT !.items = x])
<1>1. [st EXCEPT !.items = x] =
          [items |-> x, bindings |-> st.bindings, services |-> st.services,
           protocols |-> st.protocols, mechanisms |-> st.mechanisms,
           nextBindingId |-> st.nextBindingId]
  BY DEF IsStore
<1>2. IsStore([items |-> x, bindings |-> st.bindings, services |-> st.services,
               protocols |-> st.protocols, mechanisms |-> st.mechanisms,
               nextBindingId |-> st.nextBindingId])
  BY StoreIntro DEF IsStore
<1> QED
  BY <1>1, <1>2

LEMMA BindingsUpdate ==
    ASSUME NEW st, IsStore(st), NEW x, x \in Seq(Binding)
    PROVE  IsStore([st EXCEPT !.bindings = x])
<1>1. [st EXCEPT !.bindings = x] =
          [items |-> st.items, bindings |-> x, services |-> st.services,
           protocols |-> st.protocols, mechanisms |-> st.mechanisms,
           nextBindingId |-> st.nextBindingId]
  BY DEF IsStore
<1>2. IsStore([items |-> st.items, bindings |-> x, services |-> st.services,
               protocols |-> st.protocols, mechanisms |-> st.mechanisms,
               nextBindingId |-> st.nextBindingId])
  BY StoreIntro DEF IsStore
<1> QED
  BY <1>1, <1>2

LEMMA ServicesUpdate ==
    ASSUME NEW st, IsStore(st), NEW x, DOMAIN x \subseteq ServiceId,
           \A id \in DOMAIN x : IsHistory(x[id], ServiceStatus)
    PROVE  IsStore([st EXCEPT !.services = x])
<1>1. [st EXCEPT !.services = x] =
          [items |-> st.items, bindings |-> st.bindings, services |-> x,
           protocols |-> st.protocols, mechanisms |-> st.mechanisms,
           nextBindingId |-> st.nextBindingId]
  BY DEF IsStore
<1>2. IsStore([items |-> st.items, bindings |-> st.bindings, services |-> x,
               protocols |-> st.protocols, mechanisms |-> st.mechanisms,
               nextBindingId |-> st.nextBindingId])
  BY StoreIntro DEF IsStore
<1> QED
  BY <1>1, <1>2

LEMMA ProtocolsUpdate ==
    ASSUME NEW st, IsStore(st), NEW x, x \subseteq DescriptorId
    PROVE  IsStore([st EXCEPT !.protocols = x])
<1>1. [st EXCEPT !.protocols = x] =
          [items |-> st.items, bindings |-> st.bindings, services |-> st.services,
           protocols |-> x, mechanisms |-> st.mechanisms,
           nextBindingId |-> st.nextBindingId]
  BY DEF IsStore
<1>2. IsStore([items |-> st.items, bindings |-> st.bindings, services |-> st.services,
               protocols |-> x, mechanisms |-> st.mechanisms,
               nextBindingId |-> st.nextBindingId])
  BY StoreIntro DEF IsStore
<1> QED
  BY <1>1, <1>2

LEMMA MechanismsUpdate ==
    ASSUME NEW st, IsStore(st), NEW x, x \subseteq DescriptorId
    PROVE  IsStore([st EXCEPT !.mechanisms = x])
<1>1. [st EXCEPT !.mechanisms = x] =
          [items |-> st.items, bindings |-> st.bindings, services |-> st.services,
           protocols |-> st.protocols, mechanisms |-> x,
           nextBindingId |-> st.nextBindingId]
  BY DEF IsStore
<1>2. IsStore([items |-> st.items, bindings |-> st.bindings, services |-> st.services,
               protocols |-> st.protocols, mechanisms |-> x,
               nextBindingId |-> st.nextBindingId])
  BY StoreIntro DEF IsStore
<1> QED
  BY <1>1, <1>2

LEMMA CounterUpdate ==
    ASSUME NEW st, IsStore(st), NEW x, x \in Nat \ {0}
    PROVE  IsStore([st EXCEPT !.nextBindingId = x])
<1>1. [st EXCEPT !.nextBindingId = x] =
          [items |-> st.items, bindings |-> st.bindings, services |-> st.services,
           protocols |-> st.protocols, mechanisms |-> st.mechanisms,
           nextBindingId |-> x]
  BY DEF IsStore
<1>2. IsStore([items |-> st.items, bindings |-> st.bindings, services |-> st.services,
               protocols |-> st.protocols, mechanisms |-> st.mechanisms,
               nextBindingId |-> x])
  BY StoreIntro DEF IsStore
<1> QED
  BY <1>1, <1>2

(* Each arm of apply keeps a well-typed store well-typed. *)
LEMMA RegisterItemType ==
    ASSUME NEW st, IsStore(st), NEW id \in Identifier, NEW item, IsItem(item)
    PROVE  IsStore(ApplyRegisterItem(st, RegisterItemOp(id, item)))
<1> DEFINE items == With(st.items, id, item)
           new == ApplyRegisterItem(st, RegisterItemOp(id, item))
<1>1. new = [st EXCEPT !.items = items]
  BY DEF ApplyRegisterItem, RegisterItemOp
<1>2. DOMAIN items \subseteq Identifier /\ \A k \in DOMAIN items : IsItem(items[k])
  BY DEF IsStore, With
<1> HIDE DEF items
<1> QED
  BY <1>1, <1>2, ItemsUpdate

LEMMA SupersedeVersionType ==
    ASSUME NEW st, IsStore(st), NEW id, NEW target \in Version, NEW number \in Version,
           NEW successor \in EntryOf(ItemStatus), NEW manifest \in Manifest \cup {None}
    PROVE  IsStore(ApplySupersedeVersion(st,
                SupersedeVersionOp(id, target, number, successor, manifest)))
<1> DEFINE old == st.items[id]
           versions == Superseded(old.versions, target, number, successor)
           item == [class    |-> old.class,
                    versions |-> versions,
                    manifest |-> IF manifest = None THEN old.manifest ELSE manifest]
           items == [st.items EXCEPT ![id] = item]
           new == ApplySupersedeVersion(st,
                      SupersedeVersionOp(id, target, number, successor, manifest))
<1>1. CASE id \notin DOMAIN st.items
  BY <1>1 DEF ApplySupersedeVersion, SupersedeVersionOp
<1>2. CASE id \in DOMAIN st.items
  <2>1. IsItem(old)
    BY <1>2 DEF IsStore
  <2>2. new = [st EXCEPT !.items = items]
    BY <1>2 DEF ApplySupersedeVersion, SupersedeVersionOp
  <2>3. IsHistory(versions, ItemStatus)
    BY <2>1, SupersededType DEF IsItem, ItemStatus
  <2>4. IsItem(item)
    <3> HIDE DEF versions
    <3> QED
      BY <2>1, <2>3 DEF IsItem
  <2>5. DOMAIN items \subseteq Identifier /\ \A k \in DOMAIN items : IsItem(items[k])
    <3> HIDE DEF item
    <3> QED
      BY <2>4 DEF IsStore
  <2> HIDE DEF items
  <2> QED
    BY <2>2, <2>5, ItemsUpdate
<1> QED
  BY <1>1, <1>2

LEMMA BindApplicabilityType ==
    ASSUME NEW st, IsStore(st), NEW binding \in Binding
    PROVE  IsStore(ApplyBindApplicability(st, BindApplicabilityOp(binding)))
<1> DEFINE bindings == Append(st.bindings, binding)
           next == IF binding.id >= st.nextBindingId THEN binding.id + 1
                   ELSE st.nextBindingId
           mid == [st EXCEPT !.bindings = bindings]
           new == ApplyBindApplicability(st, BindApplicabilityOp(binding))
<1>1. bindings \in Seq(Binding)
  BY DEF IsStore
<1>2. next \in Nat \ {0}
  BY DEF IsStore, Binding
<1>3. new = [mid EXCEPT !.nextBindingId = next]
  BY DEF ApplyBindApplicability, BindApplicabilityOp
<1>4. IsStore(mid)
  <2> HIDE DEF bindings
  <2> QED
    BY <1>1, BindingsUpdate
<1> HIDE DEF next, mid
<1> QED
  BY <1>2, <1>3, <1>4, CounterUpdate

LEMMA RegisterServiceType ==
    ASSUME NEW st, IsStore(st), NEW id \in ServiceId,
           NEW versions, IsHistory(versions, ServiceStatus)
    PROVE  IsStore(ApplyRegisterService(st, RegisterServiceOp(id, versions)))
<1> DEFINE services == With(st.services, id, versions)
           new == ApplyRegisterService(st, RegisterServiceOp(id, versions))
<1>1. new = [st EXCEPT !.services = services]
  BY DEF ApplyRegisterService, RegisterServiceOp
<1>2. /\ DOMAIN services \subseteq ServiceId
      /\ \A k \in DOMAIN services : IsHistory(services[k], ServiceStatus)
  BY DEF IsStore, With
<1> HIDE DEF services
<1> QED
  BY <1>1, <1>2, ServicesUpdate

LEMMA SupersedeServiceType ==
    ASSUME NEW st, IsStore(st), NEW id, NEW target \in Version, NEW number \in Version,
           NEW successor \in EntryOf(ServiceStatus)
    PROVE  IsStore(ApplySupersedeService(st,
                SupersedeServiceOp(id, target, number, successor)))
<1> DEFINE versions == Superseded(st.services[id], target, number, successor)
           services == [st.services EXCEPT ![id] = versions]
           new == ApplySupersedeService(st, SupersedeServiceOp(id, target, number, successor))
<1>1. CASE id \notin DOMAIN st.services
  BY <1>1 DEF ApplySupersedeService, SupersedeServiceOp
<1>2. CASE id \in DOMAIN st.services
  <2>1. new = [st EXCEPT !.services = services]
    BY <1>2 DEF ApplySupersedeService, SupersedeServiceOp
  <2>2. IsHistory(versions, ServiceStatus)
    BY <1>2, SupersededType DEF IsStore, ServiceStatus
  <2>3. /\ DOMAIN services \subseteq ServiceId
        /\ \A k \in DOMAIN services : IsHistory(services[k], ServiceStatus)
    <3> HIDE DEF versions
    <3> QED
      BY <2>2 DEF IsStore
  <2> HIDE DEF services
  <2> QED
    BY <2>1, <2>3, ServicesUpdate
<1> QED
  BY <1>1, <1>2

LEMMA UpdateModelValidationType ==
    ASSUME NEW st, IsStore(st), NEW id, NEW version,
           NEW validation \in ValidationStatus
    PROVE  IsStore(ApplyUpdateModelValidation(st,
                UpdateModelValidationOp(id, version, validation)))
<1> DEFINE old == st.items[id]
           m == old.manifest
           item == [class    |-> old.class,
                    versions |-> old.versions,
                    manifest |-> [pin     |-> m.pin,
                                  express |-> [source     |-> m.express.source,
                                               validation |-> validation]]]
           items == [st.items EXCEPT ![id] = item]
           new == ApplyUpdateModelValidation(st,
                      UpdateModelValidationOp(id, version, validation))
<1>1. CASE \/ id \notin DOMAIN st.items
           \/ m = None
           \/ m.express = None
  BY <1>1 DEF ApplyUpdateModelValidation, UpdateModelValidationOp
<1>2. CASE id \in DOMAIN st.items /\ m # None /\ m.express # None
  <2>1. IsItem(old)
    BY <1>2 DEF IsStore
  <2>2. m \in Manifest /\ m.express \in Express
    BY <1>2, <2>1 DEF IsItem, Manifest
  <2>3. new = [st EXCEPT !.items = items]
    <3>1. [m.express EXCEPT !.validation = validation] =
              [source |-> m.express.source, validation |-> validation]
      BY <2>2 DEF Express
    <3>2. [m EXCEPT !.express = [m.express EXCEPT !.validation = validation]] =
              item.manifest
      BY <2>2, <3>1 DEF Manifest
    <3>3. [old EXCEPT !.manifest =
              [m EXCEPT !.express = [m.express EXCEPT !.validation = validation]]] = item
      BY <2>1, <3>2 DEF IsItem
    <3>4. new = [st EXCEPT !.items = [st.items EXCEPT ![id] =
              [old EXCEPT !.manifest =
                  [m EXCEPT !.express = [m.express EXCEPT !.validation = validation]]]]]
      BY <1>2 DEF ApplyUpdateModelValidation, UpdateModelValidationOp
    <3> HIDE DEF item
    <3> QED
      BY <3>3, <3>4
  <2>4. IsItem(item)
    BY <2>1, <2>2 DEF IsItem, Manifest, Express
  <2>5. DOMAIN items \subseteq Identifier /\ \A k \in DOMAIN items : IsItem(items[k])
    <3> HIDE DEF item
    <3> QED
      BY <2>4 DEF IsStore
  <2> HIDE DEF items
  <2> QED
    BY <2>3, <2>5, ItemsUpdate
<1> QED
  BY <1>1, <1>2

LEMMA ApplyType ==
    ASSUME NEW st, IsStore(st), NEW o, IsOp(o)
    PROVE  IsStore(Apply(st, o))
<1>1. CASE /\ o = RegisterItemOp(o.identifier, o.item)
           /\ o.identifier \in Identifier /\ IsItem(o.item)
  <2> DEFINE op == RegisterItemOp(o.identifier, o.item)
  <2>1. IsStore(ApplyRegisterItem(st, op))
    BY <1>1, RegisterItemType
  <2>2. Apply(st, op) = ApplyRegisterItem(st, op)
    BY DEF Apply, RegisterItemOp
  <2>3. o = op
    BY <1>1
  <2> HIDE DEF op
  <2> QED
    BY <2>1, <2>2, <2>3
<1>2. CASE /\ o = SupersedeVersionOp(o.identifier, o.superseded, o.number, o.successor,
                                     o.manifest)
           /\ o.superseded \in Version /\ o.number \in Version
           /\ o.successor \in EntryOf(ItemStatus) /\ o.manifest \in Manifest \cup {None}
  <2> DEFINE op == SupersedeVersionOp(o.identifier, o.superseded, o.number,
                                      o.successor, o.manifest)
  <2>1. IsStore(ApplySupersedeVersion(st, op))
    BY <1>2, SupersedeVersionType
  <2>2. Apply(st, op) = ApplySupersedeVersion(st, op)
    BY DEF Apply, SupersedeVersionOp
  <2>3. o = op
    BY <1>2
  <2> HIDE DEF op
  <2> QED
    BY <2>1, <2>2, <2>3
<1>3. CASE o = BindApplicabilityOp(o.binding) /\ o.binding \in Binding
  <2> DEFINE op == BindApplicabilityOp(o.binding)
  <2>1. IsStore(ApplyBindApplicability(st, op))
    BY <1>3, BindApplicabilityType
  <2>2. Apply(st, op) = ApplyBindApplicability(st, op)
    BY DEF Apply, BindApplicabilityOp
  <2>3. o = op
    BY <1>3
  <2> HIDE DEF op
  <2> QED
    BY <2>1, <2>2, <2>3
<1>4. CASE /\ o = RegisterServiceOp(o.identifier, o.versions)
           /\ o.identifier \in ServiceId /\ IsHistory(o.versions, ServiceStatus)
  <2> DEFINE op == RegisterServiceOp(o.identifier, o.versions)
  <2>1. IsStore(ApplyRegisterService(st, op))
    BY <1>4, RegisterServiceType
  <2>2. Apply(st, op) = ApplyRegisterService(st, op)
    BY DEF Apply, RegisterServiceOp
  <2>3. o = op
    BY <1>4
  <2> HIDE DEF op
  <2> QED
    BY <2>1, <2>2, <2>3
<1>5. CASE /\ o = SupersedeServiceOp(o.identifier, o.superseded, o.number, o.successor)
           /\ o.superseded \in Version /\ o.number \in Version
           /\ o.successor \in EntryOf(ServiceStatus)
  <2> DEFINE op == SupersedeServiceOp(o.identifier, o.superseded, o.number, o.successor)
  <2>1. IsStore(ApplySupersedeService(st, op))
    BY <1>5, SupersedeServiceType
  <2>2. Apply(st, op) = ApplySupersedeService(st, op)
    BY DEF Apply, SupersedeServiceOp
  <2>3. o = op
    BY <1>5
  <2> HIDE DEF op
  <2> QED
    BY <2>1, <2>2, <2>3
<1>6. CASE /\ o.op \in {"register-protocol-binding", "register-verification-mechanism"}
           /\ o = [op |-> o.op, identifier |-> o.identifier]
           /\ o.identifier \in DescriptorId
  <2> DEFINE protocols == st.protocols \cup {o.identifier}
             mechanisms == st.mechanisms \cup {o.identifier}
  <2>1. protocols \subseteq DescriptorId /\ mechanisms \subseteq DescriptorId
    BY <1>6 DEF IsStore
  <2>2. CASE o.op = "register-protocol-binding"
    <3>1. Apply(st, o) = [st EXCEPT !.protocols = protocols]
      BY <2>2 DEF Apply
    <3> HIDE DEF protocols
    <3> QED
      BY <2>1, <3>1, ProtocolsUpdate
  <2>3. CASE o.op = "register-verification-mechanism"
    <3>1. Apply(st, o) = [st EXCEPT !.mechanisms = mechanisms]
      BY <2>3 DEF Apply
    <3> HIDE DEF mechanisms
    <3> QED
      BY <2>1, <3>1, MechanismsUpdate
  <2> QED
    BY <1>6, <2>2, <2>3
<1>7. CASE /\ o = UpdateModelValidationOp(o.identifier, o.version, o.validation)
           /\ o.validation \in ValidationStatus
  <2> DEFINE op == UpdateModelValidationOp(o.identifier, o.version, o.validation)
  <2>1. IsStore(ApplyUpdateModelValidation(st, op))
    BY <1>7, UpdateModelValidationType
  <2>2. Apply(st, op) = ApplyUpdateModelValidation(st, op)
    BY DEF Apply, UpdateModelValidationOp
  <2>3. o = op
    BY <1>7
  <2> HIDE DEF op
  <2> QED
    BY <2>1, <2>2, <2>3
<1> QED
  BY <1>1, <1>2, <1>3, <1>4, <1>5, <1>6, <1>7 DEF IsOp

LEMMA AppendLog ==
    ASSUME NEW records, IsLog(records), NEW o, IsOp(o)
    PROVE  IsLog(Append(records, [seq |-> Len(records) + 1, op |-> o]))
<1> DEFINE rec == [seq |-> Len(records) + 1, op |-> o]
           S   == {records[i] : i \in DOMAIN records} \cup {rec}
           new == Append(records, rec)
<1>1. records \in Seq(S) /\ rec \in S
  BY DEF IsLog
<1> HIDE DEF S
<1>2. /\ new \in Seq(S)
      /\ Len(new) = Len(records) + 1
      /\ DOMAIN new = 1 .. Len(new)
      /\ \A i \in 1 .. Len(records) : new[i] = records[i]
      /\ new[Len(records) + 1] = rec
  BY <1>1, AppendProperties
<1>3. new \in Seq({new[i] : i \in DOMAIN new})
  <2> DEFINE T == {new[i] : i \in DOMAIN new}
  <2>1. \A i \in 1 .. Len(new) : new[i] \in T
    BY <1>2
  <2> HIDE DEF T, new
  <2>2. new \in Seq(T)
    BY <1>2, <2>1, SeqDef, LenProperties
  <2> QED
    BY <2>2 DEF T
<1>4. ASSUME NEW i \in DOMAIN new
      PROVE  new[i] = [seq |-> i, op |-> new[i].op] /\ IsOp(new[i].op)
  <2>1. Len(records) \in Nat /\ DOMAIN records = 1 .. Len(records)
    BY <1>1, LenProperties
  <2>2. CASE i = Len(records) + 1
    BY <1>2, <2>2
  <2>3. CASE i # Len(records) + 1
    BY <1>2, <2>1, <2>3 DEF IsLog
  <2> QED
    BY <2>2, <2>3
<1> QED
  BY <1>3, <1>4 DEF IsLog

-----------------------------------------------------------------------------
(* What a step records.                                                     *)

LEMMA BoundStore ==
    ASSUME NEW items, NEW bindings, NEW services, NEW protocols, NEW mechanisms, NEW next,
           NEW st, st = [items |-> items, bindings |-> bindings, services |-> services,
                         protocols |-> protocols, mechanisms |-> mechanisms,
                         nextBindingId |-> next],
           NEW x, NEW y
    PROVE  [st EXCEPT !.bindings = x, !.nextBindingId = y]
               = [items |-> items, bindings |-> x, services |-> services,
                  protocols |-> protocols, mechanisms |-> mechanisms, nextBindingId |-> y]
<1> DEFINE mid == [st EXCEPT !.bindings = x]
<1>1. mid = [items |-> items, bindings |-> x, services |-> services,
             protocols |-> protocols, mechanisms |-> mechanisms, nextBindingId |-> next]
  OBVIOUS
<1>2. [st EXCEPT !.bindings = x, !.nextBindingId = y] = [mid EXCEPT !.nextBindingId = y]
  OBVIOUS
<1> HIDE DEF mid
<1> QED
  BY <1>1, <1>2

(* The counter bind advances itself is where the record puts it anyway.     *)
LEMMA BindAdvancesOnce ==
    ASSUME NEW st, IsStore(st), NEW b, b.id = st.nextBindingId
    PROVE  Apply([st EXCEPT !.nextBindingId = @ + 1], BindApplicabilityOp(b))
               = Apply(st, BindApplicabilityOp(b))
<1>1. \E items, bindings, services, protocols, mechanisms, n :
          st = [items |-> items, bindings |-> bindings, services |-> services,
                protocols |-> protocols, mechanisms |-> mechanisms, nextBindingId |-> n]
  BY DEF IsStore
<1>2. PICK items, bindings, services, protocols, mechanisms, n :
          st = [items |-> items, bindings |-> bindings, services |-> services,
                protocols |-> protocols, mechanisms |-> mechanisms, nextBindingId |-> n]
  BY <1>1, Zenon
<1>3. st.bindings = bindings /\ st.nextBindingId = n /\ n \in Nat /\ b.id = n
  BY <1>2 DEF IsStore
<1> DEFINE early == [st EXCEPT !.nextBindingId = @ + 1]
           more == Append(bindings, b)
           new == [items |-> items, bindings |-> more, services |-> services,
                   protocols |-> protocols, mechanisms |-> mechanisms,
                   nextBindingId |-> n + 1]
<1>4. early = [items |-> items, bindings |-> bindings, services |-> services,
               protocols |-> protocols, mechanisms |-> mechanisms, nextBindingId |-> n + 1]
  BY <1>2
<1> HIDE DEF early
<1>5. early.bindings = bindings /\ early.nextBindingId = n + 1
  BY <1>4
<1>6. Apply(early, BindApplicabilityOp(b)) = new
  <2>1. Apply(early, BindApplicabilityOp(b))
            = [early EXCEPT !.bindings = Append(early.bindings, b),
                            !.nextBindingId = IF b.id >= early.nextBindingId THEN b.id + 1
                                              ELSE early.nextBindingId]
    BY DEF Apply, BindApplicabilityOp, ApplyBindApplicability
  <2>2. (IF b.id >= early.nextBindingId THEN b.id + 1 ELSE early.nextBindingId) = n + 1
    BY <1>3, <1>5
  <2>3. Apply(early, BindApplicabilityOp(b))
            = [early EXCEPT !.bindings = more, !.nextBindingId = n + 1]
    BY <1>5, <2>1, <2>2
  <2> HIDE DEF more
  <2> QED
    BY <1>4, <2>3, BoundStore
<1>7. Apply(st, BindApplicabilityOp(b)) = new
  <2>1. Apply(st, BindApplicabilityOp(b))
            = [st EXCEPT !.bindings = Append(st.bindings, b),
                            !.nextBindingId = IF b.id >= st.nextBindingId THEN b.id + 1
                                              ELSE st.nextBindingId]
    BY DEF Apply, BindApplicabilityOp, ApplyBindApplicability
  <2>2. (IF b.id >= st.nextBindingId THEN b.id + 1 ELSE st.nextBindingId) = n + 1
    BY <1>3
  <2>3. Apply(st, BindApplicabilityOp(b))
            = [st EXCEPT !.bindings = more, !.nextBindingId = n + 1]
    BY <1>3, <2>1, <2>2
  <2> HIDE DEF more
  <2> QED
    BY <1>2, <2>3, BoundStore
<1> QED
  BY <1>6, <1>7 DEF early

(* A step of the store records one whole operation, and does to the store   *)
(* what applying that operation to it does.                                *)
RecordedOp(o) == /\ IsOp(o)
                 /\ Record(mem, o)
                 /\ o.op = "bind-applicability" => o.binding.id = mem.nextBindingId

(* Recording a well-typed operation keeps the type invariant. *)
LEMMA RecordType ==
    ASSUME TypeOK, NEW o, RecordedOp(o)
    PROVE  TypeOK'
<1>1. IsLog(Append(log, [seq |-> Len(log) + 1, op |-> o]))
  BY AppendLog DEF TypeOK, RecordedOp
<1>2. IsStore(Apply(mem, o))
  BY ApplyType DEF TypeOK, RecordedOp
<1> QED
  BY <1>1, <1>2 DEF TypeOK, RecordedOp, Record

(* The item an accepted request registers is well-typed. *)
LEMMA FirstItemType ==
    ASSUME NEW class \in Class, NEW number \in Version, NEW w \in Window,
           NEW manifest \in Manifest \cup {None}
    PROVE  IsItem([class    |-> class,
                   versions |-> [v \in {number} |-> Entry("valid", w)],
                   manifest |-> manifest])
<1> DEFINE versions == [v \in {number} |-> Entry("valid", w)]
<1>1. IsHistory(versions, ItemStatus)
  <2>1. Entry("valid", w) \in EntryOf(ItemStatus)
    BY EntryType DEF ItemStatus
  <2> QED
    BY <2>1, FirstHistoryType
<1> HIDE DEF versions
<1>2. IsItem([class |-> class, versions |-> versions, manifest |-> manifest])
  BY <1>1 DEF IsItem
<1> QED
  BY <1>2 DEF versions

LEMMA CreateItemsRecorded ==
    ASSUME IsStore(mem), CreateItems
    PROVE  \E o : RecordedOp(o)
<1> SUFFICES ASSUME NEW id \in Identifier, NEW class \in Class, NEW number \in Version,
                    NEW w \in Window, NEW manifest \in FirstManifests(class, number),
                    CreateItem(id, class, number, w, manifest)
             PROVE  \E o : RecordedOp(o)
  BY DEF CreateItems
<1> DEFINE item == [class    |-> class,
                    versions |-> [v \in {number} |-> Entry("valid", w)],
                    manifest |-> manifest]
<1>1. manifest \in Manifest \cup {None}
  BY DEF FirstManifests, Manifest
<1>2. IsItem(item)
  BY <1>1, FirstItemType
<1>3. Record(mem, RegisterItemOp(id, item))
  BY DEF CreateItem
<1> HIDE DEF item
<1>4. IsOp(RegisterItemOp(id, item))
  BY <1>2 DEF IsOp, RegisterItemOp
<1> QED
  BY <1>3, <1>4 DEF RecordedOp, RegisterItemOp

LEMMA DepositModelsRecorded ==
    ASSUME IsStore(mem), DepositModels
    PROVE  \E o : RecordedOp(o)
<1> SUFFICES ASSUME "model" \in Class,
                    NEW id \in Identifier, NEW number \in Version, NEW w \in Window,
                    NEW source \in Source, NEW validation \in ValidationStatus,
                    DepositModel(id, number, w, source, validation)
             PROVE  \E o : RecordedOp(o)
  BY DEF DepositModels
<1> DEFINE manifest == [pin     |-> number,
                        express |-> [source |-> source, validation |-> validation]]
           item == [class    |-> "model",
                    versions |-> [v \in {number} |-> Entry("valid", w)],
                    manifest |-> manifest]
<1>1. manifest \in Manifest \cup {None}
  BY DEF Manifest, Express
<1>2. Record(mem, RegisterItemOp(id, item))
  BY DEF DepositModel
<1>3. IsItem(item)
  <2> HIDE DEF manifest
  <2> QED
    BY <1>1, FirstItemType
<1> HIDE DEF item
<1>4. IsOp(RegisterItemOp(id, item))
  BY <1>3 DEF IsOp, RegisterItemOp
<1> QED
  BY <1>2, <1>4 DEF RecordedOp, RegisterItemOp

LEMMA SupersedeItemsRecorded ==
    ASSUME IsStore(mem), SupersedeItems
    PROVE  \E o : RecordedOp(o)
<1> SUFFICES ASSUME NEW id \in DOMAIN mem.items, NEW number \in Version, NEW w \in Window,
                    NEW target \in DOMAIN mem.items[id].versions,
                    NEW manifest \in NextManifests(mem.items[id], number),
                    SupersedeItem(id, target, number, w, manifest)
             PROVE  \E o : RecordedOp(o)
  BY DEF SupersedeItems
<1> DEFINE successor == Entry("valid", w)
           o == SupersedeVersionOp(id, target, number, successor, manifest)
<1>1. DOMAIN mem.items[id].versions \subseteq Version
  BY DEF IsStore, IsItem, IsHistory
<1>2. manifest \in Manifest \cup {None}
  BY <1>1 DEF NextManifests, Manifest
<1>3. successor \in EntryOf(ItemStatus)
  BY EntryType DEF ItemStatus
<1>4. Record(mem, o)
  BY DEF SupersedeItem
<1> HIDE DEF successor
<1>5. IsOp(o)
  BY <1>1, <1>2, <1>3 DEF IsOp, SupersedeVersionOp
<1> QED
  BY <1>4, <1>5 DEF RecordedOp, SupersedeVersionOp

LEMMA BindApplicabilitiesRecorded ==
    ASSUME IsStore(mem), BindApplicabilities
    PROVE  \E o : RecordedOp(o)
<1> SUFFICES ASSUME NEW subject \in Subject, NEW profile \in Identifier,
                    NEW pin \in Version \cup {None}, NEW terms \in Terms,
                    BindApplicability(subject, profile, pin, terms)
             PROVE  \E o : RecordedOp(o)
  BY DEF BindApplicabilities
<1> DEFINE binding == [id |-> mem.nextBindingId, subject |-> subject,
                       profile |-> profile, pin |-> pin, terms |-> terms]
           o == BindApplicabilityOp(binding)
<1>1. binding \in Binding /\ binding.id = mem.nextBindingId
  BY DEF Binding, IsStore
<1>2. Record([mem EXCEPT !.nextBindingId = @ + 1], o)
  BY DEF BindApplicability
<1> HIDE DEF binding
<1>3. Record(mem, o)
  BY <1>1, <1>2, BindAdvancesOnce DEF Record
<1>4. IsOp(o) /\ o.binding = binding
  BY <1>1 DEF IsOp, BindApplicabilityOp
<1> HIDE DEF o
<1> QED
  BY <1>1, <1>3, <1>4 DEF RecordedOp

LEMMA CreateServicesRecorded ==
    ASSUME IsStore(mem), CreateServices
    PROVE  \E o : RecordedOp(o)
<1> SUFFICES ASSUME NEW id \in ServiceId, NEW number \in Version, NEW w \in Window,
                    NEW status \in ServiceStatus, CreateService(id, number, w, status)
             PROVE  \E o : RecordedOp(o)
  BY DEF CreateServices
<1> DEFINE versions == [v \in {number} |-> Entry(status, w)]
<1>1. IsHistory(versions, ServiceStatus)
  BY EntryType, FirstHistoryType
<1>2. Record(mem, RegisterServiceOp(id, versions))
  BY DEF CreateService
<1> HIDE DEF versions
<1>3. IsOp(RegisterServiceOp(id, versions))
  BY <1>1 DEF IsOp, RegisterServiceOp
<1> QED
  BY <1>2, <1>3 DEF RecordedOp, RegisterServiceOp

LEMMA SupersedeServicesRecorded ==
    ASSUME IsStore(mem), SupersedeServices
    PROVE  \E o : RecordedOp(o)
<1> SUFFICES ASSUME NEW id \in ServiceId, NEW target \in Version, NEW number \in Version,
                    NEW w \in Window, NEW status \in ServiceStatus,
                    SupersedeService(id, target, number, w, status)
             PROVE  \E o : RecordedOp(o)
  BY DEF SupersedeServices
<1> DEFINE successor == Entry(status, w)
           o == SupersedeServiceOp(id, target, number, successor)
<1>1. successor \in EntryOf(ServiceStatus)
  BY EntryType
<1>2. Record(mem, o)
  BY DEF SupersedeService
<1> HIDE DEF successor
<1>3. IsOp(o)
  BY <1>1 DEF IsOp, SupersedeServiceOp
<1> QED
  BY <1>2, <1>3 DEF RecordedOp, SupersedeServiceOp

LEMMA RegisterDescriptorsRecorded ==
    ASSUME IsStore(mem), RegisterDescriptors
    PROVE  \E o : RecordedOp(o)
<1> SUFFICES ASSUME NEW id \in DescriptorId,
                    CreateProtocolBinding(id) \/ CreateVerificationMechanism(id)
             PROVE  \E o : RecordedOp(o)
  BY DEF RegisterDescriptors
<1>1. /\ IsOp(RegisterProtocolBindingOp(id))
      /\ IsOp(RegisterVerificationMechanismOp(id))
  BY DEF IsOp, RegisterProtocolBindingOp, RegisterVerificationMechanismOp
<1>2. \/ Record(mem, RegisterProtocolBindingOp(id))
      \/ Record(mem, RegisterVerificationMechanismOp(id))
  BY DEF CreateProtocolBinding, CreateVerificationMechanism
<1> QED
  BY <1>1, <1>2 DEF RecordedOp, RegisterProtocolBindingOp, RegisterVerificationMechanismOp

LEMMA UpdateModelValidationsRecorded ==
    ASSUME IsStore(mem), UpdateModelValidations
    PROVE  \E o : RecordedOp(o)
<1> SUFFICES ASSUME NEW id \in Identifier, NEW version \in Version,
                    NEW validation \in ValidationStatus,
                    UpdateModelValidation(id, version, validation)
             PROVE  \E o : RecordedOp(o)
  BY DEF UpdateModelValidations
<1>1. IsOp(UpdateModelValidationOp(id, version, validation))
  BY DEF IsOp, UpdateModelValidationOp
<1>2. Record(mem, UpdateModelValidationOp(id, version, validation))
  BY DEF UpdateModelValidation
<1> QED
  BY <1>1, <1>2 DEF RecordedOp, UpdateModelValidationOp

(* Every step of the store. *)
LEMMA OperationStep ==
    ASSUME IsStore(mem), Next
    PROVE  \E o : RecordedOp(o)
BY CreateItemsRecorded, DepositModelsRecorded, SupersedeItemsRecorded,
   BindApplicabilitiesRecorded, CreateServicesRecorded, SupersedeServicesRecorded,
   RegisterDescriptorsRecorded, UpdateModelValidationsRecorded DEF Next

LEMMA InitType == Init => TypeOK
<1> SUFFICES ASSUME Init
             PROVE  IsStore(EmptyStore) /\ IsLog(<< >>)
  BY DEF Init, TypeOK
<1>1. IsStore(EmptyStore)
  <2> DEFINE none == << >>
  <2>1. DOMAIN none = {} /\ none \in Seq(Binding)
    BY EmptySeq
  <2> DEFINE nothing == {}
  <2>2. nothing \subseteq DescriptorId /\ 1 \in Nat \ {0}
    OBVIOUS
  <2>3. /\ DOMAIN none \subseteq Identifier /\ DOMAIN none \subseteq ServiceId
        /\ \A id \in DOMAIN none : IsItem(none[id]) /\ IsHistory(none[id], ServiceStatus)
    BY <2>1
  <2> HIDE DEF none, nothing
  <2>4. IsStore([items |-> none, bindings |-> none, services |-> none,
                 protocols |-> nothing, mechanisms |-> nothing, nextBindingId |-> 1])
    BY <2>1, <2>2, <2>3, StoreIntro
  <2> QED
    BY <2>4 DEF EmptyStore, none, nothing
<1>2. IsLog(<< >>)
  BY EmptySeq DEF IsLog
<1> QED
  BY <1>1, <1>2

LEMMA TypeInductive == TypeOK /\ [Next]_vars => TypeOK'
<1> SUFFICES ASSUME TypeOK, [Next]_vars
             PROVE  TypeOK'
  OBVIOUS
<1>1. CASE UNCHANGED vars
  BY <1>1 DEF vars, TypeOK, IsStore, IsLog
<1>2. CASE Next
  BY <1>2, OperationStep, RecordType DEF TypeOK
<1> QED
  BY <1>1, <1>2

(* The type invariant: whatever requests the registry answers, for all      *)
(* identifiers, versions and windows, every record of the log is a whole    *)
(* operation at its position and the store it left behind is well-formed.   *)
THEOREM TypeCorrect == Spec => []TypeOK
BY InitType, TypeInductive, PTL DEF Spec

-----------------------------------------------------------------------------
(* What each operation does to the items, bindings and counter of a store.  *)

LEMMA RegisterItemEffect ==
    ASSUME NEW st, IsStore(st), NEW id, NEW item
    PROVE  LET new == Apply(st, RegisterItemOp(id, item))
           IN  /\ new.items = With(st.items, id, item)
               /\ new.bindings = st.bindings
               /\ new.nextBindingId = st.nextBindingId
<1> DEFINE items == With(st.items, id, item)
           new == Apply(st, RegisterItemOp(id, item))
<1>1. new = [st EXCEPT !.items = items]
  BY DEF Apply, RegisterItemOp, ApplyRegisterItem
<1> HIDE DEF items, new
<1>2. new.items = items /\ new.bindings = st.bindings /\ new.nextBindingId = st.nextBindingId
  BY <1>1 DEF IsStore
<1> QED
  BY <1>2 DEF items, new

LEMMA SupersedeVersionEffect ==
    ASSUME NEW st, IsStore(st), NEW id \in DOMAIN st.items, NEW target, NEW number,
           NEW successor, NEW manifest
    PROVE  LET new == Apply(st, SupersedeVersionOp(id, target, number, successor, manifest))
               old == st.items[id].versions
           IN  /\ DOMAIN new.items = DOMAIN st.items
               /\ new.items[id].versions = Superseded(old, target, number, successor)
               /\ \A k \in DOMAIN st.items \ {id} : new.items[k] = st.items[k]
               /\ new.bindings = st.bindings
               /\ new.nextBindingId = st.nextBindingId
<1> DEFINE new == Apply(st, SupersedeVersionOp(id, target, number, successor, manifest))
           old == st.items[id]
           versions == Superseded(old.versions, target, number, successor)
           item == [class    |-> old.class,
                    versions |-> versions,
                    manifest |-> IF manifest = None THEN old.manifest ELSE manifest]
           items == [st.items EXCEPT ![id] = item]
<1>1. new = [st EXCEPT !.items = items]
  BY DEF Apply, SupersedeVersionOp, ApplySupersedeVersion
<1>2. item.versions = versions
  OBVIOUS
<1> HIDE DEF versions, item
<1>3. /\ DOMAIN items = DOMAIN st.items
      /\ items[id].versions = versions
      /\ \A k \in DOMAIN st.items \ {id} : items[k] = st.items[k]
  BY <1>2
<1> HIDE DEF items, new
<1>4. new.items = items /\ new.bindings = st.bindings /\ new.nextBindingId = st.nextBindingId
  BY <1>1 DEF IsStore
<1> QED
  BY <1>3, <1>4 DEF new, versions

LEMMA BindApplicabilityEffect ==
    ASSUME NEW st, IsStore(st), NEW binding
    PROVE  LET new == Apply(st, BindApplicabilityOp(binding))
           IN  /\ new.items = st.items
               /\ new.bindings = Append(st.bindings, binding)
               /\ new.nextBindingId = IF binding.id >= st.nextBindingId
                                      THEN binding.id + 1 ELSE st.nextBindingId
<1> DEFINE new == Apply(st, BindApplicabilityOp(binding))
           bindings == Append(st.bindings, binding)
           next == IF binding.id >= st.nextBindingId THEN binding.id + 1
                   ELSE st.nextBindingId
<1>1. new = [st EXCEPT !.bindings = bindings, !.nextBindingId = next]
  BY DEF Apply, BindApplicabilityOp, ApplyBindApplicability
<1> HIDE DEF new, bindings, next
<1>2. new.items = st.items /\ new.bindings = bindings /\ new.nextBindingId = next
  BY <1>1 DEF IsStore
<1> QED
  BY <1>2 DEF new, bindings, next

LEMMA UpdateModelValidationEffect ==
    ASSUME NEW st, IsStore(st), NEW id, NEW version, NEW validation \in ValidationStatus
    PROVE  LET new == Apply(st, UpdateModelValidationOp(id, version, validation))
           IN  /\ DOMAIN new.items = DOMAIN st.items
               /\ \A k \in DOMAIN st.items : new.items[k].versions = st.items[k].versions
               /\ new.bindings = st.bindings
               /\ new.nextBindingId = st.nextBindingId
<1> DEFINE new == Apply(st, UpdateModelValidationOp(id, version, validation))
           old == st.items[id]
           item == [old EXCEPT !.manifest.express.validation = validation]
           items == [st.items EXCEPT ![id] = item]
<1>1. CASE new = st
  BY <1>1
<1>2. CASE id \in DOMAIN st.items /\ new = [st EXCEPT !.items = items]
  <2>1. item.versions = old.versions
    BY <1>2 DEF IsStore, IsItem
  <2> HIDE DEF item
  <2>2. /\ DOMAIN items = DOMAIN st.items
        /\ \A k \in DOMAIN st.items : items[k].versions = st.items[k].versions
    BY <2>1
  <2> HIDE DEF items, new
  <2>3. new.items = items /\ new.bindings = st.bindings /\ new.nextBindingId = st.nextBindingId
    BY <1>2 DEF IsStore
  <2> QED
    BY <2>2, <2>3 DEF new
<1>3. new = st \/ (id \in DOMAIN st.items /\ new = [st EXCEPT !.items = items])
  BY DEF Apply, UpdateModelValidationOp, ApplyUpdateModelValidation
<1> QED
  BY <1>1, <1>2, <1>3

(* The services and the descriptors are no part of an item or a binding.    *)
LEMMA OtherEffects ==
    ASSUME NEW st, IsStore(st), NEW o, IsOp(o),
           o.op \in {"register-service", "supersede-service", "register-protocol-binding",
                     "register-verification-mechanism"}
    PROVE  LET new == Apply(st, o)
           IN  /\ new.items = st.items
               /\ new.bindings = st.bindings
               /\ new.nextBindingId = st.nextBindingId
<1> DEFINE new == Apply(st, o)
<1>1. CASE new = st
  BY <1>1
<1>2. ASSUME NEW x, new = [st EXCEPT !.services = x]
      PROVE  new.items = st.items /\ new.bindings = st.bindings
                 /\ new.nextBindingId = st.nextBindingId
  BY <1>2 DEF IsStore
<1>3. ASSUME NEW x, new = [st EXCEPT !.protocols = x] \/ new = [st EXCEPT !.mechanisms = x]
      PROVE  new.items = st.items /\ new.bindings = st.bindings
                 /\ new.nextBindingId = st.nextBindingId
  BY <1>3 DEF IsStore
<1>4. CASE o.op = "register-service"
  <2>1. new = [st EXCEPT !.services = With(st.services, o.identifier, o.versions)]
    BY <1>4 DEF Apply, ApplyRegisterService
  <2> HIDE DEF new
  <2> QED
    BY <1>2, <2>1 DEF new
<1>5. CASE o.op = "supersede-service"
  <2> DEFINE services == [st.services EXCEPT ![o.identifier] =
                 Superseded(st.services[o.identifier], o.superseded, o.number, o.successor)]
  <2>1. new = st \/ new = [st EXCEPT !.services = services]
    BY <1>5 DEF Apply, ApplySupersedeService
  <2> HIDE DEF new, services
  <2> QED
    BY <1>1, <1>2, <2>1 DEF new
<1>6. CASE o.op = "register-protocol-binding"
  <2>1. new = [st EXCEPT !.protocols = st.protocols \cup {o.identifier}]
    BY <1>6 DEF Apply
  <2> HIDE DEF new
  <2> QED
    BY <1>3, <2>1 DEF new
<1>7. CASE o.op = "register-verification-mechanism"
  <2>1. new = [st EXCEPT !.mechanisms = st.mechanisms \cup {o.identifier}]
    BY <1>7 DEF Apply
  <2> HIDE DEF new
  <2> QED
    BY <1>3, <2>1 DEF new
<1> QED
  BY <1>4, <1>5, <1>6, <1>7

-----------------------------------------------------------------------------
(* The actions, as the operations they record.                              *)

LEMMA RegistrationStep ==
    ASSUME CreateItems \/ DepositModels
    PROVE  \E id \in Identifier, number \in Version, w \in Window :
             \E class, manifest :
               /\ id \notin DOMAIN mem.items
               /\ mem' = Apply(mem, RegisterItemOp(id,
                             [class    |-> class,
                              versions |-> [v \in {number} |-> Entry("valid", w)],
                              manifest |-> manifest]))
<1>1. CASE CreateItems
  BY <1>1 DEF CreateItems, CreateItem, Record, CanRegisterItem
<1>2. CASE DepositModels
  BY <1>2 DEF DepositModels, DepositModel, Record, CanRegisterItem
<1> QED
  BY <1>1, <1>2

LEMMA SupersessionStep ==
    ASSUME SupersedeItems
    PROVE  \E id \in DOMAIN mem.items, number \in Version, w \in Window :
              \E target \in DOMAIN mem.items[id].versions,
                 manifest \in NextManifests(mem.items[id], number) :
                  /\ CanSupersede(mem, id, target, number, Entry("valid", w))
                  /\ mem' = Apply(mem, SupersedeVersionOp(id, target, number,
                                          Entry("valid", w), manifest))
BY DEF SupersedeItems, SupersedeItem, Record

LEMMA BindingStep ==
    ASSUME BindApplicabilities
    PROVE  \E subject \in Subject, profile \in Identifier, pin \in Version \cup {None},
              terms \in Terms :
                  mem' = Apply([mem EXCEPT !.nextBindingId = @ + 1],
                               BindApplicabilityOp([id |-> mem.nextBindingId,
                                   subject |-> subject, profile |-> profile,
                                   pin |-> pin, terms |-> terms]))
BY DEF BindApplicabilities, BindApplicability, Record

LEMMA ValidationStep ==
    ASSUME UpdateModelValidations
    PROVE  \E id \in Identifier, version \in Version, validation \in ValidationStatus :
               mem' = Apply(mem, UpdateModelValidationOp(id, version, validation))
BY DEF UpdateModelValidations, UpdateModelValidation, Record

LEMMA OtherStep ==
    ASSUME TypeOK, CreateServices \/ SupersedeServices \/ RegisterDescriptors
    PROVE  /\ mem'.items = mem.items
           /\ mem'.bindings = mem.bindings
           /\ mem'.nextBindingId = mem.nextBindingId
<1>1. CASE CreateServices
  <2>1. PICK id \in ServiceId, number \in Version, w \in Window, status \in ServiceStatus :
            CreateService(id, number, w, status)
    BY <1>1 DEF CreateServices
  <2> DEFINE o == RegisterServiceOp(id, [v \in {number} |-> Entry(status, w)])
  <2>2. IsOp(o) /\ o.op = "register-service"
    BY EntryType, FirstHistoryType DEF IsOp, RegisterServiceOp
  <2>3. mem' = Apply(mem, o)
    BY <2>1 DEF CreateService, Record
  <2> HIDE DEF o
  <2> QED
    BY <2>2, <2>3, OtherEffects DEF TypeOK
<1>2. CASE SupersedeServices
  <2>1. PICK id \in ServiceId, target \in Version, number \in Version, w \in Window,
             status \in ServiceStatus : SupersedeService(id, target, number, w, status)
    BY <1>2 DEF SupersedeServices
  <2> DEFINE o == SupersedeServiceOp(id, target, number, Entry(status, w))
  <2>2. IsOp(o) /\ o.op = "supersede-service"
    BY EntryType DEF IsOp, SupersedeServiceOp
  <2>3. mem' = Apply(mem, o)
    BY <2>1 DEF SupersedeService, Record
  <2> HIDE DEF o
  <2> QED
    BY <2>2, <2>3, OtherEffects DEF TypeOK
<1>3. CASE RegisterDescriptors
  <2>1. PICK id \in DescriptorId : \/ CreateProtocolBinding(id)
                                   \/ CreateVerificationMechanism(id)
    BY <1>3 DEF RegisterDescriptors
  <2>2. PICK o : /\ IsOp(o)
                 /\ o.op \in {"register-protocol-binding",
                              "register-verification-mechanism"}
                 /\ mem' = Apply(mem, o)
    BY <2>1 DEF CreateProtocolBinding, CreateVerificationMechanism, Record, IsOp,
                RegisterProtocolBindingOp, RegisterVerificationMechanismOp
  <2> QED
    BY <2>2, OtherEffects DEF TypeOK
<1> QED
  BY <1>1, <1>2, <1>3

-----------------------------------------------------------------------------
(* Binding ids.                                                            *)

(* No operation but a binding touches the bindings or their counter.        *)
LEMMA BindingsFrame ==
    ASSUME TypeOK, Next, ~BindApplicabilities
    PROVE  mem'.bindings = mem.bindings /\ mem'.nextBindingId = mem.nextBindingId
<1>1. CASE CreateItems \/ DepositModels
  <2>1. PICK id, item : mem' = Apply(mem, RegisterItemOp(id, item))
    BY <1>1, RegistrationStep
  <2> QED
    BY <2>1, RegisterItemEffect DEF TypeOK
<1>2. CASE SupersedeItems
  <2>1. PICK id \in DOMAIN mem.items, number \in Version, w \in Window :
            \E target, manifest : mem' = Apply(mem, SupersedeVersionOp(id, target, number,
                                                       Entry("valid", w), manifest))
    BY <1>2, SupersessionStep
  <2> QED
    BY <2>1, SupersedeVersionEffect DEF TypeOK
<1>3. CASE UpdateModelValidations
  <2>1. PICK id \in Identifier, version \in Version, validation \in ValidationStatus :
            mem' = Apply(mem, UpdateModelValidationOp(id, version, validation))
    BY <1>3, ValidationStep
  <2> QED
    BY <2>1, UpdateModelValidationEffect DEF TypeOK
<1>4. CASE CreateServices \/ SupersedeServices \/ RegisterDescriptors
  BY <1>4, OtherStep
<1> QED
  BY <1>1, <1>2, <1>3, <1>4 DEF Next

(* A binding takes the id the counter shows, and moves the counter past it. *)
LEMMA BindEffect ==
    ASSUME TypeOK, BindApplicabilities
    PROVE  \E b : /\ b.id = mem.nextBindingId
                  /\ mem'.items = mem.items
                  /\ mem'.bindings = Append(mem.bindings, b)
                  /\ mem'.nextBindingId = mem.nextBindingId + 1
<1>1. PICK subject, profile, pin, terms :
          mem' = Apply([mem EXCEPT !.nextBindingId = @ + 1],
                       BindApplicabilityOp([id |-> mem.nextBindingId, subject |-> subject,
                           profile |-> profile, pin |-> pin, terms |-> terms]))
  BY BindingStep
<1> DEFINE next == mem.nextBindingId + 1
           st == [mem EXCEPT !.nextBindingId = next]
           b == [id |-> mem.nextBindingId, subject |-> subject,
                 profile |-> profile, pin |-> pin, terms |-> terms]
<1>2. mem.nextBindingId \in Nat \ {0} /\ next \in Nat \ {0} /\ IsStore(mem)
  BY DEF TypeOK, IsStore
<1>3. b.id = mem.nextBindingId
  OBVIOUS
<1>4. mem' = Apply(st, BindApplicabilityOp(b))
  BY <1>1
<1>5. IsStore(st)
  <2> HIDE DEF next
  <2> QED
    BY <1>2, CounterUpdate
<1>6. /\ st.items = mem.items /\ st.bindings = mem.bindings
      /\ st.nextBindingId = mem.nextBindingId + 1
  BY <1>2 DEF IsStore
<1> HIDE DEF st, b
<1>7. /\ mem'.items = mem.items
      /\ mem'.bindings = Append(mem.bindings, b)
      /\ mem'.nextBindingId = mem.nextBindingId + 1
  BY <1>2, <1>3, <1>4, <1>5, <1>6, BindApplicabilityEffect
<1> QED
  BY <1>3, <1>7

(* The same of any record, applied to any store.                            *)
LEMMA ApplyKeepsBindings ==
    ASSUME NEW st, IsStore(st), NEW o, IsOp(o), o.op # "bind-applicability"
    PROVE  LET new == Apply(st, o)
           IN  new.bindings = st.bindings /\ new.nextBindingId = st.nextBindingId
<1>1. CASE o = RegisterItemOp(o.identifier, o.item)
  BY <1>1, RegisterItemEffect
<1>2. CASE /\ o.op = "supersede-version"
           /\ o = SupersedeVersionOp(o.identifier, o.superseded, o.number, o.successor,
                                     o.manifest)
  <2>1. CASE o.identifier \in DOMAIN st.items
    BY <1>2, <2>1, SupersedeVersionEffect
  <2>2. CASE o.identifier \notin DOMAIN st.items
    BY <1>2, <2>2 DEF Apply, ApplySupersedeVersion
  <2> QED
    BY <2>1, <2>2
<1>3. CASE /\ o = UpdateModelValidationOp(o.identifier, o.version, o.validation)
           /\ o.validation \in ValidationStatus
  BY <1>3, UpdateModelValidationEffect
<1>4. CASE o.op \in {"register-service", "supersede-service", "register-protocol-binding",
                     "register-verification-mechanism"}
  BY <1>4, OtherEffects
<1> QED
  BY <1>1, <1>2, <1>3, <1>4 DEF IsOp

(* A record of a binding whose id is not below the counter keeps the ids    *)
(* distinct and moves the counter past it; any other record leaves both.    *)
LEMMA FreshAppend ==
    ASSUME NEW bindings \in Seq(Binding), NEW n \in Nat, NEW b \in Binding, b.id >= n,
           \A i, j \in DOMAIN bindings : bindings[i].id = bindings[j].id => i = j,
           \A i \in DOMAIN bindings : bindings[i].id < n
    PROVE  LET more == Append(bindings, b)
           IN  /\ \A i, j \in DOMAIN more : more[i].id = more[j].id => i = j
               /\ \A i \in DOMAIN more : more[i].id < b.id + 1
<1> DEFINE m == Len(bindings)
           more == Append(bindings, b)
<1>1. /\ m \in Nat /\ DOMAIN bindings = 1 .. m
      /\ \A i \in 1 .. m : bindings[i].id \in Nat
      /\ b.id \in Nat
  <2>1. m \in Nat /\ bindings \in [1 .. m -> Binding]
    BY LenProperties
  <2> QED
    BY <2>1 DEF Binding
<1>2. /\ DOMAIN more = 1 .. (m + 1)
      /\ \A i \in 1 .. m : more[i] = bindings[i]
      /\ more[m + 1] = b
  BY <1>1, AppendProperties
<1> HIDE DEF m, more
<1>3. ASSUME NEW i \in 1 .. (m + 1)
      PROVE  more[i].id < b.id + 1 /\ (more[i].id = b.id => i = m + 1)
  <2>1. CASE i = m + 1
    BY <1>1, <1>2, <2>1
  <2>2. CASE i \in 1 .. m
    <3>1. bindings[i].id < n
      BY <1>1, <2>2
    <3> QED
      BY <1>1, <1>2, <2>2, <3>1
  <2> QED
    BY <1>1, <2>1, <2>2
<1>4. ASSUME NEW i \in 1 .. (m + 1), NEW j \in 1 .. (m + 1), more[i].id = more[j].id
      PROVE  i = j
  <2>1. CASE i = m + 1 \/ j = m + 1
    BY <1>2, <1>3, <1>4, <2>1
  <2>2. CASE i \in 1 .. m /\ j \in 1 .. m
    BY <1>1, <1>2, <1>4, <2>2
  <2> QED
    BY <1>1, <2>1, <2>2
<1> QED
  BY <1>2, <1>3, <1>4 DEF more

LEMMA ApplyKeepsIdsFresh ==
    ASSUME NEW st, IsStore(st), BindingIdsFresh(st), NEW o, IsOp(o),
           o.op = "bind-applicability" => o.binding.id >= st.nextBindingId
    PROVE  LET new == Apply(st, o)
           IN  /\ BindingIdsFresh(new)
               /\ IF o.op = "bind-applicability" THEN new.nextBindingId = o.binding.id + 1
                  ELSE new.nextBindingId = st.nextBindingId
<1> DEFINE new == Apply(st, o)
<1>1. CASE o.op # "bind-applicability"
  <2>1. new.bindings = st.bindings /\ new.nextBindingId = st.nextBindingId
    BY <1>1, ApplyKeepsBindings
  <2> HIDE DEF new
  <2> QED
    BY <1>1, <2>1 DEF BindingIdsFresh, new
<1>2. CASE o.op = "bind-applicability"
  <2>1. o = BindApplicabilityOp(o.binding) /\ o.binding \in Binding
    BY <1>2 DEF IsOp, RegisterItemOp, SupersedeVersionOp, RegisterServiceOp,
                SupersedeServiceOp, UpdateModelValidationOp
  <2>2. st.bindings \in Seq(Binding) /\ st.nextBindingId \in Nat
    BY DEF IsStore
  <2>3. /\ new.bindings = Append(st.bindings, o.binding)
        /\ new.nextBindingId = o.binding.id + 1
    BY <1>2, <2>1, BindApplicabilityEffect
  <2> DEFINE more == Append(st.bindings, o.binding)
  <2>4. /\ \A i, j \in DOMAIN more : more[i].id = more[j].id => i = j
        /\ \A i \in DOMAIN more : more[i].id < o.binding.id + 1
    <3>1. /\ \A i, j \in DOMAIN st.bindings :
                 st.bindings[i].id = st.bindings[j].id => i = j
          /\ \A i \in DOMAIN st.bindings : st.bindings[i].id < st.nextBindingId
      BY DEF BindingIdsFresh
    <3> QED
      BY <1>2, <2>1, <2>2, <3>1, FreshAppend
  <2> HIDE DEF new, more
  <2>5. BindingIdsFresh(new)
    BY <2>3, <2>4 DEF BindingIdsFresh, more
  <2> QED
    BY <1>2, <2>3, <2>5 DEF new
<1> QED
  BY <1>1, <1>2

(* No two bindings share an id, whatever requests the registry answers, and *)
(* the counter is past every id it gave: the id bind hands out next is new  *)
(* (Store::bind, and the counter apply maintains).                          *)
THEOREM BindingIds == Spec => []BindingIdsUnique
<1>1. Init => BindingIdsUnique
  BY DEF Init, EmptyStore, BindingIdsUnique, BindingIdsFresh
<1>2. TypeOK /\ BindingIdsUnique /\ [Next]_vars => BindingIdsUnique'
  <2> SUFFICES ASSUME TypeOK, BindingIdsFresh(mem), [Next]_vars
               PROVE  BindingIdsFresh(mem')
    BY DEF BindingIdsUnique
  <2>1. CASE UNCHANGED vars
    BY <2>1 DEF vars
  <2>2. CASE Next
    <3>1. PICK o : RecordedOp(o)
      BY <2>2, OperationStep DEF TypeOK
    <3>2. o.op = "bind-applicability" => o.binding.id >= mem.nextBindingId
      BY <3>1 DEF RecordedOp, TypeOK, IsStore
    <3> QED
      BY <3>1, <3>2, ApplyKeepsIdsFresh DEF RecordedOp, Record, TypeOK
  <2> QED
    BY <2>1, <2>2
<1> QED
  BY <1>1, <1>2, TypeCorrect, PTL DEF Spec

-----------------------------------------------------------------------------
(* Linear histories.                                                        *)

(* The history of one valid version without a link is linear.               *)
LEMMA FirstHistoryLinear ==
    ASSUME NEW number \in Version, NEW w \in Window
    PROVE  LinearHistory([v \in {number} |-> Entry("valid", w)], "valid")
<1> DEFINE vs == [v \in {number} |-> Entry("valid", w)]
<1>1. /\ DOMAIN vs = {number}
      /\ vs[number].status = "valid" /\ vs[number].next = None
  BY DEF Entry
<1> HIDE DEF vs
<1>2. LinearHistory(vs, "valid")
  BY <1>1 DEF LinearHistory, OneServing, Serving, ServingIsUnlinked, LinksForward,
              LinksInjective
<1> QED
  BY <1>2 DEF vs

(* Superseding the serving version of a linear history by a fresh, no       *)
(* earlier one leaves the history linear.                                   *)
LEMMA SupersededLinear ==
    ASSUME NEW vs, IsHistory(vs, ItemStatus), LinearHistory(vs, "valid"),
           NEW number \in Version, number \notin DOMAIN vs,
           NEW target \in DOMAIN vs, vs[target].status = "valid",
           NEW e, e.status = "valid", e.next = None, e.from \in Nat,
           e.from >= vs[target].from
    PROVE  LinearHistory(Superseded(vs, target, number, e), "valid")
<1> DEFINE new == Superseded(vs, target, number, e)
<1>1. /\ DOMAIN new = DOMAIN vs \cup {number}
      /\ new[number] = e
      /\ new[target].status = "superseded" /\ new[target].next = number
      /\ new[target].from = vs[target].from
      /\ \A v \in DOMAIN vs \ {target} : new[v] = vs[v]
  BY DEF Superseded, Linked
<1>2. number # None /\ target # number
  BY NoneAssumption, VersionAssumption
<1>3. Serving(vs, "valid") = {target}
  BY DEF LinearHistory, OneServing, Serving
<1>4. /\ vs[target].next = None
      /\ \A v \in DOMAIN vs \ {target} : vs[v].status # "valid" /\ vs[v].next # None
  BY <1>3 DEF LinearHistory, ServingIsUnlinked, Serving
<1>5. \A v \in DOMAIN vs \ {target} : /\ vs[v].next \in DOMAIN vs \ {v}
                                      /\ vs[v].from <= vs[vs[v].next].from
  BY <1>4 DEF LinearHistory, LinksForward
<1> HIDE DEF new
<1>6. OneServing(new, "valid")
  <2>1. Serving(new, "valid") = {number}
    BY <1>1, <1>4 DEF Serving
  <2> QED
    BY <1>1, <2>1 DEF OneServing
<1>7. ServingIsUnlinked(new, "valid")
  BY <1>1, <1>2, <1>4 DEF ServingIsUnlinked
<1>8. LinksForward(new)
  <2> SUFFICES ASSUME NEW v \in DOMAIN new, new[v].next # None
               PROVE  /\ new[v].next \in DOMAIN new \ {v}
                      /\ new[v].from <= new[new[v].next].from
    BY DEF LinksForward
  <2>1. v # number
    BY <1>1
  <2>2. CASE v = target
    <3>1. vs[target].from \in Nat
      BY DEF IsHistory, EntryOf
    <3> QED
      BY <1>1, <1>2, <2>2, <3>1
  <2>3. CASE v # target
    <3>1. v \in DOMAIN vs \ {target}
      BY <1>1, <2>1, <2>3
    <3>2. new[v] = vs[v] /\ vs[v].next \in DOMAIN vs
      BY <1>1, <1>5, <3>1
    <3>3. new[vs[v].next].from = vs[vs[v].next].from
      BY <1>1, <3>2
    <3> QED
      BY <1>1, <1>5, <3>1, <3>2, <3>3
  <2> QED
    BY <2>2, <2>3
<1>9. LinksInjective(new)
  <2> SUFFICES ASSUME NEW v \in DOMAIN new, NEW u \in DOMAIN new,
                      new[v].next # None, new[v].next = new[u].next
               PROVE  v = u
    BY DEF LinksInjective
  <2>1. v # number /\ u # number
    BY <1>1
  <2>2. CASE v # target /\ u # target
    <3>1. vs[v].next # None /\ vs[v].next = vs[u].next
      BY <1>1, <2>1, <2>2
    <3> QED
      BY <1>1, <2>1, <3>1 DEF LinearHistory, LinksInjective
  <2>3. \A x \in DOMAIN new \ {number, target} : new[x].next \in DOMAIN vs
    BY <1>1, <1>5
  <2>4. CASE v = target \/ u = target
    BY <1>1, <2>1, <2>3, <2>4
  <2> QED
    BY <2>2, <2>4
<1> QED
  BY <1>6, <1>7, <1>8, <1>9 DEF LinearHistory, new

(* An accepted supersession is of the serving version.                      *)
LEMMA SupersedeKeepsHistoriesLinear ==
    ASSUME TypeOK, ItemHistoriesLinear(mem), SupersedeItems
    PROVE  ItemHistoriesLinear(mem')
<1>1. PICK id \in DOMAIN mem.items, number \in Version, w \in Window :
          \E target \in DOMAIN mem.items[id].versions : \E manifest :
              /\ CanSupersede(mem, id, target, number, Entry("valid", w))
              /\ mem' = Apply(mem, SupersedeVersionOp(id, target, number,
                                                     Entry("valid", w), manifest))
  BY SupersessionStep
<1>2. PICK target \in DOMAIN mem.items[id].versions :
          \E manifest :
              /\ CanSupersede(mem, id, target, number, Entry("valid", w))
              /\ mem' = Apply(mem, SupersedeVersionOp(id, target, number,
                                                     Entry("valid", w), manifest))
  BY <1>1
<1> DEFINE vs == mem.items[id].versions
           e  == Entry("valid", w)
<1>3. /\ DOMAIN mem'.items = DOMAIN mem.items
      /\ mem'.items[id].versions = Superseded(vs, target, number, e)
      /\ \A k \in DOMAIN mem.items \ {id} : mem'.items[k] = mem.items[k]
  BY <1>2, SupersedeVersionEffect DEF TypeOK
<1>4. LinearHistory(Superseded(vs, target, number, e), "valid")
  <2>1. IsHistory(vs, ItemStatus) /\ LinearHistory(vs, "valid")
    BY DEF TypeOK, IsStore, IsItem, ItemHistoriesLinear
  <2>2. /\ number \notin DOMAIN vs
        /\ vs[target].status = "valid"
        /\ e.from >= vs[target].from
    BY <1>2 DEF CanSupersede
  <2>3. e.status = "valid" /\ e.next = None /\ e.from \in Nat
    BY WindowAssumption DEF Entry
  <2> HIDE DEF e, vs
  <2>4. target \in DOMAIN vs
    BY DEF vs
  <2> QED
    BY <2>1, <2>2, <2>3, <2>4, SupersededLinear
<1> QED
  BY <1>3, <1>4 DEF ItemHistoriesLinear

LEMMA RegistrationKeepsHistoriesLinear ==
    ASSUME TypeOK, ItemHistoriesLinear(mem), CreateItems \/ DepositModels
    PROVE  ItemHistoriesLinear(mem')
<1>1. PICK id \in Identifier, number \in Version, w \in Window :
          \E class, manifest :
              mem' = Apply(mem, RegisterItemOp(id,
                         [class    |-> class,
                          versions |-> [v \in {number} |-> Entry("valid", w)],
                          manifest |-> manifest]))
  BY RegistrationStep
<1>2. PICK item : /\ item.versions = [v \in {number} |-> Entry("valid", w)]
                  /\ mem' = Apply(mem, RegisterItemOp(id, item))
  BY <1>1
<1>3. mem'.items = With(mem.items, id, item)
  BY <1>2, RegisterItemEffect DEF TypeOK
<1>4. LinearHistory(item.versions, "valid")
  BY <1>2, FirstHistoryLinear
<1> QED
  BY <1>3, <1>4 DEF ItemHistoriesLinear, With

LEMMA HistoriesInductive == TypeOK /\ HistoriesLinear /\ [Next]_vars => HistoriesLinear'
<1> SUFFICES ASSUME TypeOK, ItemHistoriesLinear(mem), [Next]_vars
             PROVE  ItemHistoriesLinear(mem')
  BY DEF HistoriesLinear
<1>1. CASE CreateItems \/ DepositModels
  BY <1>1, RegistrationKeepsHistoriesLinear
<1>2. CASE SupersedeItems
  BY <1>2, SupersedeKeepsHistoriesLinear
<1>3. CASE UpdateModelValidations
  <2>1. PICK id \in Identifier, version \in Version, validation \in ValidationStatus :
            mem' = Apply(mem, UpdateModelValidationOp(id, version, validation))
    BY <1>3, ValidationStep
  <2>2. /\ DOMAIN mem'.items = DOMAIN mem.items
        /\ \A k \in DOMAIN mem.items : mem'.items[k].versions = mem.items[k].versions
    BY <2>1, UpdateModelValidationEffect DEF TypeOK
  <2> QED
    BY <2>2 DEF ItemHistoriesLinear
<1>4. CASE BindApplicabilities
  BY <1>4, BindEffect DEF ItemHistoriesLinear
<1>5. CASE CreateServices \/ SupersedeServices \/ RegisterDescriptors
  BY <1>5, OtherStep DEF ItemHistoriesLinear
<1>6. CASE UNCHANGED vars
  BY <1>6 DEF vars
<1> QED
  BY <1>1, <1>2, <1>3, <1>4, <1>5, <1>6 DEF Next

(* Every item keeps exactly one valid version at the end of one chain of    *)
(* links that lead forward and never join, whatever requests arrive in      *)
(* whatever order (Store::register_item and Store::supersede).              *)
THEOREM LinearHistories == Spec => []HistoriesLinear
<1>1. Init => HistoriesLinear
  BY DEF Init, EmptyStore, HistoriesLinear, ItemHistoriesLinear
<1> QED
  BY <1>1, HistoriesInductive, TypeCorrect, PTL DEF Spec

-----------------------------------------------------------------------------
(* What the operations do to the item they name, and to the services.       *)

LEMMA SupersededItem ==
    ASSUME NEW st, IsStore(st), NEW id \in DOMAIN st.items, NEW target, NEW number,
           NEW successor, NEW manifest
    PROVE  LET old == st.items[id]
           IN  Apply(st, SupersedeVersionOp(id, target, number, successor, manifest)).items
                   = [st.items EXCEPT ![id] =
                         [class    |-> old.class,
                          versions |-> Superseded(old.versions, target, number, successor),
                          manifest |-> IF manifest = None THEN old.manifest ELSE manifest]]
<1> DEFINE new == Apply(st, SupersedeVersionOp(id, target, number, successor, manifest))
           old == st.items[id]
           items == [st.items EXCEPT ![id] =
                        [class    |-> old.class,
                         versions |-> Superseded(old.versions, target, number, successor),
                         manifest |-> IF manifest = None THEN old.manifest ELSE manifest]]
<1>1. new = [st EXCEPT !.items = items]
  BY DEF Apply, SupersedeVersionOp, ApplySupersedeVersion
<1> HIDE DEF new, items
<1>2. new.items = items
  BY <1>1 DEF IsStore
<1> QED
  BY <1>2 DEF new, items

(* An outcome of a validation changes nothing of an item but the express    *)
(* block of its manifest.                                                  *)
LEMMA ValidatedItems ==
    ASSUME NEW st, IsStore(st), NEW id, NEW version, NEW validation
    PROVE  LET new == Apply(st, UpdateModelValidationOp(id, version, validation)).items
           IN  /\ DOMAIN new = DOMAIN st.items
               /\ \A k \in DOMAIN st.items :
                     /\ new[k].class = st.items[k].class
                     /\ new[k].versions = st.items[k].versions
                     /\ \/ new[k].manifest = st.items[k].manifest
                        \/ /\ st.items[k].manifest # None
                           /\ new[k].manifest.pin = st.items[k].manifest.pin
<1> DEFINE new == Apply(st, UpdateModelValidationOp(id, version, validation))
           old == st.items[id]
           express == [old.manifest.express EXCEPT !.validation = validation]
           manifest == [old.manifest EXCEPT !.express = express]
           item == [old EXCEPT !.manifest = manifest]
           items == [st.items EXCEPT ![id] = item]
<1>1. CASE new = st
  BY <1>1
<1>2. CASE /\ id \in DOMAIN st.items /\ old.manifest # None
           /\ new = [st EXCEPT !.items = items]
  <2>1. IsItem(old) /\ old.manifest \in Manifest
    BY <1>2 DEF IsStore, IsItem
  <2> HIDE DEF express
  <2>2. manifest.pin = old.manifest.pin
    BY <2>1 DEF Manifest
  <2> HIDE DEF manifest
  <2>3. item.class = old.class /\ item.versions = old.versions /\ item.manifest = manifest
    BY <2>1 DEF IsItem
  <2> HIDE DEF item
  <2>4. /\ DOMAIN items = DOMAIN st.items
        /\ items[id] = item
        /\ \A k \in DOMAIN st.items \ {id} : items[k] = st.items[k]
    BY <1>2
  <2> HIDE DEF items, new
  <2>5. new.items = items
    BY <1>2 DEF IsStore
  <2> QED
    BY <1>2, <2>2, <2>3, <2>4, <2>5 DEF new
<1>3. \/ new = st
      \/ /\ id \in DOMAIN st.items /\ old.manifest # None
         /\ new = [st EXCEPT !.items = items]
  BY DEF Apply, UpdateModelValidationOp, ApplyUpdateModelValidation
<1> QED
  BY <1>1, <1>2, <1>3

LEMMA OtherApplyKeepsServices ==
    ASSUME NEW st, IsStore(st), NEW o,
           o.op \in {"register-item", "supersede-version", "bind-applicability",
                     "register-protocol-binding", "register-verification-mechanism",
                     "update-model-validation"}
    PROVE  Apply(st, o).services = st.services
<1> DEFINE new == Apply(st, o)
<1>1. ASSUME NEW x, \/ new = [st EXCEPT !.items = x]
                    \/ new = [st EXCEPT !.protocols = x]
                    \/ new = [st EXCEPT !.mechanisms = x]
      PROVE  new.services = st.services
  BY <1>1 DEF IsStore
<1>2. CASE o.op = "register-item"
  <2>1. new = [st EXCEPT !.items = With(st.items, o.identifier, o.item)]
    BY <1>2 DEF Apply, ApplyRegisterItem
  <2> HIDE DEF new
  <2> QED
    BY <1>1, <2>1 DEF new
<1>3. CASE o.op = "supersede-version"
  <2> DEFINE old == st.items[o.identifier]
             items == [st.items EXCEPT ![o.identifier] =
                [class    |-> old.class,
                 versions |-> Superseded(old.versions, o.superseded, o.number, o.successor),
                 manifest |-> IF o.manifest = None THEN old.manifest ELSE o.manifest]]
  <2>1. new = st \/ new = [st EXCEPT !.items = items]
    BY <1>3 DEF Apply, ApplySupersedeVersion
  <2> HIDE DEF new, items
  <2> QED
    BY <1>1, <2>1 DEF new
<1>4. CASE o.op = "bind-applicability"
  <2> DEFINE bindings == Append(st.bindings, o.binding)
             next == IF o.binding.id >= st.nextBindingId THEN o.binding.id + 1
                     ELSE st.nextBindingId
  <2>1. new = [st EXCEPT !.bindings = bindings, !.nextBindingId = next]
    BY <1>4 DEF Apply, ApplyBindApplicability
  <2> HIDE DEF new, bindings, next
  <2>2. new.services = st.services
    BY <2>1 DEF IsStore
  <2> QED
    BY <2>2 DEF new
<1>5. CASE o.op = "register-protocol-binding"
  <2>1. new = [st EXCEPT !.protocols = st.protocols \cup {o.identifier}]
    BY <1>5 DEF Apply
  <2> HIDE DEF new
  <2> QED
    BY <1>1, <2>1 DEF new
<1>6. CASE o.op = "register-verification-mechanism"
  <2>1. new = [st EXCEPT !.mechanisms = st.mechanisms \cup {o.identifier}]
    BY <1>6 DEF Apply
  <2> HIDE DEF new
  <2> QED
    BY <1>1, <2>1 DEF new
<1>7. CASE o.op = "update-model-validation"
  <2> DEFINE items == [st.items EXCEPT ![o.identifier].manifest.express.validation =
                           o.validation]
  <2>1. new = st \/ new = [st EXCEPT !.items = items]
    BY <1>7 DEF Apply, ApplyUpdateModelValidation
  <2> HIDE DEF new, items
  <2> QED
    BY <1>1, <2>1 DEF new
<1> QED
  BY <1>2, <1>3, <1>4, <1>5, <1>6, <1>7

LEMMA ServicesFrame ==
    ASSUME TypeOK, Next, ~CreateServices, ~SupersedeServices
    PROVE  mem'.services = mem.services
<1>1. CASE CreateItems \/ DepositModels
  <2>1. PICK id, item : mem' = Apply(mem, RegisterItemOp(id, item))
    BY <1>1, RegistrationStep
  <2>2. RegisterItemOp(id, item).op = "register-item"
    BY DEF RegisterItemOp
  <2> QED
    BY <2>1, <2>2, OtherApplyKeepsServices DEF TypeOK
<1>2. CASE SupersedeItems
  <2>1. PICK o : o.op = "supersede-version" /\ mem' = Apply(mem, o)
    BY <1>2, SupersessionStep DEF SupersedeVersionOp
  <2> QED
    BY <2>1, OtherApplyKeepsServices DEF TypeOK
<1>3. CASE BindApplicabilities
  <2>1. PICK b : mem' = Apply([mem EXCEPT !.nextBindingId = @ + 1], BindApplicabilityOp(b))
    BY <1>3, BindingStep
  <2> DEFINE next == mem.nextBindingId + 1
             st == [mem EXCEPT !.nextBindingId = next]
  <2>2. next \in Nat \ {0} /\ IsStore(mem)
    BY DEF TypeOK, IsStore
  <2> HIDE DEF next
  <2>3. IsStore(st) /\ st.services = mem.services
    BY <2>2, CounterUpdate DEF IsStore
  <2>4. mem' = Apply(st, BindApplicabilityOp(b))
    BY <2>1 DEF next
  <2>5. BindApplicabilityOp(b).op = "bind-applicability"
    BY DEF BindApplicabilityOp
  <2> HIDE DEF st
  <2> QED
    BY <2>3, <2>4, <2>5, OtherApplyKeepsServices
<1>4. CASE UpdateModelValidations
  <2>1. PICK o : o.op = "update-model-validation" /\ mem' = Apply(mem, o)
    BY <1>4, ValidationStep DEF UpdateModelValidationOp
  <2> QED
    BY <2>1, OtherApplyKeepsServices DEF TypeOK
<1>5. CASE RegisterDescriptors
  <2>1. PICK o : /\ o.op \in {"register-protocol-binding",
                              "register-verification-mechanism"}
                 /\ mem' = Apply(mem, o)
    BY <1>5 DEF RegisterDescriptors, CreateProtocolBinding, CreateVerificationMechanism,
                Record, RegisterProtocolBindingOp, RegisterVerificationMechanismOp
  <2> QED
    BY <2>1, OtherApplyKeepsServices DEF TypeOK
<1> QED
  BY <1>1, <1>2, <1>3, <1>4, <1>5 DEF Next

-----------------------------------------------------------------------------
(* Items only grow: none goes away, none changes its class, none loses a    *)
(* version.                                                                *)
ItemsGrow(old, new) ==
    \A id \in DOMAIN old : /\ id \in DOMAIN new
                           /\ new[id].class = old[id].class
                           /\ DOMAIN old[id].versions \subseteq DOMAIN new[id].versions

ManifestResolves(item) ==
    item.manifest # None /\ item.manifest.pin # None =>
        item.manifest.pin \in DOMAIN item.versions

BindingResolves(items, b) ==
    /\ b.profile \in DOMAIN items
    /\ items[b.profile].class = "profile"
    /\ b.pin # None => b.pin \in DOMAIN items[b.profile].versions

LEMMA PinsSplit ==
    ASSUME NEW st
    PROVE  PinsResolve(st) <=>
               /\ \A i \in DOMAIN st.bindings : BindingResolves(st.items, st.bindings[i])
               /\ \A id \in DOMAIN st.items : ManifestResolves(st.items[id])
BY DEF PinsResolve, BindingResolves, ManifestResolves

LEMMA BindingStaysResolved ==
    ASSUME NEW old, NEW new, ItemsGrow(old, new), NEW b, BindingResolves(old, b)
    PROVE  BindingResolves(new, b)
BY DEF ItemsGrow, BindingResolves

(* One step of the registry, seen from the items.                           *)
LEMMA RegistrationItems ==
    ASSUME TypeOK, CreateItems \/ DepositModels
    PROVE  \E id, item : /\ id \notin DOMAIN mem.items
                        /\ ManifestResolves(item)
                        /\ mem'.items = With(mem.items, id, item)
<1>1. \E id, number, w, class, manifest :
          /\ id \notin DOMAIN mem.items
          /\ manifest # None => manifest.pin = number \/ manifest.pin = None
          /\ mem' = Apply(mem, RegisterItemOp(id,
                        [class    |-> class,
                         versions |-> [v \in {number} |-> Entry("valid", w)],
                         manifest |-> manifest]))
  <2>1. CASE CreateItems
    <3>1. PICK id \in Identifier, class \in Class, number \in Version, w \in Window :
              \E manifest \in FirstManifests(class, number) :
                  CreateItem(id, class, number, w, manifest)
      BY <2>1 DEF CreateItems
    <3>2. PICK manifest \in FirstManifests(class, number) :
              CreateItem(id, class, number, w, manifest)
      BY <3>1
    <3>3. manifest # None => manifest.pin = number
      BY DEF FirstManifests
    <3> QED
      BY <3>2, <3>3 DEF CreateItem, Record, CanRegisterItem
  <2>2. CASE DepositModels
    <3>1. PICK id \in Identifier, number \in Version, w \in Window, source \in Source,
               validation \in ValidationStatus : DepositModel(id, number, w, source, validation)
      BY <2>2 DEF DepositModels
    <3> DEFINE manifest == [pin     |-> number,
                            express |-> [source |-> source, validation |-> validation]]
    <3>2. manifest.pin = number
      OBVIOUS
    <3>3. /\ id \notin DOMAIN mem.items
          /\ mem' = Apply(mem, RegisterItemOp(id,
                        [class    |-> "model",
                         versions |-> [v \in {number} |-> Entry("valid", w)],
                         manifest |-> manifest]))
      BY <3>1 DEF DepositModel, Record, CanRegisterItem
    <3> HIDE DEF manifest
    <3> QED
      BY <3>2, <3>3
  <2> QED
    BY <2>1, <2>2
<1>2. PICK id, number, w, class, manifest :
          /\ id \notin DOMAIN mem.items
          /\ manifest # None => manifest.pin = number \/ manifest.pin = None
          /\ mem' = Apply(mem, RegisterItemOp(id,
                        [class    |-> class,
                         versions |-> [v \in {number} |-> Entry("valid", w)],
                         manifest |-> manifest]))
  BY <1>1
<1> DEFINE item == [class    |-> class,
                    versions |-> [v \in {number} |-> Entry("valid", w)],
                    manifest |-> manifest]
<1>3. item.manifest = manifest /\ DOMAIN item.versions = {number}
  OBVIOUS
<1>4. mem' = Apply(mem, RegisterItemOp(id, item))
  BY <1>2
<1> HIDE DEF item
<1>5. ManifestResolves(item)
  BY <1>2, <1>3 DEF ManifestResolves
<1>6. mem'.items = With(mem.items, id, item)
  BY <1>4, RegisterItemEffect DEF TypeOK
<1> QED
  BY <1>2, <1>5, <1>6

LEMMA SupersessionItems ==
    ASSUME TypeOK, SupersedeItems
    PROVE  \E id \in DOMAIN mem.items, number \in Version : \E item :
               /\ item.class = mem.items[id].class
               /\ DOMAIN item.versions = DOMAIN mem.items[id].versions \cup {number}
               /\ ManifestResolves(mem.items[id]) => ManifestResolves(item)
               /\ mem'.items = [mem.items EXCEPT ![id] = item]
<1>1. PICK id \in DOMAIN mem.items, number \in Version, w \in Window :
          \E target \in DOMAIN mem.items[id].versions,
             manifest \in NextManifests(mem.items[id], number) :
              mem' = Apply(mem, SupersedeVersionOp(id, target, number, Entry("valid", w),
                                                  manifest))
  BY SupersessionStep
<1>2. PICK target \in DOMAIN mem.items[id].versions,
           manifest \in NextManifests(mem.items[id], number) :
              mem' = Apply(mem, SupersedeVersionOp(id, target, number, Entry("valid", w),
                                                  manifest))
  BY <1>1
<1> DEFINE old == mem.items[id]
           versions == Superseded(old.versions, target, number, Entry("valid", w))
           kept == IF manifest = None THEN old.manifest ELSE manifest
           item == [class |-> old.class, versions |-> versions, manifest |-> kept]
<1>3. mem'.items = [mem.items EXCEPT ![id] = item]
  BY <1>2, SupersededItem DEF TypeOK
<1>4. DOMAIN versions = DOMAIN old.versions \cup {number}
  BY DEF Superseded
<1> HIDE DEF versions
<1>5. /\ item.class = old.class /\ item.versions = versions
      /\ item.manifest = IF manifest = None THEN old.manifest ELSE manifest
  OBVIOUS
<1>6. manifest # None => manifest.pin \in DOMAIN old.versions \cup {number, None}
  BY DEF NextManifests
<1> HIDE DEF item
<1>7. ManifestResolves(old) => ManifestResolves(item)
  BY <1>4, <1>5, <1>6 DEF ManifestResolves
<1>8. /\ item.class = mem.items[id].class
      /\ DOMAIN item.versions = DOMAIN mem.items[id].versions \cup {number}
  BY <1>4, <1>5
<1> QED
  BY <1>3, <1>7, <1>8

LEMMA ValidationItems ==
    ASSUME TypeOK, UpdateModelValidations
    PROVE  /\ DOMAIN mem'.items = DOMAIN mem.items
           /\ \A k \in DOMAIN mem.items :
                 /\ mem'.items[k].class = mem.items[k].class
                 /\ mem'.items[k].versions = mem.items[k].versions
                 /\ ManifestResolves(mem.items[k]) => ManifestResolves(mem'.items[k])
<1>1. PICK id \in Identifier, version \in Version, validation \in ValidationStatus :
          mem' = Apply(mem, UpdateModelValidationOp(id, version, validation))
  BY ValidationStep
<1>2. /\ DOMAIN mem'.items = DOMAIN mem.items
      /\ \A k \in DOMAIN mem.items :
            /\ mem'.items[k].class = mem.items[k].class
            /\ mem'.items[k].versions = mem.items[k].versions
            /\ \/ mem'.items[k].manifest = mem.items[k].manifest
               \/ /\ mem.items[k].manifest # None
                  /\ mem'.items[k].manifest.pin = mem.items[k].manifest.pin
  BY <1>1, ValidatedItems DEF TypeOK
<1> QED
  BY <1>2 DEF ManifestResolves

(* Items only grow, and a manifest that resolves keeps resolving.           *)
LEMMA StepGrows ==
    ASSUME TypeOK, [Next]_vars
    PROVE  /\ ItemsGrow(mem.items, mem'.items)
           /\ (\A id \in DOMAIN mem.items : ManifestResolves(mem.items[id])) =>
                  \A id \in DOMAIN mem'.items : ManifestResolves(mem'.items[id])
<1>1. CASE CreateItems \/ DepositModels
  BY <1>1, RegistrationItems DEF ItemsGrow, With
<1>2. CASE SupersedeItems
  <2>1. PICK id \in DOMAIN mem.items, number \in Version : \E item :
               /\ item.class = mem.items[id].class
               /\ DOMAIN item.versions = DOMAIN mem.items[id].versions \cup {number}
               /\ ManifestResolves(mem.items[id]) => ManifestResolves(item)
               /\ mem'.items = [mem.items EXCEPT ![id] = item]
    BY <1>2, SupersessionItems
  <2>2. PICK item :
               /\ item.class = mem.items[id].class
               /\ DOMAIN item.versions = DOMAIN mem.items[id].versions \cup {number}
               /\ ManifestResolves(mem.items[id]) => ManifestResolves(item)
               /\ mem'.items = [mem.items EXCEPT ![id] = item]
    BY <2>1
  <2> QED
    BY <2>2 DEF ItemsGrow
<1>3. CASE UpdateModelValidations
  BY <1>3, ValidationItems DEF ItemsGrow
<1>4. CASE mem'.items = mem.items
  BY <1>4 DEF ItemsGrow
<1>5. CASE BindApplicabilities
  BY <1>4, <1>5, BindEffect
<1>6. CASE CreateServices \/ SupersedeServices \/ RegisterDescriptors
  BY <1>4, <1>6, OtherStep
<1>7. CASE UNCHANGED vars
  BY <1>4, <1>7 DEF vars
<1> QED
  BY <1>1, <1>2, <1>3, <1>5, <1>6, <1>7 DEF Next

(* What a binding that is accepted refers to is there.                      *)
LEMMA BindResolves ==
    ASSUME TypeOK, BindApplicabilities
    PROVE  \E b : /\ BindingResolves(mem.items, b)
                  /\ mem'.bindings = Append(mem.bindings, b)
                  /\ mem'.items = mem.items
<1>1. PICK subject, profile, pin, terms :
          /\ CanBind(mem, profile, pin)
          /\ mem' = Apply([mem EXCEPT !.nextBindingId = @ + 1],
                       BindApplicabilityOp([id |-> mem.nextBindingId, subject |-> subject,
                           profile |-> profile, pin |-> pin, terms |-> terms]))
  BY DEF BindApplicabilities, BindApplicability, Record
<1> DEFINE b == [id |-> mem.nextBindingId, subject |-> subject,
                 profile |-> profile, pin |-> pin, terms |-> terms]
           next == mem.nextBindingId + 1
           st == [mem EXCEPT !.nextBindingId = next]
<1>2. BindingResolves(mem.items, b)
  BY <1>1 DEF CanBind, BindingResolves
<1>3. next \in Nat \ {0} /\ IsStore(mem)
  BY DEF TypeOK, IsStore
<1>4. mem' = Apply(st, BindApplicabilityOp(b))
  BY <1>1
<1> HIDE DEF b, next
<1>5. IsStore(st) /\ st.items = mem.items /\ st.bindings = mem.bindings
  BY <1>3, CounterUpdate DEF IsStore
<1> HIDE DEF st
<1>6. mem'.items = mem.items /\ mem'.bindings = Append(mem.bindings, b)
  BY <1>4, <1>5, BindApplicabilityEffect
<1> QED
  BY <1>2, <1>6

LEMMA BindingsStayResolved ==
    ASSUME TypeOK, [Next]_vars,
           \A i \in DOMAIN mem.bindings : BindingResolves(mem.items, mem.bindings[i])
    PROVE  \A i \in DOMAIN mem'.bindings : BindingResolves(mem'.items, mem'.bindings[i])
<1>1. CASE BindApplicabilities
  <2>1. PICK b : /\ BindingResolves(mem.items, b)
                 /\ mem'.bindings = Append(mem.bindings, b)
                 /\ mem'.items = mem.items
    BY <1>1, BindResolves
  <2> DEFINE S == Binding \cup {b}
  <2>2. mem.bindings \in Seq(S) /\ b \in S
    BY DEF TypeOK, IsStore
  <2> HIDE DEF S
  <2>3. /\ DOMAIN mem.bindings = 1 .. Len(mem.bindings)
        /\ DOMAIN mem'.bindings = 1 .. Len(mem.bindings) + 1
        /\ \A i \in 1 .. Len(mem.bindings) : mem'.bindings[i] = mem.bindings[i]
        /\ mem'.bindings[Len(mem.bindings) + 1] = b
        /\ Len(mem.bindings) \in Nat
    BY <2>1, <2>2, AppendProperties, LenProperties
  <2>4. ASSUME NEW i \in DOMAIN mem'.bindings
        PROVE  BindingResolves(mem.items, mem'.bindings[i])
    <3>1. CASE i = Len(mem.bindings) + 1
      BY <2>1, <2>3, <3>1
    <3>2. CASE i \in DOMAIN mem.bindings
      BY <2>3, <3>2
    <3> QED
      BY <2>3, <3>1, <3>2
  <2> QED
    BY <2>1, <2>4
<1>2. CASE mem'.bindings = mem.bindings
  BY <1>2, StepGrows, BindingStaysResolved
<1>3. CASE Next /\ ~BindApplicabilities
  BY <1>2, <1>3, BindingsFrame
<1>4. CASE UNCHANGED vars
  BY <1>2, <1>4 DEF vars
<1> QED
  BY <1>1, <1>3, <1>4

(* Seam S4: a binding keeps referring to a registered profile, and every    *)
(* pin, of a binding or of a manifest, to a registered version, whatever is *)
(* superseded afterwards.                                                  *)
THEOREM PinsRegistered == Spec => []PinsAreRegistered
<1>1. Init => PinsAreRegistered
  BY DEF Init, EmptyStore, PinsAreRegistered, PinsResolve
<1>2. TypeOK /\ PinsAreRegistered /\ [Next]_vars => PinsAreRegistered'
  <2> SUFFICES ASSUME TypeOK, PinsResolve(mem), [Next]_vars
               PROVE  PinsResolve(mem')
    BY DEF PinsAreRegistered
  <2>1. /\ \A i \in DOMAIN mem.bindings : BindingResolves(mem.items, mem.bindings[i])
        /\ \A id \in DOMAIN mem.items : ManifestResolves(mem.items[id])
    BY PinsSplit
  <2>2. \A i \in DOMAIN mem'.bindings : BindingResolves(mem'.items, mem'.bindings[i])
    BY <2>1, BindingsStayResolved
  <2>3. \A id \in DOMAIN mem'.items : ManifestResolves(mem'.items[id])
    BY <2>1, StepGrows
  <2> QED
    BY <2>2, <2>3, PinsSplit
<1> QED
  BY <1>1, <1>2, TypeCorrect, PTL DEF Spec

-----------------------------------------------------------------------------
(* Service histories.                                                      *)

(* Without a cardinality: no two versions are active.                       *)
OneActive(vs) == \A v, u \in Serving(vs, "active") : v = u

LEMMA OneActiveIsSmall ==
    ASSUME NEW vs
    PROVE  OneActive(vs) => Cardinality(Serving(vs, "active")) <= 1
<1> DEFINE S == Serving(vs, "active")
<1> SUFFICES ASSUME OneActive(vs)
             PROVE  Cardinality(S) <= 1
  OBVIOUS
<1>1. CASE S = {}
  BY <1>1, FS_EmptySet
<1>2. CASE S # {}
  <2>1. PICK v \in S : S = {v}
    BY <1>2 DEF OneActive
  <2> QED
    BY <2>1, FS_Singleton
<1> QED
  BY <1>1, <1>2

(* A history as an operator publishes it first, and superseded at its       *)
(* active version.                                                         *)
LEMMA FirstHistoryForward ==
    ASSUME NEW number \in Version, NEW w \in Window, NEW status
    PROVE  /\ LinksForward([v \in {number} |-> Entry(status, w)])
           /\ LinksInjective([v \in {number} |-> Entry(status, w)])
           /\ OneActive([v \in {number} |-> Entry(status, w)])
           /\ \A v \in {number} : [u \in {number} |-> Entry(status, w)][v].next = None
<1> DEFINE vs == [v \in {number} |-> Entry(status, w)]
<1>1. DOMAIN vs = {number} /\ vs[number].next = None
  BY DEF Entry
<1> HIDE DEF vs
<1>2. /\ LinksForward(vs) /\ LinksInjective(vs) /\ OneActive(vs)
      /\ \A v \in {number} : vs[v].next = None
  BY <1>1 DEF LinksForward, LinksInjective, OneActive, Serving
<1> QED
  BY <1>2 DEF vs

ServiceHistory(vs) ==
    /\ LinksForward(vs)
    /\ LinksInjective(vs)
    /\ OneActive(vs)
    /\ \A v \in Serving(vs, "active") : vs[v].next = None

LEMMA SupersededForward ==
    ASSUME NEW vs, IsHistory(vs, ServiceStatus), ServiceHistory(vs),
           NEW number \in Version, number \notin DOMAIN vs,
           NEW target \in DOMAIN vs, vs[target].status = "active",
           NEW e, e.next = None, e.from \in Nat, e.from >= vs[target].from
    PROVE  ServiceHistory(Superseded(vs, target, number, e))
<1> DEFINE new == Superseded(vs, target, number, e)
<1>1. /\ DOMAIN new = DOMAIN vs \cup {number}
      /\ new[number] = e
      /\ new[target].status = "superseded" /\ new[target].next = number
      /\ new[target].from = vs[target].from
      /\ \A v \in DOMAIN vs \ {target} : new[v] = vs[v]
  BY DEF Superseded, Linked
<1>2. number # None /\ target # number
  BY NoneAssumption, VersionAssumption
<1>3. \A v \in DOMAIN vs \ {target} : vs[v].status # "active"
  BY DEF ServiceHistory, OneActive, Serving
<1>4. \A v \in DOMAIN vs : vs[v].next # None =>
          vs[v].next \in DOMAIN vs \ {v} /\ vs[v].from <= vs[vs[v].next].from
  BY DEF ServiceHistory, LinksForward
<1>5. vs[target].next = None /\ vs[target].from \in Nat
  BY DEF ServiceHistory, Serving, IsHistory, EntryOf
<1> HIDE DEF new
<1>6. Serving(new, "active") \subseteq {number}
  BY <1>1, <1>3 DEF Serving
<1>7. LinksForward(new)
  <2> SUFFICES ASSUME NEW v \in DOMAIN new, new[v].next # None
               PROVE  /\ new[v].next \in DOMAIN new \ {v}
                      /\ new[v].from <= new[new[v].next].from
    BY DEF LinksForward
  <2>1. v # number
    BY <1>1
  <2>2. CASE v = target
    BY <1>1, <1>2, <1>5, <2>2
  <2>3. CASE v # target
    <3>1. v \in DOMAIN vs \ {target} /\ new[v] = vs[v] /\ vs[v].next \in DOMAIN vs \ {v}
      BY <1>1, <1>4, <2>1, <2>3
    <3>2. new[vs[v].next].from = vs[vs[v].next].from
      BY <1>1, <3>1
    <3> QED
      BY <1>1, <1>4, <3>1, <3>2
  <2> QED
    BY <2>2, <2>3
<1>8. LinksInjective(new)
  <2> SUFFICES ASSUME NEW v \in DOMAIN new, NEW u \in DOMAIN new,
                      new[v].next # None, new[v].next = new[u].next
               PROVE  v = u
    BY DEF LinksInjective
  <2>1. v # number /\ u # number
    BY <1>1
  <2>2. CASE v # target /\ u # target
    <3>1. v \in DOMAIN vs /\ u \in DOMAIN vs /\ vs[v].next # None /\ vs[v].next = vs[u].next
      BY <1>1, <2>1, <2>2
    <3> QED
      BY <3>1 DEF ServiceHistory, LinksInjective
  <2>3. \A x \in DOMAIN new \ {number, target} :
            new[x].next # None => new[x].next \in DOMAIN vs
    BY <1>1, <1>4
  <2>4. CASE v = target \/ u = target
    BY <1>1, <2>1, <2>3, <2>4
  <2> QED
    BY <2>2, <2>4
<1>9. /\ OneActive(new)
      /\ \A v \in Serving(new, "active") : new[v].next = None
  BY <1>1, <1>6 DEF OneActive
<1> QED
  BY <1>7, <1>8, <1>9 DEF ServiceHistory, new

(* The strengthening that is inductive: the cardinality is left out.        *)
ServicesOrdered(st) == \A id \in DOMAIN st.services : ServiceHistory(st.services[id])

LEMMA OrderedIsForward ==
    ASSUME NEW st, ServicesOrdered(st)
    PROVE  ServiceHistoriesForward(st)
BY OneActiveIsSmall DEF ServicesOrdered, ServiceHistory, ServiceHistoriesForward

LEMMA RegisterServiceEffect ==
    ASSUME NEW st, IsStore(st), NEW id, NEW versions
    PROVE  Apply(st, RegisterServiceOp(id, versions)).services = With(st.services, id, versions)
<1> DEFINE new == Apply(st, RegisterServiceOp(id, versions))
           services == With(st.services, id, versions)
<1>1. new = [st EXCEPT !.services = services]
  BY DEF Apply, RegisterServiceOp, ApplyRegisterService
<1> HIDE DEF new, services
<1>2. new.services = services
  BY <1>1 DEF IsStore
<1> QED
  BY <1>2 DEF new, services

LEMMA SupersedeServiceEffect ==
    ASSUME NEW st, IsStore(st), NEW id \in DOMAIN st.services, NEW target, NEW number,
           NEW successor
    PROVE  Apply(st, SupersedeServiceOp(id, target, number, successor)).services
               = [st.services EXCEPT ![id] =
                     Superseded(st.services[id], target, number, successor)]
<1> DEFINE new == Apply(st, SupersedeServiceOp(id, target, number, successor))
           services == [st.services EXCEPT ![id] =
                           Superseded(st.services[id], target, number, successor)]
<1>1. new = [st EXCEPT !.services = services]
  BY DEF Apply, SupersedeServiceOp, ApplySupersedeService
<1> HIDE DEF new, services
<1>2. new.services = services
  BY <1>1 DEF IsStore
<1> QED
  BY <1>2 DEF new, services

(* What an accepted supersession of a service does. *)
SupersedesService(id, target, number, e) ==
    /\ target \in DOMAIN mem.services[id]
    /\ number \notin DOMAIN mem.services[id]
    /\ mem.services[id][target].status = "active"
    /\ e.next = None /\ e.from \in Nat
    /\ e.from >= mem.services[id][target].from
    /\ mem'.services = [mem.services EXCEPT ![id] =
                            Superseded(mem.services[id], target, number, e)]

LEMMA ServiceSupersession ==
    ASSUME TypeOK, SupersedeServices
    PROVE  \E id \in DOMAIN mem.services, target, number \in Version,
              e \in EntryOf(ServiceStatus) :
               SupersedesService(id, target, number, e)
<1>1. PICK id \in ServiceId, target \in Version, number \in Version, w \in Window,
           status \in ServiceStatus : SupersedeService(id, target, number, w, status)
  BY DEF SupersedeServices
<1>0. PICK e : e = Entry(status, w)
  OBVIOUS
<1>2. /\ CanSupersedeService(mem, id, target, number, e)
      /\ mem' = Apply(mem, SupersedeServiceOp(id, target, number, e))
  BY <1>0, <1>1 DEF SupersedeService, Record
<1>3. e.next = None /\ e.from \in Nat /\ e \in EntryOf(ServiceStatus)
  BY <1>0, WindowAssumption, EntryType DEF Entry
<1>4. id \in DOMAIN mem.services
  BY <1>2 DEF CanSupersedeService
<1>5. mem'.services = [mem.services EXCEPT ![id] =
                          Superseded(mem.services[id], target, number, e)]
  BY <1>2, <1>4, SupersedeServiceEffect DEF TypeOK
<1>6. /\ target \in DOMAIN mem.services[id]
      /\ number \notin DOMAIN mem.services[id]
      /\ mem.services[id][target].status = "active"
      /\ e.from >= mem.services[id][target].from
  BY <1>2 DEF CanSupersedeService
<1>7. SupersedesService(id, target, number, e)
  BY <1>3, <1>5, <1>6 DEF SupersedesService
<1> QED
  BY <1>3, <1>4, <1>7

LEMMA ServiceRegistration ==
    ASSUME TypeOK, CreateServices
    PROVE  \E id, vs : /\ id \notin DOMAIN mem.services
                      /\ ServiceHistory(vs)
                      /\ mem'.services = With(mem.services, id, vs)
<1>1. PICK id \in ServiceId, number \in Version, w \in Window, status \in ServiceStatus :
          CreateService(id, number, w, status)
  BY DEF CreateServices
<1> DEFINE vs == [v \in {number} |-> Entry(status, w)]
<1>2. id \notin DOMAIN mem.services /\ mem' = Apply(mem, RegisterServiceOp(id, vs))
  BY <1>1 DEF CreateService, Record, CanRegisterService
<1>3. ServiceHistory(vs)
  BY FirstHistoryForward DEF ServiceHistory, Serving
<1> HIDE DEF vs
<1>4. mem'.services = With(mem.services, id, vs)
  BY <1>2, RegisterServiceEffect DEF TypeOK
<1> QED
  BY <1>2, <1>3, <1>4

LEMMA OrderedInductive == TypeOK /\ ServicesOrdered(mem) /\ [Next]_vars => ServicesOrdered(mem')
<1> SUFFICES ASSUME TypeOK, ServicesOrdered(mem), [Next]_vars
             PROVE  ServicesOrdered(mem')
  OBVIOUS
<1>1. CASE CreateServices
  BY <1>1, ServiceRegistration DEF ServicesOrdered, With
<1>2. CASE SupersedeServices
  <2>1. PICK id \in DOMAIN mem.services, target \in Version, number \in Version,
             e \in EntryOf(ServiceStatus) :
               SupersedesService(id, target, number, e)
    BY <1>2, ServiceSupersession
  <2> DEFINE vs == mem.services[id]
  <2>2. IsHistory(vs, ServiceStatus) /\ ServiceHistory(vs)
    BY DEF TypeOK, IsStore, ServicesOrdered
  <2>3. ServiceHistory(Superseded(vs, target, number, e))
    BY <2>1, <2>2, SupersededForward DEF SupersedesService
  <2> HIDE DEF vs
  <2>4. mem'.services = [mem.services EXCEPT ![id] = Superseded(vs, target, number, e)]
    BY <2>1 DEF vs, SupersedesService
  <2> QED
    BY <2>3, <2>4 DEF ServicesOrdered
<1>3. CASE mem'.services = mem.services
  BY <1>3 DEF ServicesOrdered
<1> QED
  BY <1>1, <1>2, <1>3, ServicesFrame DEF vars

LEMMA ServicesStayOrdered == Spec => []ServicesOrdered(mem)
<1>1. Init => ServicesOrdered(mem)
  BY DEF Init, EmptyStore, ServicesOrdered
<1>2. TypeOK /\ ServicesOrdered(mem) /\ [Next]_vars => ServicesOrdered(mem)'
  BY OrderedInductive
<1> QED
  BY <1>1, <1>2, TypeCorrect, PTL DEF Spec

(* A service keeps at most one active version, the last of its links, which *)
(* lead forward and never join (Store::supersede_service): the discipline   *)
(* of the items, with the statuses an operator may publish.                 *)
THEOREM ServicesLeadForward == Spec => []ServicesForward
<1>1. ServicesOrdered(mem) => ServicesForward
  BY OrderedIsForward DEF ServicesForward
<1> QED
  BY <1>1, ServicesStayOrdered, PTL

-----------------------------------------------------------------------------
(* Registered versions.                                                    *)

LEMMA SupersededKeeps ==
    ASSUME NEW S, NEW vs, IsHistory(vs, S), NEW target \in DOMAIN vs, vs[target].next = None,
           NEW number, number \notin DOMAIN vs, NEW e
    PROVE  KeepsHistory(vs, Superseded(vs, target, number, e))
<1> DEFINE new == Superseded(vs, target, number, e)
<1>1. DOMAIN vs \subseteq DOMAIN new /\ number \in DOMAIN new \ DOMAIN vs
  BY DEF Superseded
<1>2. \A v \in DOMAIN vs \ {target} : new[v] = vs[v]
  BY DEF Superseded
<1>3. /\ new[target].next = number
      /\ new[target] = [vs[target] EXCEPT !.status = "superseded", !.next = number]
  <2>1. vs[target] \in EntryOf(S)
    BY DEF IsHistory
  <2>2. new[target] = Linked(vs[target], number)
    BY DEF Superseded
  <2>3. PICK entry : entry = vs[target] /\ entry \in EntryOf(S)
    BY <2>1
  <2>4. [entry EXCEPT !.status = "superseded"]
            = [status |-> "superseded", from |-> entry.from, until |-> entry.until,
               next |-> entry.next]
    BY <2>3 DEF EntryOf
  <2>5. [entry EXCEPT !.status = "superseded", !.next = number] = Linked(entry, number)
    <3>1. PICK mid : mid = [entry EXCEPT !.status = "superseded"]
      OBVIOUS
    <3>2. /\ mid \in EntryOf(S \cup {"superseded"})
          /\ mid.status = "superseded" /\ mid.from = entry.from /\ mid.until = entry.until
      BY <2>3, <2>4, <3>1 DEF EntryOf
    <3>3. [mid EXCEPT !.next = number] = Linked(entry, number)
      BY <3>2 DEF EntryOf, Linked
    <3> QED
      BY <3>1, <3>3
  <2>6. Linked(entry, number).next = number
    BY DEF Linked
  <2> QED
    BY <2>2, <2>3, <2>5, <2>6
<1> HIDE DEF new
<1>4. KeepsHistory(vs, new)
  BY <1>1, <1>2, <1>3 DEF KeepsHistory
<1> QED
  BY <1>4 DEF new

ItemsKept ==
    \A id \in DOMAIN mem.items :
        /\ id \in DOMAIN mem'.items
        /\ KeepsHistory(mem.items[id].versions, mem'.items[id].versions)

ServicesKept ==
    \A id \in DOMAIN mem.services :
        /\ id \in DOMAIN mem'.services
        /\ KeepsHistory(mem.services[id], mem'.services[id])

BindingsKept == \A i \in DOMAIN mem.bindings : mem'.bindings[i] = mem.bindings[i]

LEMMA StepKeepsItems == TypeOK /\ HistoriesLinear /\ [Next]_vars => ItemsKept
<1> SUFFICES ASSUME TypeOK, ItemHistoriesLinear(mem), [Next]_vars
             PROVE  ItemsKept
  BY DEF HistoriesLinear
<1>1. CASE CreateItems \/ DepositModels
  BY <1>1, RegistrationItems DEF ItemsKept, With, KeepsHistory
<1>2. CASE SupersedeItems
  <2>1. PICK id \in DOMAIN mem.items, number \in Version, w \in Window :
            \E target \in DOMAIN mem.items[id].versions,
               manifest \in NextManifests(mem.items[id], number) :
                /\ CanSupersede(mem, id, target, number, Entry("valid", w))
                /\ mem' = Apply(mem, SupersedeVersionOp(id, target, number,
                                                       Entry("valid", w), manifest))
    BY <1>2, SupersessionStep
  <2>2. PICK target \in DOMAIN mem.items[id].versions,
             manifest \in NextManifests(mem.items[id], number) :
                /\ CanSupersede(mem, id, target, number, Entry("valid", w))
                /\ mem' = Apply(mem, SupersedeVersionOp(id, target, number,
                                                       Entry("valid", w), manifest))
    BY <2>1
  <2> DEFINE vs == mem.items[id].versions
             e  == Entry("valid", w)
  <2>3. IsHistory(vs, ItemStatus) /\ LinearHistory(vs, "valid")
    BY DEF TypeOK, IsStore, IsItem, ItemHistoriesLinear
  <2>4. number \notin DOMAIN vs /\ vs[target].status = "valid"
    BY <2>2 DEF CanSupersede
  <2>5. vs[target].next = None
    BY <2>3, <2>4 DEF LinearHistory, ServingIsUnlinked
  <2>6. /\ DOMAIN mem'.items = DOMAIN mem.items
        /\ mem'.items[id].versions = Superseded(vs, target, number, e)
        /\ \A k \in DOMAIN mem.items \ {id} : mem'.items[k] = mem.items[k]
    BY <2>2, SupersedeVersionEffect DEF TypeOK
  <2>7. KeepsHistory(vs, Superseded(vs, target, number, e))
    BY <2>3, <2>4, <2>5, SupersededKeeps
  <2>8. \A k \in DOMAIN mem.items \ {id} :
            KeepsHistory(mem.items[k].versions, mem'.items[k].versions)
    BY <2>6 DEF KeepsHistory
  <2> QED
    BY <2>6, <2>7, <2>8 DEF ItemsKept
<1>3. CASE UpdateModelValidations
  BY <1>3, ValidationItems DEF ItemsKept, KeepsHistory
<1>4. CASE mem'.items = mem.items
  BY <1>4 DEF ItemsKept, KeepsHistory
<1>5. CASE BindApplicabilities
  BY <1>4, <1>5, BindEffect
<1>6. CASE CreateServices \/ SupersedeServices \/ RegisterDescriptors
  BY <1>4, <1>6, OtherStep
<1>7. CASE UNCHANGED vars
  BY <1>4, <1>7 DEF vars
<1> QED
  BY <1>1, <1>2, <1>3, <1>5, <1>6, <1>7 DEF Next

LEMMA StepKeepsServices == TypeOK /\ ServicesOrdered(mem) /\ [Next]_vars => ServicesKept
<1> SUFFICES ASSUME TypeOK, ServicesOrdered(mem), [Next]_vars
             PROVE  ServicesKept
  OBVIOUS
<1>1. CASE CreateServices
  BY <1>1, ServiceRegistration DEF ServicesKept, With, KeepsHistory
<1>2. CASE SupersedeServices
  <2>1. PICK id \in DOMAIN mem.services, target \in Version, number \in Version,
             e \in EntryOf(ServiceStatus) :
               SupersedesService(id, target, number, e)
    BY <1>2, ServiceSupersession
  <2> DEFINE vs == mem.services[id]
  <2>2. IsHistory(vs, ServiceStatus) /\ ServiceHistory(vs)
    BY DEF TypeOK, IsStore, ServicesOrdered
  <2>3. target \in DOMAIN vs /\ number \notin DOMAIN vs /\ vs[target].next = None
    BY <2>1, <2>2 DEF SupersedesService, ServiceHistory, Serving
  <2>4. KeepsHistory(vs, Superseded(vs, target, number, e))
    BY <2>2, <2>3, SupersededKeeps
  <2>5. /\ DOMAIN mem'.services = DOMAIN mem.services
        /\ mem'.services[id] = Superseded(vs, target, number, e)
        /\ \A k \in DOMAIN mem.services \ {id} : mem'.services[k] = mem.services[k]
    BY <2>1 DEF SupersedesService
  <2>6. \A k \in DOMAIN mem.services \ {id} :
            KeepsHistory(mem.services[k], mem'.services[k])
    BY <2>5 DEF KeepsHistory
  <2> QED
    BY <2>4, <2>5, <2>6 DEF ServicesKept
<1>3. CASE mem'.services = mem.services
  BY <1>3 DEF ServicesKept, KeepsHistory
<1> QED
  BY <1>1, <1>2, <1>3, ServicesFrame DEF vars

LEMMA StepKeepsBindings == TypeOK /\ [Next]_vars => BindingsKept
<1> SUFFICES ASSUME TypeOK, [Next]_vars
             PROVE  BindingsKept
  OBVIOUS
<1>1. CASE BindApplicabilities
  <2>1. PICK b : mem'.bindings = Append(mem.bindings, b)
    BY <1>1, BindEffect
  <2> DEFINE S == Binding \cup {b}
  <2>2. mem.bindings \in Seq(S) /\ b \in S
    BY DEF TypeOK, IsStore
  <2> HIDE DEF S
  <2> QED
    BY <2>1, <2>2, AppendProperties, LenProperties DEF BindingsKept
<1>2. CASE mem'.bindings = mem.bindings
  BY <1>2 DEF BindingsKept
<1> QED
  BY <1>1, <1>2, BindingsFrame DEF vars

(* A version, once registered, changes at most once, from serving to        *)
(* superseded with its link set; nothing that was registered or bound goes  *)
(* away (the append-only log of Op and the guards of the two supersessions). *)
THEOREM Immutable == Spec => VersionsImmutable
<1>1. /\ TypeOK /\ HistoriesLinear /\ ServicesOrdered(mem) /\ [Next]_vars
      => ItemsKept /\ ServicesKept /\ BindingsKept
  BY StepKeepsItems, StepKeepsServices, StepKeepsBindings
<1>2. TypeOK /\ HistoriesLinear /\ ServicesOrdered(mem) /\ [Next]_vars
      => [/\ \A id \in DOMAIN mem.items :
                /\ id \in DOMAIN mem.items'
                /\ KeepsHistory(mem.items[id].versions, mem.items[id].versions')
          /\ \A id \in DOMAIN mem.services :
                /\ id \in DOMAIN mem.services'
                /\ KeepsHistory(mem.services[id], mem.services[id]')
          /\ \A i \in DOMAIN mem.bindings : mem.bindings[i]' = mem.bindings[i]]_vars
  BY <1>1 DEF ItemsKept, ServicesKept, BindingsKept
<1> QED
  BY <1>2, TypeCorrect, LinearHistories, ServicesStayOrdered, PTL DEF Spec, VersionsImmutable

-----------------------------------------------------------------------------
(* Induction without an operator parameter: the least counterexample.       *)

(* A set of numbers that is not empty has a least one. *)
LEMMA LeastElement ==
    ASSUME NEW T, T \subseteq Nat, T # {}
    PROVE  \E m \in T : \A k \in T : m <= k
<1>1. PICK m \in T : \A k \in T : ~(<<k, m>> \in OpToRel(<, Nat))
  BY NatLessThanWellFounded, WFMin
<1>2. \A k \in T : ~(k < m)
  BY <1>1 DEF OpToRel
<1> QED
  BY <1>2

-----------------------------------------------------------------------------
(* Replay, the fold of apply.                                               *)

IsReplay(f, ops, m) ==
    f = [n \in 0 .. m |-> IF n = 0 THEN EmptyStore ELSE Apply(f[n - 1], ops[n])]

(* A replay of m operations, and one more. *)
LEMMA ReplayExtends ==
    ASSUME NEW ops, NEW m \in Nat, NEW f, IsReplay(f, ops, m)
    PROVE  IsReplay([n \in 0 .. m + 1 |-> IF n <= m THEN f[n]
                                          ELSE Apply(f[m], ops[m + 1])], ops, m + 1)
<1> DEFINE next == Apply(f[m], ops[m + 1])
           g == [n \in 0 .. m + 1 |-> IF n <= m THEN f[n] ELSE next]
<1>1. \A n \in 0 .. m : f[n] = IF n = 0 THEN EmptyStore ELSE Apply(f[n - 1], ops[n])
  BY DEF IsReplay
<1>2. \A n \in 0 .. m : g[n] = f[n]
  OBVIOUS
<1>3. g[m + 1] = next
  OBVIOUS
<1>4. \A n \in 0 .. m + 1 :
          g[n] = IF n = 0 THEN EmptyStore ELSE Apply(g[n - 1], ops[n])
  <2> SUFFICES ASSUME NEW n \in 0 .. m + 1
               PROVE  g[n] = IF n = 0 THEN EmptyStore ELSE Apply(g[n - 1], ops[n])
    OBVIOUS
  <2>1. CASE n = m + 1
    <3>1. m \in 0 .. m /\ n # 0 /\ n - 1 = m
      BY <2>1
    <3> HIDE DEF g
    <3> QED
      BY <1>2, <1>3, <2>1, <3>1
  <2>2. CASE n = 0
    <3>1. n \in 0 .. m
      BY <2>2
    <3> HIDE DEF g
    <3> QED
      BY <1>1, <1>2, <2>2, <3>1
  <2>3. CASE n \in 1 .. m
    <3>1. n \in 0 .. m /\ n - 1 \in 0 .. m /\ n # 0
      BY <2>3
    <3> HIDE DEF g
    <3> QED
      BY <1>1, <1>2, <3>1
  <2> QED
    BY <2>1, <2>2, <2>3
<1>5. g = [n \in 0 .. m + 1 |-> g[n]]
  OBVIOUS
<1> HIDE DEF g
<1>6. IsReplay(g, ops, m + 1)
  BY <1>4, <1>5, Zenon DEF IsReplay
<1> QED
  BY <1>6 DEF g

(* Every number of operations has a replay. *)
LEMMA ReplayExists ==
    ASSUME NEW ops, NEW m \in Nat
    PROVE  \E f : IsReplay(f, ops, m)
<1> DEFINE T == {n \in Nat : ~ \E f : IsReplay(f, ops, n)}
<1> SUFFICES ASSUME T # {}
             PROVE  FALSE
  OBVIOUS
<1>1. PICK n \in T : \A k \in T : n <= k
  BY LeastElement
<1>2. n # 0
  <2> DEFINE f == [k \in 0 .. 0 |-> EmptyStore]
  <2>1. f = [k \in 0 .. 0 |-> IF k = 0 THEN EmptyStore ELSE Apply(f[k - 1], ops[k])]
    OBVIOUS
  <2> HIDE DEF f
  <2>2. \E g : IsReplay(g, ops, 0)
    BY <2>1 DEF IsReplay
  <2> QED
    BY <2>2
<1>3. n - 1 \in Nat /\ n - 1 \notin T /\ (n - 1) + 1 = n
  BY <1>1, <1>2
<1>4. PICK f : IsReplay(f, ops, n - 1)
  BY <1>3
<1>5. \E g : IsReplay(g, ops, (n - 1) + 1)
  BY <1>3, <1>4, ReplayExtends
<1> QED
  BY <1>3, <1>5

(* And only one. *)
LEMMA ReplayUnique ==
    ASSUME NEW ops, NEW m \in Nat, NEW k \in Nat, NEW f, NEW g,
           IsReplay(f, ops, m), IsReplay(g, ops, k), NEW n \in Nat, n <= m, n <= k
    PROVE  f[n] = g[n]
<1> DEFINE T == {i \in Nat : i <= m /\ i <= k /\ f[i] # g[i]}
<1> SUFFICES ASSUME T # {}
             PROVE  FALSE
  OBVIOUS
<1>1. PICK i \in T : \A j \in T : i <= j
  BY LeastElement
<1>2. \A j \in 0 .. m : f[j] = IF j = 0 THEN EmptyStore ELSE Apply(f[j - 1], ops[j])
  BY DEF IsReplay
<1>3. \A j \in 0 .. k : g[j] = IF j = 0 THEN EmptyStore ELSE Apply(g[j - 1], ops[j])
  BY DEF IsReplay
<1>4. i \in 0 .. m /\ i \in 0 .. k /\ i # 0 /\ f[i] # g[i]
  BY <1>2, <1>3, <1>1
<1>5. i - 1 \in Nat /\ i - 1 \notin T /\ i - 1 <= m /\ i - 1 <= k
  BY <1>1, <1>4
<1>6. f[i - 1] = g[i - 1]
  BY <1>5
<1> QED
  BY <1>2, <1>3, <1>4, <1>6

(* What Replay is: the last value of any function that folds apply.         *)
LEMMA ReplayValue ==
    ASSUME NEW ops, Len(ops) \in Nat, NEW m \in Nat, Len(ops) <= m,
           NEW f, IsReplay(f, ops, m)
    PROVE  Replay(ops) = f[Len(ops)]
<1> DEFINE after == CHOOSE g : g = [n \in 0 .. Len(ops) |->
                        IF n = 0 THEN EmptyStore ELSE Apply(g[n - 1], ops[n])]
<1>1. \E g : g = [n \in 0 .. Len(ops) |->
                 IF n = 0 THEN EmptyStore ELSE Apply(g[n - 1], ops[n])]
  BY ReplayExists DEF IsReplay
<1>2. after = [n \in 0 .. Len(ops) |->
                 IF n = 0 THEN EmptyStore ELSE Apply(after[n - 1], ops[n])]
  BY <1>1
<1>3. Replay(ops) = after[Len(ops)]
  BY DEF Replay
<1> HIDE DEF after
<1>4. IsReplay(after, ops, Len(ops))
  BY <1>2 DEF IsReplay
<1> QED
  BY <1>3, <1>4, ReplayUnique

(* Replaying nothing, and replaying one record more.                        *)
LEMMA ReplayEmpty == Replay(<< >>) = EmptyStore
<1>1. Len(<< >>) = 0
  OBVIOUS
<1>2. PICK f : IsReplay(f, << >>, 0)
  BY ReplayExists
<1>3. f[0] = EmptyStore
  BY <1>2 DEF IsReplay
<1> QED
  BY <1>1, <1>2, <1>3, ReplayValue

(* Replays of two logs agree as far as the logs do. *)
LEMMA ReplayAgrees ==
    ASSUME NEW ops, NEW more, Len(ops) \in Nat, NEW m \in Nat, m <= Len(ops),
           \A n \in 1 .. m : more[n] = ops[n], NEW f, IsReplay(f, ops, Len(ops)),
           NEW g, IsReplay(g, more, m)
    PROVE  f[m] = g[m]
<1>1. \A n \in 0 .. m : g[n] = IF n = 0 THEN EmptyStore ELSE Apply(g[n - 1], more[n])
  BY DEF IsReplay
<1>2. \A n \in 0 .. m : g[n] = IF n = 0 THEN EmptyStore ELSE Apply(g[n - 1], ops[n])
  BY <1>1
<1>3. g = [n \in 0 .. m |-> g[n]]
  BY DEF IsReplay
<1>4. IsReplay(g, ops, m)
  BY <1>2, <1>3, Zenon DEF IsReplay
<1> QED
  BY <1>4, ReplayUnique

(* A log that is longer by one operation rebuilds the store before it, and *)
(* applies the operation.                                                  *)
LEMMA ReplayStep ==
    ASSUME NEW ops, NEW more, Len(ops) \in Nat, Len(more) = Len(ops) + 1,
           \A n \in 1 .. Len(ops) : more[n] = ops[n]
    PROVE  Replay(more) = Apply(Replay(ops), more[Len(more)])
<1>1. PICK f : IsReplay(f, ops, Len(ops))
  BY ReplayExists
<1>2. PICK g : IsReplay(g, more, Len(ops) + 1)
  BY ReplayExists
<1>3. PICK h : IsReplay(h, more, Len(ops))
  BY ReplayExists
<1>4. Len(ops) <= Len(ops) /\ Len(ops) <= Len(ops) + 1 /\ Len(ops) + 1 \in Nat
  OBVIOUS
<1>5. f[Len(ops)] = h[Len(ops)]
  BY <1>1, <1>3, <1>4, ReplayAgrees
<1>6. g[Len(ops)] = h[Len(ops)]
  BY <1>2, <1>3, <1>4, ReplayUnique
<1>7. g[Len(ops) + 1] = Apply(g[Len(ops)], more[Len(ops) + 1])
  <2>1. \A n \in 0 .. Len(ops) + 1 :
            g[n] = IF n = 0 THEN EmptyStore ELSE Apply(g[n - 1], more[n])
    BY <1>2 DEF IsReplay
  <2> QED
    BY <2>1
<1>8. Replay(ops) = f[Len(ops)] /\ Replay(more) = g[Len(ops) + 1]
  BY <1>1, <1>2, ReplayValue
<1> QED
  BY <1>5, <1>6, <1>7, <1>8

Ops(records) == [i \in DOMAIN records |-> records[i].op]

(* The same of a record that is appended. *)
LEMMA ReplayRecorded ==
    ASSUME NEW S, NEW records \in Seq(S), NEW rec
    PROVE  Replay(Ops(Append(records, rec))) = Apply(Replay(Ops(records)), rec.op)
<1> DEFINE n == Len(records)
           more == Append(records, rec)
<1>1. n \in Nat /\ DOMAIN records = 1 .. n
  BY LenProperties
<1>2. DOMAIN more = 1 .. n + 1 /\ more[n + 1] = rec /\ \A i \in 1 .. n : more[i] = records[i]
  <2>1. records \in Seq(S \cup {rec}) /\ rec \in S \cup {rec}
    BY SeqMonotonic
  <2>2. /\ more \in Seq(S \cup {rec}) /\ Len(more) = n + 1
        /\ \A i \in 1 .. n : more[i] = records[i]
        /\ more[n + 1] = rec
    BY <2>1, AppendProperties
  <2> QED
    BY <2>2, LenProperties
<1> HIDE DEF more, n
<1>3. /\ Ops(records) = [i \in 1 .. n |-> records[i].op]
      /\ Ops(more) = [i \in 1 .. n + 1 |-> more[i].op]
  BY <1>1, <1>2 DEF Ops
<1>4. Len(Ops(records)) = n /\ Len(Ops(more)) = n + 1
  BY <1>1, <1>3
<1>5. Replay(Ops(more)) = Apply(Replay(Ops(records)), Ops(more)[n + 1])
  <2>1. \A i \in 1 .. n : Ops(more)[i] = Ops(records)[i]
    BY <1>1, <1>2, <1>3
  <2> QED
    BY <1>1, <1>4, <2>1, ReplayStep
<1>6. Ops(more)[n + 1] = rec.op
  BY <1>1, <1>2, <1>3
<1> QED
  BY <1>5, <1>6 DEF more

(* Replaying the log from an empty store gives the store in memory, counter *)
(* of the bindings included: what a restart rebuilds is what the process    *)
(* had (Store::record and Store::replay run the same apply).                *)
THEOREM LogReplays == Spec => []LogIsState
<1>1. Init => LogIsState
  <2> SUFFICES ASSUME Init
               PROVE  LogIsState
    OBVIOUS
  <2>1. [i \in DOMAIN log |-> log[i].op] = << >>
    BY DEF Init
  <2> QED
    BY <2>1, ReplayEmpty DEF Init, LogIsState
<1>2. TypeOK /\ LogIsState /\ [Next]_vars => LogIsState'
  <2> SUFFICES ASSUME TypeOK, LogIsState, [Next]_vars
               PROVE  LogIsState'
    OBVIOUS
  <2>1. CASE UNCHANGED vars
    BY <2>1 DEF vars, LogIsState
  <2>2. CASE Next
    <3>1. PICK o : /\ log' = Append(log, [seq |-> Len(log) + 1, op |-> o])
                   /\ mem' = Apply(mem, o)
      BY <2>2, OperationStep DEF TypeOK, RecordedOp, Record
    <3>2. mem = Replay(Ops(log))
      BY DEF LogIsState, Ops
    <3>3. log \in Seq({log[i] : i \in DOMAIN log})
      BY DEF TypeOK, IsLog
    <3>4. Replay(Ops(log')) = Apply(mem, o)
      BY <3>1, <3>2, <3>3, ReplayRecorded
    <3> QED
      BY <3>1, <3>4 DEF LogIsState, Ops
  <2> QED
    BY <2>1, <2>2
<1> QED
  BY <1>1, <1>2, TypeCorrect, PTL DEF Spec

-----------------------------------------------------------------------------
(* Lineages.                                                                *)

(* The numbers of a history, each once, in the order of the links; starts   *)
(* never go back along it.                                                  *)
IsLineage(vs, s) ==
    /\ s \in Seq(DOMAIN vs) /\ s # << >>
    /\ \A v \in DOMAIN vs : \E i \in 1 .. Len(s) : s[i] = v
    /\ \A i, j \in 1 .. Len(s) : s[i] = s[j] => i = j
    /\ \A i \in 1 .. Len(s) - 1 : vs[s[i]].next = s[i + 1]
    /\ vs[s[Len(s)]].next = None
    /\ \A i, j \in 1 .. Len(s) : i <= j => vs[s[i]].from <= vs[s[j]].from

(* A lineage is not empty and consists of versions. *)
LEMMA LineageLen ==
    ASSUME NEW vs, NEW s, IsLineage(vs, s)
    PROVE  /\ Len(s) \in Nat \ {0} /\ DOMAIN s = 1 .. Len(s)
           /\ \A i \in 1 .. Len(s) : s[i] \in DOMAIN vs
<1>1. s \in Seq(DOMAIN vs) /\ s # << >>
  BY DEF IsLineage
<1> QED
  BY <1>1, LenProperties, EmptySeq, ElementOfSeq

(* A registration has a lineage of one version. *)
LEMMA FirstLineage ==
    ASSUME NEW number, NEW e, e.next = None, e.from \in Nat
    PROVE  IsLineage([v \in {number} |-> e], <<number>>)
<1> DEFINE vs == [v \in {number} |-> e]
           s == <<number>>
<1>1. DOMAIN vs = {number} /\ vs[number] = e
  OBVIOUS
<1>2. s \in Seq({number}) /\ Len(s) = 1 /\ s[1] = number /\ s # << >>
  OBVIOUS
<1> HIDE DEF vs, s
<1>3. IsLineage(vs, s)
  BY <1>1, <1>2 DEF IsLineage
<1> QED
  BY <1>3 DEF vs, s

(* A supersession of the version without a link extends the lineage by its *)
(* successor.                                                              *)
LEMMA SupersededLineage ==
    ASSUME NEW vs, NEW status, IsHistory(vs, status), NEW s, IsLineage(vs, s),
           NEW target \in DOMAIN vs, vs[target].next = None,
           NEW number \in Version, number \notin DOMAIN vs,
           NEW e, e.next = None, e.from \in Nat, e.from >= vs[target].from
    PROVE  IsLineage(Superseded(vs, target, number, e), Append(s, number))
<1> DEFINE new == Superseded(vs, target, number, e)
           t == Append(s, number)
           n == Len(s)
<1>1. /\ DOMAIN new = DOMAIN vs \cup {number}
      /\ new[number] = e
      /\ new[target].next = number /\ new[target].from = vs[target].from
      /\ \A v \in DOMAIN vs \ {target} : new[v] = vs[v]
  BY DEF Superseded, Linked
<1>2. /\ n \in Nat \ {0} /\ \A i \in 1 .. n : s[i] \in DOMAIN vs
      /\ s \in Seq(DOMAIN vs)
  BY LineageLen DEF IsLineage
<1>3. /\ t \in Seq(DOMAIN new) /\ t # << >> /\ Len(t) = n + 1
      /\ \A i \in 1 .. n : t[i] = s[i]
      /\ t[n + 1] = number
  <2>1. s \in Seq(DOMAIN new) /\ number \in DOMAIN new
    BY <1>1, <1>2, SeqMonotonic
  <2> HIDE DEF new
  <2> QED
    BY <2>1, AppendProperties
<1>4. \A v \in DOMAIN vs : vs[v].from \in Nat
  BY DEF IsHistory, EntryOf
<1>5. s[n] = target
  <2>1. PICK i \in 1 .. n : s[i] = target
    BY DEF IsLineage
  <2>2. ASSUME i # n
        PROVE  FALSE
    <3>1. i \in 1 .. n - 1 /\ i + 1 \in 1 .. n
      BY <1>2, <2>1, <2>2
    <3>2. vs[s[i]].next = s[i + 1] /\ s[i + 1] \in DOMAIN vs
      BY <1>2, <3>1 DEF IsLineage
    <3>3. None \notin DOMAIN vs
      BY NoneAssumption, VersionAssumption DEF IsHistory
    <3> QED
      BY <2>1, <3>2, <3>3
  <2> QED
    BY <2>1, <2>2
<1> HIDE DEF new, t, n
<1>6. \A v \in DOMAIN vs : new[v].from = vs[v].from
  BY <1>1
<1>7. \A v \in DOMAIN new : \E i \in 1 .. n + 1 : t[i] = v
  <2> SUFFICES ASSUME NEW v \in DOMAIN new
               PROVE  \E i \in 1 .. n + 1 : t[i] = v
    OBVIOUS
  <2>1. CASE v = number
    BY <1>2, <1>3, <2>1
  <2>2. CASE v \in DOMAIN vs
    <3>1. PICK i \in 1 .. n : s[i] = v
      BY <2>2 DEF IsLineage, n
    <3> QED
      BY <1>2, <1>3, <3>1
  <2> QED
    BY <1>1, <2>1, <2>2
<1>8. ASSUME NEW i \in 1 .. n + 1, NEW j \in 1 .. n + 1, t[i] = t[j]
      PROVE  i = j
  <2>1. CASE i \in 1 .. n /\ j \in 1 .. n
    BY <1>3, <1>8, <2>1 DEF IsLineage, n
  <2>2. CASE i = n + 1 \/ j = n + 1
    BY <1>2, <1>3, <1>8, <2>2
  <2> QED
    BY <1>2, <2>1, <2>2
<1>9. \A i \in 1 .. n : new[t[i]].next = t[i + 1]
  <2> SUFFICES ASSUME NEW i \in 1 .. n
               PROVE  new[t[i]].next = t[i + 1]
    OBVIOUS
  <2>1. CASE i = n
    BY <1>1, <1>2, <1>3, <1>5, <2>1
  <2>2. CASE i # n
    <3>1. i \in 1 .. n - 1 /\ i + 1 \in 1 .. n
      BY <1>2, <2>2
    <3>2. vs[s[i]].next = s[i + 1]
      BY <3>1 DEF IsLineage, n
    <3>3. s[i] # s[n]
      BY <1>2, <2>2 DEF IsLineage, n
    <3>4. new[s[i]] = vs[s[i]]
      BY <1>1, <1>2, <1>5, <3>3
    <3> QED
      BY <1>3, <3>1, <3>2, <3>4
  <2> QED
    BY <2>1, <2>2
<1>10. new[t[n + 1]].next = None
  BY <1>1, <1>3
<1>11. \A i, j \in 1 .. n + 1 : i <= j => new[t[i]].from <= new[t[j]].from
  <2> SUFFICES ASSUME NEW i \in 1 .. n + 1, NEW j \in 1 .. n + 1, i <= j
               PROVE  new[t[i]].from <= new[t[j]].from
    OBVIOUS
  <2>1. CASE j \in 1 .. n
    <3>1. i \in 1 .. n
      BY <1>2, <2>1
    <3>2. vs[s[i]].from <= vs[s[j]].from
      BY <2>1, <3>1 DEF IsLineage, n
    <3> QED
      BY <1>2, <1>3, <1>6, <2>1, <3>1, <3>2
  <2>2. CASE j = n + 1 /\ i \in 1 .. n
    <3>1. vs[s[i]].from <= vs[s[n]].from
      BY <1>2, <2>2 DEF IsLineage, n
    <3>2. vs[s[i]].from <= e.from
      BY <1>2, <1>4, <1>5, <2>2, <3>1
    <3> QED
      BY <1>1, <1>2, <1>3, <1>6, <2>2, <3>2
  <2>3. CASE j = n + 1 /\ i = n + 1
    BY <1>1, <1>3, <2>3
  <2> QED
    BY <1>2, <2>1, <2>2, <2>3
<1>12. Len(t) - 1 = n
  BY <1>2, <1>3
<1>13. IsLineage(new, t)
  BY <1>3, <1>7, <1>8, <1>9, <1>10, <1>11, <1>12 DEF IsLineage
<1> QED
  BY <1>13 DEF new, t

-----------------------------------------------------------------------------
(* Chains.                                                                  *)

ChainStep(vs, chain) ==
    LET next == IF chain = None THEN None ELSE vs[chain[Len(chain)]].next
    IN  IF next = None THEN chain
        ELSE IF \/ next \notin DOMAIN vs
                \/ \E i \in 1 .. Len(chain) : chain[i] = next
        THEN None
        ELSE Append(chain, next)

IsFollow(f, vs, v, m) ==
    f = [n \in 0 .. m |-> IF n = 0 THEN <<v>> ELSE ChainStep(vs, f[n - 1])]

(* Following the links is a function of the version and the number of      *)
(* steps.                                                                  *)
LEMMA FollowUnique ==
    ASSUME NEW vs, NEW v, NEW m \in Nat, NEW f, NEW g,
           IsFollow(f, vs, v, m), IsFollow(g, vs, v, m), NEW n \in 0 .. m
    PROVE  f[n] = g[n]
<1> DEFINE T == {i \in Nat : i <= m /\ f[i] # g[i]}
<1> SUFFICES ASSUME T # {}
             PROVE  FALSE
  OBVIOUS
<1>1. PICK i \in T : \A j \in T : i <= j
  BY LeastElement
<1>2. \A j \in 0 .. m : f[j] = IF j = 0 THEN <<v>> ELSE ChainStep(vs, f[j - 1])
  BY DEF IsFollow
<1>3. \A j \in 0 .. m : g[j] = IF j = 0 THEN <<v>> ELSE ChainStep(vs, g[j - 1])
  BY DEF IsFollow
<1>4. i \in 0 .. m /\ i # 0 /\ f[i] # g[i]
  BY <1>1, <1>2, <1>3
<1>5. i - 1 \in Nat /\ i - 1 \notin T /\ i - 1 <= m
  BY <1>1, <1>4
<1>6. f[i - 1] = g[i - 1]
  BY <1>5
<1> QED
  BY <1>2, <1>3, <1>4, <1>6

(* SupersessionChain is as many steps as there are versions. *)
LEMMA ChainValue ==
    ASSUME NEW vs, NEW v, NEW m \in Nat, m = Cardinality(DOMAIN vs),
           NEW f, IsFollow(f, vs, v, m)
    PROVE  SupersessionChain(vs, v) = f[m]
<1> DEFINE follow == CHOOSE g : g = [n \in 0 .. Cardinality(DOMAIN vs) |->
                IF n = 0 THEN <<v>>
                ELSE LET chain == g[n - 1]
                         next  == IF chain = None THEN None ELSE vs[chain[Len(chain)]].next
                     IN  IF next = None THEN chain
                         ELSE IF \/ next \notin DOMAIN vs
                                 \/ \E i \in 1 .. Len(chain) : chain[i] = next
                         THEN None
                         ELSE Append(chain, next)]
<1>1. follow = CHOOSE g : IsFollow(g, vs, v, m)
  BY DEF IsFollow, ChainStep
<1>2. SupersessionChain(vs, v) = follow[m]
  BY DEF SupersessionChain
<1> HIDE DEF follow
<1>3. IsFollow(follow, vs, v, m)
  BY <1>1
<1> QED
  BY <1>2, <1>3, FollowUnique

(* A lineage holds each version once. *)
LEMMA LineageCardinality ==
    ASSUME NEW vs, NEW s, IsLineage(vs, s)
    PROVE  Cardinality(DOMAIN vs) = Len(s)
<1>1. Len(s) \in Nat /\ DOMAIN s = 1 .. Len(s) /\ s \in [1 .. Len(s) -> DOMAIN vs]
  BY LenProperties DEF IsLineage
<1>2. s \in Bijection(1 .. Len(s), DOMAIN vs)
  BY <1>1 DEF IsLineage, Bijection, Injection, Surjection, IsInjective
<1>3. ExistsBijection(1 .. Len(s), DOMAIN vs)
  BY <1>2 DEF ExistsBijection
<1>4. IsFiniteSet(1 .. Len(s)) /\ Cardinality(1 .. Len(s)) = Len(s)
  BY <1>1, FS_Interval
<1> QED
  BY <1>3, <1>4, FS_Bijection

(* One step along the links of a lineage, or none at its end. *)
LEMMA ChainStepExtends ==
    ASSUME NEW vs, NEW status, IsHistory(vs, status), NEW s, IsLineage(vs, s),
           NEW k \in 1 .. Len(s), NEW j \in k .. Len(s)
    PROVE  ChainStep(vs, SubSeq(s, k, j))
               = SubSeq(s, k, IF j < Len(s) THEN j + 1 ELSE j)
<1> DEFINE n == Len(s)
           chain == SubSeq(s, k, j)
<1>1. /\ n \in Nat \ {0} /\ \A i \in 1 .. n : s[i] \in DOMAIN vs
      /\ s \in Seq(DOMAIN vs) /\ k \in 1 .. n /\ j \in k .. n
  BY LineageLen DEF IsLineage
<1>2. DOMAIN vs \subseteq Nat
  BY VersionAssumption DEF IsHistory
<1> HIDE DEF n
<1>3. /\ chain \in Seq(DOMAIN vs) /\ Len(chain) = j - k + 1
      /\ \A i \in 1 .. j - k + 1 : chain[i] = s[k + i - 1]
  <2>1. k \in Int /\ j \in Int /\ k <= j /\ \A i \in k .. j : s[i] \in DOMAIN vs
    BY <1>1
  <2> QED
    BY <2>1, SubSeqProperties
<1>4. chain # None
  BY <1>2, <1>3, SeqMonotonic, NoChainAssumption
<1>5. chain[Len(chain)] = s[j]
  <2>1. j - k + 1 \in 1 .. j - k + 1 /\ k + (j - k + 1) - 1 = j
    BY <1>1
  <2> HIDE DEF chain
  <2> QED
    BY <1>3, <2>1
<1>6. CASE j = n
  <2>1. vs[s[j]].next = None
    BY <1>6 DEF IsLineage, n
  <2> HIDE DEF chain
  <2> QED
    BY <1>1, <1>4, <1>5, <1>6, <2>1 DEF ChainStep, n, chain
<1>7. CASE j # n
  <2>1. j \in 1 .. n - 1 /\ j + 1 \in 1 .. n
    BY <1>1, <1>7
  <2>2. vs[s[j]].next = s[j + 1] /\ s[j + 1] \in DOMAIN vs
    BY <1>1, <2>1 DEF IsLineage, n
  <2>3. s[j + 1] # None
    BY <1>2, <2>2, NoneAssumption
  <2>4. \A i \in 1 .. Len(chain) : chain[i] # s[j + 1]
    <3> SUFFICES ASSUME NEW i \in 1 .. j - k + 1, s[k + i - 1] = s[j + 1]
                 PROVE  FALSE
      BY <1>3
    <3>1. k + i - 1 \in 1 .. n /\ k + i - 1 # j + 1
      BY <1>1
    <3> QED
      BY <2>1, <3>1 DEF IsLineage, n
  <2>5. ChainStep(vs, chain) = Append(chain, s[j + 1])
    <3> HIDE DEF chain
    <3> QED
      BY <1>4, <1>5, <2>2, <2>3, <2>4 DEF ChainStep
  <2>6. SubSeq(s, k, j + 1) = Append(chain, s[j + 1])
    <3>1. j + 1 \in k .. n /\ k \in 1 .. n /\ (j + 1) - 1 = j
      BY <1>1, <2>1
    <3>2. SubSeq(s, k, j + 1) = SubSeq(s, k, (j + 1) - 1) \o <<s[j + 1]>>
      BY <1>1, <3>1, SubSeqRecursiveSecond DEF n
    <3>3. Append(chain, s[j + 1]) = chain \o <<s[j + 1]>>
      BY <1>3, <2>2, AppendIsConcat
    <3> QED
      BY <3>1, <3>2, <3>3
  <2>7. SubSeq(s, k, IF j < Len(s) THEN j + 1 ELSE j) = SubSeq(s, k, j + 1)
    BY <1>1, <1>7 DEF n
  <2> HIDE DEF chain
  <2> QED
    BY <2>5, <2>6, <2>7 DEF chain
<1> QED
  BY <1>6, <1>7

(* The chain from a version of a lineage is the rest of the lineage.        *)
LEMMA ChainFrom ==
    ASSUME NEW vs, NEW status, IsHistory(vs, status), NEW s, IsLineage(vs, s),
           NEW k \in 1 .. Len(s)
    PROVE  SupersessionChain(vs, s[k]) = SubSeq(s, k, Len(s))
<1> DEFINE n == Len(s)
           f == [i \in 0 .. n |-> SubSeq(s, k, IF k + i <= n THEN k + i ELSE n)]
<1>1. n \in Nat \ {0} /\ n = Cardinality(DOMAIN vs) /\ k \in 1 .. n
  BY LineageLen, LineageCardinality
<1>2. f[0] = <<s[k]>>
  <2>1. f[0] = SubSeq(s, k, k)
    BY <1>1
  <2>2. s \in Seq(DOMAIN vs) /\ k \in k .. n /\ k - 1 < k
    BY <1>1 DEF IsLineage
  <2>3. /\ SubSeq(s, k, k) \in Seq(DOMAIN vs) /\ Len(SubSeq(s, k, k)) = 1
        /\ SubSeq(s, k, k)[1] = s[k]
    <3>1. k \in Int /\ k <= k /\ k - k + 1 = 1 /\ 1 \in 1 .. 1 /\ k + 1 - 1 = k
          /\ \A i \in k .. k : s[i] \in DOMAIN vs
      BY <1>1, LineageLen
    <3> QED
      BY <3>1, SubSeqProperties
  <2>4. SubSeq(s, k, k) = <<s[k]>>
    <3>1. s[k] \in DOMAIN vs
      BY LineageLen
    <3>2. /\ <<s[k]>> \in Seq(DOMAIN vs) /\ Len(<<s[k]>>) = 1 /\ <<s[k]>>[1] = s[k]
      BY <3>1
    <3> DEFINE one == SubSeq(s, k, k)
               same == <<s[k]>>
    <3>3. /\ one \in Seq(DOMAIN vs) /\ Len(one) = 1 /\ one[1] = s[k]
          /\ same \in Seq(DOMAIN vs) /\ Len(same) = 1 /\ same[1] = s[k]
      BY <2>3, <3>2
    <3> HIDE DEF one, same
    <3>4. \A i \in 1 .. Len(one) : one[i] = same[i]
      BY <3>3
    <3>5. one = same
      BY <3>3, <3>4, SeqEqual
    <3> QED
      BY <3>5 DEF one, same
  <2> QED
    BY <2>1, <2>4
<1>3. \A i \in 1 .. n : f[i] = ChainStep(vs, f[i - 1])
  <2> SUFFICES ASSUME NEW i \in 1 .. n
               PROVE  f[i] = ChainStep(vs, f[i - 1])
    OBVIOUS
  <2> DEFINE last == IF k + (i - 1) <= n THEN k + (i - 1) ELSE n
  <2>1. last \in k .. n /\ i \in 0 .. n /\ i - 1 \in 0 .. n
    BY <1>1
  <2>2. f[i - 1] = SubSeq(s, k, last)
    BY <2>1
  <2>3. f[i] = SubSeq(s, k, IF last < n THEN last + 1 ELSE last)
    BY <1>1, <2>1
  <2> HIDE DEF f, last
  <2> QED
    BY <2>1, <2>2, <2>3, ChainStepExtends
<1>4. f[n] = SubSeq(s, k, n)
  BY <1>1
<1>5. IsFollow(f, vs, s[k], n)
  <2>1. f = [i \in 0 .. n |-> f[i]]
    OBVIOUS
  <2> HIDE DEF f
  <2>2. \A i \in 0 .. n : f[i] = IF i = 0 THEN <<s[k]>> ELSE ChainStep(vs, f[i - 1])
    BY <1>1, <1>2, <1>3
  <2> HIDE DEF n
  <2> QED
    BY <2>1, <2>2, Zenon DEF IsFollow
<1> HIDE DEF f, n
<1>6. SupersessionChain(vs, s[k]) = f[n]
  BY <1>1, <1>5, ChainValue
<1> QED
  BY <1>4, <1>6 DEF n

(* The lineage a reader reconstructs from the links is the one there is.    *)
LEMMA LineageFound ==
    ASSUME NEW vs, NEW status, IsHistory(vs, status), NEW s, IsLineage(vs, s)
    PROVE  Lineage(vs) = s
<1> DEFINE IsRoot(v) == \A w \in DOMAIN vs : vs[w].next # v
           root == CHOOSE v \in DOMAIN vs : IsRoot(v)
           n == Len(s)
<1>1. /\ n \in Nat \ {0} /\ \A i \in 1 .. n : s[i] \in DOMAIN vs
      /\ DOMAIN vs \subseteq Nat
  BY LineageLen, VersionAssumption DEF IsHistory
<1>2. IsRoot(s[1])
  <2> SUFFICES ASSUME NEW w \in DOMAIN vs, vs[w].next = s[1]
               PROVE  FALSE
    OBVIOUS
  <2>1. PICK i \in 1 .. n : s[i] = w
    BY DEF IsLineage
  <2>2. CASE i = n
    <3>1. s[1] = None
      BY <2>1, <2>2 DEF IsLineage
    <3> QED
      BY <1>1, <3>1, NoneAssumption
  <2>3. CASE i # n
    <3>1. i \in 1 .. n - 1 /\ i + 1 \in 1 .. n /\ 1 \in 1 .. n /\ i + 1 # 1
      BY <1>1, <2>3
    <3>2. s[i + 1] = s[1]
      BY <2>1, <3>1 DEF IsLineage
    <3> QED
      BY <3>1, <3>2 DEF IsLineage
  <2> QED
    BY <2>2, <2>3
<1>3. \A v \in DOMAIN vs : IsRoot(v) => v = s[1]
  <2> SUFFICES ASSUME NEW v \in DOMAIN vs, IsRoot(v), v # s[1]
               PROVE  FALSE
    OBVIOUS
  <2>1. PICK i \in 1 .. n : s[i] = v
    BY DEF IsLineage
  <2>2. i - 1 \in 1 .. n - 1 /\ i - 1 \in 1 .. n /\ (i - 1) + 1 = i
    BY <1>1, <2>1
  <2>3. vs[s[i - 1]].next = v
    BY <2>1, <2>2 DEF IsLineage
  <2> QED
    BY <1>1, <2>2, <2>3
<1>4. root = s[1]
  <2> HIDE DEF IsRoot
  <2>1. s[1] \in DOMAIN vs
    BY <1>1
  <2> QED
    BY <1>2, <1>3, <2>1
<1>5. Lineage(vs) = SupersessionChain(vs, root)
  BY DEF Lineage
<1> HIDE DEF root
<1>6. SupersessionChain(vs, s[1]) = SubSeq(s, 1, Len(s))
  BY <1>1, ChainFrom
<1>7. SubSeq(s, 1, Len(s)) = s
  BY SubSeqFull DEF IsLineage
<1> QED
  BY <1>4, <1>5, <1>6, <1>7

-----------------------------------------------------------------------------
(* Histories, of items and of services alike: a step leaves them, starts    *)
(* one or supersedes the last version of one.                              *)

LineagesKnown(hs) == \A id \in DOMAIN hs : IsLineage(hs[id], Lineage(hs[id]))

StartsHistory(hs, hsNext, Ids) ==
    \E id \in Ids, number \in Version : \E e :
        /\ id \notin DOMAIN hs
        /\ e.next = None /\ e.from \in Nat
        /\ hsNext = With(hs, id, [v \in {number} |-> e])

SupersedesLast(hs, hsNext, id, target, number, e) ==
    /\ target \in DOMAIN hs[id]
    /\ number \notin DOMAIN hs[id]
    /\ hs[id][target].next = None
    /\ e.next = None /\ e.from \in Nat /\ e.from >= hs[id][target].from
    /\ hsNext = [hs EXCEPT ![id] = Superseded(hs[id], target, number, e)]

ExtendsHistory(hs, hsNext) ==
    \E id \in DOMAIN hs, number \in Version :
        \E target, e : SupersedesLast(hs, hsNext, id, target, number, e)

HistoriesStep(hs, hsNext, Ids) ==
    \/ hsNext = hs
    \/ StartsHistory(hs, hsNext, Ids)
    \/ ExtendsHistory(hs, hsNext)

ItemHistories(st) == [id \in DOMAIN st.items |-> st.items[id].versions]

(* What a step of the store does to the histories of the items. *)
LEMMA ItemsStep ==
    ASSUME TypeOK, HistoriesLinear, [Next]_vars
    PROVE  HistoriesStep(ItemHistories(mem), ItemHistories(mem'), Identifier)
<1>1. CASE CreateItems \/ DepositModels
  <2>1. PICK id \in Identifier, number \in Version, w \in Window :
            \E class, manifest :
               /\ id \notin DOMAIN mem.items
               /\ mem' = Apply(mem, RegisterItemOp(id,
                             [class    |-> class,
                              versions |-> [v \in {number} |-> Entry("valid", w)],
                              manifest |-> manifest]))
    BY <1>1, RegistrationStep
  <2> DEFINE first == [v \in {number} |-> Entry("valid", w)]
  <2>2. PICK item : /\ id \notin DOMAIN mem.items
                    /\ item.versions = first
                    /\ mem' = Apply(mem, RegisterItemOp(id, item))
    BY <2>1
  <2>3. mem'.items = With(mem.items, id, item)
    BY <2>2, RegisterItemEffect DEF TypeOK
  <2> HIDE DEF first
  <2>4. ItemHistories(mem') = With(ItemHistories(mem), id, first)
    BY <2>2, <2>3 DEF ItemHistories, With
  <2>5. Entry("valid", w).next = None /\ Entry("valid", w).from \in Nat
    BY WindowAssumption DEF Entry
  <2>6. id \notin DOMAIN ItemHistories(mem)
    BY <2>2 DEF ItemHistories
  <2>7. StartsHistory(ItemHistories(mem), ItemHistories(mem'), Identifier)
    BY <2>4, <2>5, <2>6 DEF StartsHistory, first
  <2> QED
    BY <2>7 DEF HistoriesStep
<1>2. CASE SupersedeItems
  <2>1. PICK id \in DOMAIN mem.items, number \in Version, w \in Window :
            \E target \in DOMAIN mem.items[id].versions : \E manifest :
                /\ CanSupersede(mem, id, target, number, Entry("valid", w))
                /\ mem' = Apply(mem, SupersedeVersionOp(id, target, number,
                                                       Entry("valid", w), manifest))
    BY <1>2, SupersessionStep
  <2>2. PICK target \in DOMAIN mem.items[id].versions : \E manifest :
                /\ CanSupersede(mem, id, target, number, Entry("valid", w))
                /\ mem' = Apply(mem, SupersedeVersionOp(id, target, number,
                                                       Entry("valid", w), manifest))
    BY <2>1
  <2>3. PICK e : e = Entry("valid", w)
    OBVIOUS
  <2> DEFINE hs == ItemHistories(mem)
             vs == mem.items[id].versions
  <2>4. /\ DOMAIN mem'.items = DOMAIN mem.items
        /\ mem'.items[id].versions = Superseded(vs, target, number, e)
        /\ \A k \in DOMAIN mem.items \ {id} : mem'.items[k] = mem.items[k]
    BY <2>2, <2>3, SupersedeVersionEffect DEF TypeOK
  <2>5. number \notin DOMAIN vs /\ vs[target].status = "valid" /\ e.from >= vs[target].from
    BY <2>2, <2>3 DEF CanSupersede
  <2>6. vs[target].next = None
    BY <2>5 DEF HistoriesLinear, ItemHistoriesLinear, LinearHistory, ServingIsUnlinked
  <2>7. e.next = None /\ e.from \in Nat
    BY <2>3, WindowAssumption DEF Entry
  <2>8. DOMAIN hs = DOMAIN mem.items /\ hs[id] = vs
    BY DEF ItemHistories
  <2>9. ItemHistories(mem') = [hs EXCEPT ![id] = Superseded(vs, target, number, e)]
    BY <2>4, <2>8 DEF ItemHistories
  <2>10. target \in DOMAIN vs
    OBVIOUS
  <2> HIDE DEF hs, vs
  <2>11. SupersedesLast(hs, ItemHistories(mem'), id, target, number, e)
    BY <2>5, <2>6, <2>7, <2>8, <2>9, <2>10 DEF SupersedesLast
  <2>12. ExtendsHistory(hs, ItemHistories(mem'))
    BY <2>8, <2>11 DEF ExtendsHistory
  <2> QED
    BY <2>12 DEF HistoriesStep, hs
<1>3. CASE UpdateModelValidations
  <2>1. PICK id \in Identifier, version \in Version, validation \in ValidationStatus :
            mem' = Apply(mem, UpdateModelValidationOp(id, version, validation))
    BY <1>3, ValidationStep
  <2>2. /\ DOMAIN mem'.items = DOMAIN mem.items
        /\ \A k \in DOMAIN mem.items : mem'.items[k].versions = mem.items[k].versions
    BY <2>1, UpdateModelValidationEffect DEF TypeOK
  <2> QED
    BY <2>2 DEF HistoriesStep, ItemHistories
<1>4. CASE mem'.items = mem.items
  BY <1>4 DEF HistoriesStep, ItemHistories
<1>5. CASE BindApplicabilities
  BY <1>4, <1>5, BindEffect
<1>6. CASE CreateServices \/ SupersedeServices \/ RegisterDescriptors
  BY <1>4, <1>6, OtherStep
<1>7. CASE UNCHANGED vars
  BY <1>4, <1>7 DEF vars
<1> QED
  BY <1>1, <1>2, <1>3, <1>5, <1>6, <1>7 DEF Next

(* And to those of the services. *)
LEMMA ServicesStep ==
    ASSUME TypeOK, ServicesOrdered(mem), [Next]_vars
    PROVE  HistoriesStep(mem.services, mem'.services, ServiceId)
<1>1. CASE CreateServices
  <2>1. PICK id \in ServiceId, number \in Version, w \in Window, status \in ServiceStatus :
            CreateService(id, number, w, status)
    BY <1>1 DEF CreateServices
  <2> DEFINE first == [v \in {number} |-> Entry(status, w)]
  <2>2. id \notin DOMAIN mem.services /\ mem' = Apply(mem, RegisterServiceOp(id, first))
    BY <2>1 DEF CreateService, Record, CanRegisterService
  <2> HIDE DEF first
  <2>3. mem'.services = With(mem.services, id, first)
    BY <2>2, RegisterServiceEffect DEF TypeOK
  <2>4. Entry(status, w).next = None /\ Entry(status, w).from \in Nat
    BY WindowAssumption DEF Entry
  <2>5. StartsHistory(mem.services, mem'.services, ServiceId)
    BY <2>2, <2>3, <2>4 DEF StartsHistory, first
  <2> QED
    BY <2>5 DEF HistoriesStep
<1>2. CASE SupersedeServices
  <2>1. PICK id \in DOMAIN mem.services, target \in Version, number \in Version,
             e \in EntryOf(ServiceStatus) : SupersedesService(id, target, number, e)
    BY <1>2, ServiceSupersession
  <2>2. mem.services[id][target].next = None
    BY <2>1 DEF SupersedesService, ServicesOrdered, ServiceHistory, Serving
  <2>3. SupersedesLast(mem.services, mem'.services, id, target, number, e)
    BY <2>1, <2>2 DEF SupersedesLast, SupersedesService
  <2>4. ExtendsHistory(mem.services, mem'.services)
    BY <2>3 DEF ExtendsHistory
  <2> QED
    BY <2>4 DEF HistoriesStep
<1>3. CASE mem'.services = mem.services
  BY <1>3 DEF HistoriesStep
<1> QED
  BY <1>1, <1>2, <1>3, ServicesFrame DEF vars

(* Such a step keeps the lineages, and is a step of a linear register.      *)
LEMMA StartedLineage ==
    ASSUME NEW id, NEW number \in Version, NEW e, NEW status, e.next = None, e.from \in Nat,
           IsHistory([v \in {number} |-> e], status)
    PROVE  LET vs == [v \in {number} |-> e]
           IN  Lineage(vs) = <<number>> /\ IsLineage(vs, Lineage(vs))
<1> DEFINE vs == [v \in {number} |-> e]
<1>1. IsLineage(vs, <<number>>)
  BY FirstLineage
<1> HIDE DEF vs
<1>2. Lineage(vs) = <<number>>
  BY <1>1, LineageFound DEF vs
<1> QED
  BY <1>1, <1>2 DEF vs

(* The same extension, of the lineage the refinement reads. *)
LEMMA ExtendedLineage ==
    ASSUME NEW vs, NEW status, IsHistory(vs, status), IsLineage(vs, Lineage(vs)),
           NEW target \in DOMAIN vs, vs[target].next = None,
           NEW number \in Version, number \notin DOMAIN vs,
           NEW e, e.next = None, e.from \in Nat, e.from >= vs[target].from,
           NEW new, new = Superseded(vs, target, number, e), IsHistory(new, status)
    PROVE  /\ Lineage(new) = Append(Lineage(vs), number)
           /\ IsLineage(new, Lineage(new))
           /\ \A i \in DOMAIN Lineage(vs) : Lineage(vs)[i] # number
<1>1. IsLineage(new, Append(Lineage(vs), number))
  BY SupersededLineage
<1>2. Lineage(new) = Append(Lineage(vs), number)
  BY <1>1, LineageFound
<1>3. \A i \in DOMAIN Lineage(vs) : Lineage(vs)[i] \in DOMAIN vs
  BY LineageLen
<1> QED
  BY <1>1, <1>2, <1>3

Lineages(hs) == [id \in DOMAIN hs |-> Lineage(hs[id])]

(* The steps of LinearRegister, of a register that does nothing included.   *)
RegisterStep(history, historyNext, Ids) ==
    \/ historyNext = history
    \/ \E id \in Ids, number \in Version :
          /\ id \notin DOMAIN history
          /\ historyNext = With(history, id, <<number>>)
    \/ \E id \in Ids, number \in Version :
          /\ id \in DOMAIN history
          /\ \A i \in DOMAIN history[id] : history[id][i] # number
          /\ historyNext = [history EXCEPT ![id] = Append(history[id], number)]

(* A step of the histories is a step of the register. *)
LEMMA LineagesStep ==
    ASSUME NEW hs, NEW hsNext, NEW Ids, NEW status, HistoriesStep(hs, hsNext, Ids),
           \A id \in DOMAIN hs : IsHistory(hs[id], status),
           \A id \in DOMAIN hsNext : IsHistory(hsNext[id], status),
           LineagesKnown(hs), DOMAIN hs \subseteq Ids
    PROVE  /\ LineagesKnown(hsNext)
           /\ RegisterStep(Lineages(hs), Lineages(hsNext), Ids)
<1>1. CASE hsNext = hs
  BY <1>1 DEF RegisterStep
<1>2. CASE StartsHistory(hs, hsNext, Ids)
  <2>1. PICK id \in Ids, number \in Version : \E e :
            /\ id \notin DOMAIN hs
            /\ e.next = None /\ e.from \in Nat
            /\ hsNext = With(hs, id, [v \in {number} |-> e])
    BY <1>2 DEF StartsHistory
  <2>2. PICK e : /\ id \notin DOMAIN hs
                 /\ e.next = None /\ e.from \in Nat
                 /\ hsNext = With(hs, id, [v \in {number} |-> e])
    BY <2>1
  <2> DEFINE vs == [v \in {number} |-> e]
  <2>3. /\ DOMAIN hsNext = DOMAIN hs \cup {id}
        /\ hsNext[id] = vs
        /\ \A k \in DOMAIN hs : hsNext[k] = hs[k]
    BY <2>2 DEF With
  <2>4. IsHistory(vs, status)
    <3> HIDE DEF vs
    <3> QED
      BY <2>3
  <2>5. Lineage(vs) = <<number>> /\ IsLineage(vs, Lineage(vs))
    BY <2>2, <2>4, StartedLineage
  <2> HIDE DEF vs
  <2>6. LineagesKnown(hsNext)
    BY <2>3, <2>5 DEF LineagesKnown
  <2>7. Lineages(hsNext) = With(Lineages(hs), id, <<number>>)
    BY <2>2, <2>3, <2>5 DEF Lineages, With
  <2>8. id \notin DOMAIN Lineages(hs)
    BY <2>2 DEF Lineages
  <2> QED
    BY <2>6, <2>7, <2>8 DEF RegisterStep
<1>3. CASE ExtendsHistory(hs, hsNext)
  <2>1. PICK id \in DOMAIN hs, number \in Version :
            \E target, e : SupersedesLast(hs, hsNext, id, target, number, e)
    BY <1>3 DEF ExtendsHistory
  <2>2. PICK target, e : SupersedesLast(hs, hsNext, id, target, number, e)
    BY <2>1
  <2>3. /\ target \in DOMAIN hs[id]
        /\ number \notin DOMAIN hs[id]
        /\ hs[id][target].next = None
        /\ e.next = None /\ e.from \in Nat /\ e.from >= hs[id][target].from
        /\ hsNext = [hs EXCEPT ![id] = Superseded(hs[id], target, number, e)]
    BY <2>2 DEF SupersedesLast
  <2>4. PICK new : new = Superseded(hs[id], target, number, e)
    OBVIOUS
  <2>5. /\ DOMAIN hsNext = DOMAIN hs
        /\ hsNext[id] = new
        /\ \A k \in DOMAIN hs \ {id} : hsNext[k] = hs[k]
    BY <2>3, <2>4
  <2>6. IsHistory(hs[id], status) /\ IsHistory(new, status) /\ IsLineage(hs[id], Lineage(hs[id]))
    BY <2>5 DEF LineagesKnown
  <2>7. /\ Lineage(new) = Append(Lineage(hs[id]), number)
        /\ IsLineage(new, Lineage(new))
        /\ \A i \in DOMAIN Lineage(hs[id]) : Lineage(hs[id])[i] # number
    BY <2>3, <2>4, <2>6, ExtendedLineage
  <2>8. LineagesKnown(hsNext)
    BY <2>5, <2>7 DEF LineagesKnown
  <2>9. Lineages(hs)[id] = Lineage(hs[id]) /\ id \in DOMAIN Lineages(hs) /\ id \in Ids
    BY DEF Lineages
  <2>10. Lineages(hsNext) = [Lineages(hs) EXCEPT ![id] = Append(Lineages(hs)[id], number)]
    BY <2>5, <2>7, <2>9 DEF Lineages
  <2> QED
    BY <2>7, <2>8, <2>9, <2>10 DEF RegisterStep
<1> QED
  BY <1>1, <1>2, <1>3 DEF HistoriesStep

-----------------------------------------------------------------------------
(* The inductive invariant: what the links of a history spell is a lineage. *)
LineagesSound == /\ LineagesKnown(ItemHistories(mem))
                 /\ LineagesKnown(mem.services)

(* The histories of a store are histories. *)
LEMMA HistoriesTyped ==
    ASSUME NEW st, IsStore(st)
    PROVE  /\ DOMAIN ItemHistories(st) = DOMAIN st.items
           /\ DOMAIN ItemHistories(st) \subseteq Identifier
           /\ \A id \in DOMAIN ItemHistories(st) : IsHistory(ItemHistories(st)[id], ItemStatus)
           /\ DOMAIN st.services \subseteq ServiceId
           /\ \A id \in DOMAIN st.services : IsHistory(st.services[id], ServiceStatus)
BY DEF IsStore, IsItem, ItemHistories

(* Every step of the store keeps the lineages. *)
LEMMA LineagesInductive ==
    TypeOK /\ HistoriesLinear /\ ServicesOrdered(mem) /\ LineagesSound /\ [Next]_vars
        => LineagesSound'
<1> SUFFICES ASSUME TypeOK, HistoriesLinear, ServicesOrdered(mem), LineagesSound, [Next]_vars
             PROVE  LineagesKnown(ItemHistories(mem')) /\ LineagesKnown(mem'.services)
  BY DEF LineagesSound
<1>1. IsStore(mem) /\ IsStore(mem')
  BY TypeInductive DEF TypeOK
<1>2. LineagesKnown(ItemHistories(mem'))
  BY <1>1, ItemsStep, HistoriesTyped, LineagesStep DEF LineagesSound
<1>3. LineagesKnown(mem'.services)
  BY <1>1, ServicesStep, HistoriesTyped, LineagesStep DEF LineagesSound
<1> QED
  BY <1>2, <1>3

(* In every reachable state the links of each history spell a lineage. *)
LEMMA LineagesStaySound == Spec => []LineagesSound
<1>1. Init => LineagesSound
  BY DEF Init, EmptyStore, LineagesSound, LineagesKnown, ItemHistories
<1> QED
  BY <1>1, LineagesInductive, TypeCorrect, LinearHistories, ServicesStayOrdered, PTL DEF Spec

(* The links of the items, read by GET /items/{id}/supersession, are a      *)
(* linear register: each accepted request leaves them alone, starts one     *)
(* history or extends one at its end (Store::register_item, supersede).     *)
THEOREM ItemsImplementRegister == Spec => ItemsAreLinear
<1> DEFINE history == [id \in DOMAIN mem.items |-> Lineage(mem.items[id].versions)]
<1>1. Init => history = << >>
  BY DEF Init, EmptyStore
<1>2. TypeOK /\ TypeOK' /\ HistoriesLinear /\ LineagesSound /\ [Next]_vars
          => [ItemRegister!Next]_history
  <2> SUFFICES ASSUME TypeOK, TypeOK', HistoriesLinear, LineagesSound, [Next]_vars
               PROVE  [ItemRegister!Next]_history
    OBVIOUS
  <2>1. IsStore(mem) /\ IsStore(mem')
    BY DEF TypeOK
  <2>2. history = Lineages(ItemHistories(mem)) /\ history' = Lineages(ItemHistories(mem'))
    BY DEF Lineages, ItemHistories
  <2>3. RegisterStep(history, history', Identifier)
    <3> HIDE DEF history
    <3> QED
      BY <2>1, <2>2, ItemsStep, HistoriesTyped, LineagesStep DEF LineagesSound
  <2> QED
    BY <2>3 DEF RegisterStep, ItemRegister!Next, ItemRegister!Start, ItemRegister!Extend, With
<1> QED
  BY <1>1, <1>2, TypeCorrect, LinearHistories, LineagesStaySound, PTL
     DEF Spec, ItemsAreLinear, ItemRegister!Spec, ItemRegister!Init

(* The same of the services (Store::register_service, supersede_service).   *)
THEOREM ServicesImplementRegister == Spec => ServicesAreLinear
<1> DEFINE history == [id \in DOMAIN mem.services |-> Lineage(mem.services[id])]
<1>1. Init => history = << >>
  BY DEF Init, EmptyStore
<1>2. TypeOK /\ TypeOK' /\ ServicesOrdered(mem) /\ LineagesSound /\ [Next]_vars
          => [ServiceRegister!Next]_history
  <2> SUFFICES ASSUME TypeOK, TypeOK', ServicesOrdered(mem), LineagesSound, [Next]_vars
               PROVE  [ServiceRegister!Next]_history
    OBVIOUS
  <2>1. IsStore(mem) /\ IsStore(mem')
    BY DEF TypeOK
  <2>2. history = Lineages(mem.services) /\ history' = Lineages(mem'.services)
    BY DEF Lineages
  <2>3. RegisterStep(history, history', ServiceId)
    <3> HIDE DEF history
    <3> QED
      BY <2>1, <2>2, ServicesStep, HistoriesTyped, LineagesStep DEF LineagesSound
  <2> QED
    BY <2>3 DEF RegisterStep, ServiceRegister!Next, ServiceRegister!Start, ServiceRegister!Extend, With
<1> QED
  BY <1>1, <1>2, TypeCorrect, ServicesStayOrdered, LineagesStaySound, PTL
     DEF Spec, ServicesAreLinear, ServiceRegister!Spec, ServiceRegister!Init

-----------------------------------------------------------------------------
(* Chains and current versions.                                             *)

(* The last version of a lineage is the current one. *)
LEMMA LastIsCurrent ==
    ASSUME NEW vs, LinearHistory(vs, "valid"), NEW s, IsLineage(vs, s)
    PROVE  CurrentVersion(vs, "valid") = s[Len(s)]
<1>1. Len(s) \in 1 .. Len(s) /\ s[Len(s)] \in DOMAIN vs /\ vs[s[Len(s)]].next = None
  BY LineageLen DEF IsLineage
<1>2. vs[s[Len(s)]].status = "valid"
  BY <1>1 DEF LinearHistory, ServingIsUnlinked
<1>3. PICK v \in DOMAIN vs : Serving(vs, "valid") = {v}
  BY DEF LinearHistory, OneServing
<1>4. v = s[Len(s)]
  BY <1>1, <1>2, <1>3 DEF Serving
<1> QED
  BY <1>3, <1>4 DEF CurrentVersion, LastOf

(* The chain from any version of a lineage is the rest of the lineage. *)
LEMMA ChainsOfLineage ==
    ASSUME NEW vs, IsHistory(vs, ItemStatus), LinearHistory(vs, "valid"),
           NEW s, IsLineage(vs, s)
    PROVE  ChainsEndAtCurrent(vs, "valid")
<1> SUFFICES ASSUME NEW v \in DOMAIN vs
             PROVE  LET chain == SupersessionChain(vs, v)
                    IN  chain # None /\ chain[Len(chain)] = CurrentVersion(vs, "valid")
  BY DEF ChainsEndAtCurrent
<1> DEFINE n == Len(s)
<1>1. /\ n \in Nat \ {0} /\ \A i \in 1 .. n : s[i] \in DOMAIN vs
      /\ DOMAIN vs \subseteq Nat
  BY LineageLen, VersionAssumption DEF IsHistory
<1>2. PICK k \in 1 .. n : s[k] = v
  BY DEF IsLineage
<1> DEFINE chain == SubSeq(s, k, n)
<1>3. SupersessionChain(vs, v) = chain
  BY <1>2, ChainFrom
<1>4. /\ chain \in Seq(DOMAIN vs) /\ Len(chain) = n - k + 1
      /\ \A i \in 1 .. n - k + 1 : chain[i] = s[k + i - 1]
  <2>1. k \in Int /\ n \in Int /\ k <= n /\ \A i \in k .. n : s[i] \in DOMAIN vs
    BY <1>1
  <2> HIDE DEF n
  <2> QED
    BY <2>1, SubSeqProperties
<1>5. n - k + 1 \in 1 .. n - k + 1 /\ k + (n - k + 1) - 1 = n
  BY <1>1
<1> HIDE DEF chain, n
<1>6. chain[Len(chain)] = s[n]
  BY <1>4, <1>5
<1>7. chain # None
  BY <1>1, <1>4, SeqMonotonic, NoChainAssumption
<1> QED
  BY <1>3, <1>6, <1>7, LastIsCurrent DEF n

(* GET /items/{id}/supersession answers from every version of every item,   *)
(* without meeting a broken link or a cycle, and ends at the version        *)
(* GET /items/{id} shows as current (Item::supersession_chain).             *)
THEOREM ChainsReach == Spec => []ChainsReachCurrent
<1>1. TypeOK /\ HistoriesLinear /\ LineagesSound => ChainsReachCurrent
  <2> SUFFICES ASSUME TypeOK, HistoriesLinear, LineagesSound, NEW id \in DOMAIN mem.items
               PROVE  ChainsEndAtCurrent(mem.items[id].versions, "valid")
    BY DEF ChainsReachCurrent, ItemChainsEndAtCurrent
  <2> DEFINE vs == mem.items[id].versions
  <2>1. IsHistory(vs, ItemStatus) /\ LinearHistory(vs, "valid")
    BY DEF TypeOK, IsStore, IsItem, HistoriesLinear, ItemHistoriesLinear
  <2>2. IsLineage(vs, Lineage(vs))
    BY DEF LineagesSound, LineagesKnown, ItemHistories
  <2> HIDE DEF vs
  <2> QED
    BY <2>1, <2>2, ChainsOfLineage DEF vs
<1> QED
  BY <1>1, TypeCorrect, LinearHistories, LineagesStaySound, PTL

-----------------------------------------------------------------------------
(* Windows.                                                                 *)

(* Without explicit ends, the window of each version of a lineage ends      *)
(* where the next begins: at every instant since the first start exactly    *)
(* one is open.                                                             *)
LEMMA OneWindowOpen ==
    ASSUME NEW vs, NEW status, IsHistory(vs, status), NEW s, IsLineage(vs, s),
           \A v \in DOMAIN vs : vs[v].until = None,
           NEW t \in Nat, \E v \in DOMAIN vs : vs[v].from <= t
    PROVE  \E k \in 1 .. Len(s) :
              /\ {v \in DOMAIN vs : Covers(vs[v].from, WindowUntil(vs, v), t)} = {s[k]}
              /\ (\A v \in DOMAIN vs : vs[v].from <= t) => k = Len(s)
<1> DEFINE n == Len(s)
           T == {i \in 1 .. n : vs[s[i]].from > t}
           Open == {v \in DOMAIN vs : Covers(vs[v].from, WindowUntil(vs, v), t)}
<1>1. /\ n \in Nat \ {0} /\ \A i \in 1 .. n : s[i] \in DOMAIN vs
      /\ DOMAIN vs \subseteq Nat
      /\ \A v \in DOMAIN vs : vs[v].from \in Nat
  BY LineageLen, VersionAssumption DEF IsHistory, EntryOf
<1>2. \A i, j \in 1 .. n : i <= j => vs[s[i]].from <= vs[s[j]].from
  BY DEF IsLineage
<1>3. \A v \in DOMAIN vs : \E i \in 1 .. n : s[i] = v
  BY DEF IsLineage
<1>4. \A i \in 1 .. n - 1 : WindowUntil(vs, s[i]) = vs[s[i + 1]].from
  <2> SUFFICES ASSUME NEW i \in 1 .. n - 1
               PROVE  WindowUntil(vs, s[i]) = vs[s[i + 1]].from
    OBVIOUS
  <2>1. i \in 1 .. n /\ i + 1 \in 1 .. n
    BY <1>1
  <2>2. vs[s[i]].next = s[i + 1] /\ s[i + 1] \in DOMAIN vs /\ vs[s[i]].until = None
    BY <1>1, <2>1 DEF IsLineage
  <2> QED
    BY <2>2 DEF WindowUntil
<1>5. WindowUntil(vs, s[n]) = None
  <2>1. vs[s[n]].next = None /\ s[n] \in DOMAIN vs
    BY <1>1 DEF IsLineage
  <2>2. vs[s[n]].until = None /\ None \notin DOMAIN vs
    BY <1>1, <2>1, NoneAssumption
  <2> QED
    BY <2>1, <2>2 DEF WindowUntil
<1>6. \E k \in 1 .. n : /\ \A i \in 1 .. k : vs[s[i]].from <= t
                        /\ \A i \in k + 1 .. n : vs[s[i]].from > t
  <2>1. CASE T = {}
    <3>1. \A i \in 1 .. n : vs[s[i]].from <= t
      BY <1>1, <2>1
    <3>2. n \in 1 .. n /\ \A i \in n + 1 .. n : FALSE
      BY <1>1
    <3> HIDE DEF n
    <3> QED
      BY <3>1, <3>2
  <2>2. CASE T # {}
    <3>1. T \subseteq Nat
      BY <1>1
    <3>2. PICK m \in T : \A i \in T : m <= i
      BY <2>2, <3>1, LeastElement
    <3>3. PICK v \in DOMAIN vs : vs[v].from <= t
      OBVIOUS
    <3>4. PICK j \in 1 .. n : s[j] = v
      BY <1>3
    <3>5. m # 1
      <4>1. 1 <= j /\ 1 \in 1 .. n /\ s[1] \in DOMAIN vs
        BY <1>1
      <4>2. vs[s[1]].from <= vs[s[j]].from
        BY <1>2, <4>1
      <4>3. vs[s[1]].from <= t
        BY <1>1, <3>3, <3>4, <4>1, <4>2
      <4> QED
        BY <1>1, <4>1, <4>3
    <3>6. m \in 1 .. n /\ m - 1 \in 1 .. n /\ vs[s[m]].from > t
      BY <1>1, <3>5
    <3>7. \A i \in 1 .. m - 1 : vs[s[i]].from <= t
      <4> SUFFICES ASSUME NEW i \in 1 .. m - 1
                   PROVE  vs[s[i]].from <= t
        OBVIOUS
      <4>1. i \in 1 .. n /\ i < m
        BY <3>6
      <4>2. i \notin T
        BY <3>2, <4>1
      <4> QED
        BY <1>1, <4>1, <4>2
    <3>8. \A i \in (m - 1) + 1 .. n : vs[s[i]].from > t
      <4> SUFFICES ASSUME NEW i \in (m - 1) + 1 .. n
                   PROVE  vs[s[i]].from > t
        OBVIOUS
      <4>1. i \in 1 .. n /\ m <= i
        BY <3>6
      <4>2. vs[s[m]].from <= vs[s[i]].from
        BY <1>2, <3>6, <4>1
      <4>3. vs[s[m]].from \in Nat /\ vs[s[i]].from \in Nat
        BY <1>1, <3>6, <4>1
      <4> QED
        BY <3>6, <4>2, <4>3
    <3> QED
      BY <3>6, <3>7, <3>8
  <2> QED
    BY <2>1, <2>2
<1>7. PICK k \in 1 .. n : /\ \A i \in 1 .. k : vs[s[i]].from <= t
                          /\ \A i \in k + 1 .. n : vs[s[i]].from > t
  BY <1>6
<1>8. Open \subseteq {s[k]}
  <2> SUFFICES ASSUME NEW v \in DOMAIN vs, Covers(vs[v].from, WindowUntil(vs, v), t)
               PROVE  v = s[k]
    OBVIOUS
  <2>1. PICK i \in 1 .. n : s[i] = v
    BY <1>3
  <2>2. CASE i < k
    <3>1. i \in 1 .. n - 1 /\ i + 1 \in 1 .. k /\ i + 1 \in 1 .. n
      BY <1>1, <2>2
    <3>2. vs[s[i + 1]].from <= t /\ WindowUntil(vs, v) = vs[s[i + 1]].from
      BY <1>4, <1>7, <2>1, <3>1
    <3>3. vs[s[i + 1]].from \in Nat /\ vs[s[i + 1]].from # None
      BY <1>1, <3>1, NoneAssumption
    <3> QED
      BY <3>2, <3>3 DEF Covers
  <2>3. CASE k < i
    <3>1. i \in k + 1 .. n
      BY <2>3
    <3>2. vs[v].from > t
      BY <1>7, <2>1, <3>1
    <3> QED
      BY <1>1, <3>2 DEF Covers
  <2> QED
    BY <2>1, <2>2, <2>3
<1>9. s[k] \in Open
  <2>1. s[k] \in DOMAIN vs /\ vs[s[k]].from <= t
    BY <1>1, <1>7
  <2>2. CASE k = n
    BY <1>5, <2>1, <2>2 DEF Covers
  <2>3. CASE k # n
    <3>1. k \in 1 .. n - 1 /\ k + 1 \in k + 1 .. n
      BY <1>1, <2>3
    <3>2. WindowUntil(vs, s[k]) = vs[s[k + 1]].from /\ vs[s[k + 1]].from > t
      BY <1>4, <1>7, <3>1
    <3>3. vs[s[k + 1]].from \in Nat
      BY <1>1, <3>1
    <3> QED
      BY <2>1, <3>2, <3>3 DEF Covers
  <2> QED
    BY <2>2, <2>3
<1>10. Open = {s[k]}
  BY <1>8, <1>9
<1>11. ASSUME \A v \in DOMAIN vs : vs[v].from <= t, k # n
       PROVE  FALSE
  <2>1. n \in k + 1 .. n /\ s[n] \in DOMAIN vs
    BY <1>1, <1>11
  <2>2. vs[s[n]].from > t /\ vs[s[n]].from <= t
    BY <1>7, <1>11, <2>1
  <2> QED
    BY <1>1, <2>1, <2>2
<1> QED
  BY <1>10, <1>11

(* Along a lineage starts never fall, so that derived windows follow each  *)
(* other without a gap.                                                    *)
LEMMA WindowsOfLineage ==
    ASSUME NEW vs, IsHistory(vs, ItemStatus), LinearHistory(vs, "valid"),
           NEW s, IsLineage(vs, s)
    PROVE  DerivedWindowsPartition(vs, "valid")
<1> SUFFICES ASSUME \A v \in DOMAIN vs : vs[v].until = None,
                    NEW first \in DOMAIN vs, NEW t, t = vs[first].from
             PROVE  /\ {v \in DOMAIN vs : Covers(vs[v].from, WindowUntil(vs, v), t)}
                           = {ItemInForceAt(vs, t)}
                    /\ (\A v \in DOMAIN vs : vs[v].from <= t) =>
                           ItemInForceAt(vs, t) = CurrentVersion(vs, "valid")
  BY DEF DerivedWindowsPartition
<1> DEFINE Open == {v \in DOMAIN vs : Covers(vs[v].from, WindowUntil(vs, v), t)}
<1>1. t \in Nat /\ vs[first].from <= t
  BY DEF IsHistory, EntryOf
<1>2. PICK k \in 1 .. Len(s) : /\ Open = {s[k]}
                               /\ (\A v \in DOMAIN vs : vs[v].from <= t) => k = Len(s)
  BY <1>1, OneWindowOpen
<1>3. ItemInForceAt(vs, t) = LastOf(vs, Open)
  BY DEF ItemInForceAt
<1> HIDE DEF Open
<1>4. ItemInForceAt(vs, t) = s[k]
  BY <1>2, <1>3 DEF LastOf
<1>5. CurrentVersion(vs, "valid") = s[Len(s)]
  BY LastIsCurrent
<1> QED
  BY <1>2, <1>4, <1>5 DEF Open

(* A point-in-time read of an item without explicit ends: at each start     *)
(* exactly one version is in force, it is the one GET /items/{id}?at=       *)
(* shows, and from the latest start on it is the current version            *)
(* (Item::window_until, Item::in_force_at).                                 *)
THEOREM WindowsPartitionTime == Spec => []WindowsPartition
<1>1. TypeOK /\ HistoriesLinear /\ LineagesSound => WindowsPartition
  <2> SUFFICES ASSUME TypeOK, HistoriesLinear, LineagesSound, NEW id \in DOMAIN mem.items
               PROVE  DerivedWindowsPartition(mem.items[id].versions, "valid")
    BY DEF WindowsPartition, ItemWindowsPartition
  <2> DEFINE vs == mem.items[id].versions
  <2>1. IsHistory(vs, ItemStatus) /\ LinearHistory(vs, "valid")
    BY DEF TypeOK, IsStore, IsItem, HistoriesLinear, ItemHistoriesLinear
  <2>2. IsLineage(vs, Lineage(vs))
    BY DEF LineagesSound, LineagesKnown, ItemHistories
  <2> HIDE DEF vs
  <2> QED
    BY <2>1, <2>2, WindowsOfLineage DEF vs
<1> QED
  BY <1>1, TypeCorrect, LinearHistories, LineagesStaySound, PTL
=============================================================================
