------------------------ MODULE ModelValidationProofs ------------------------
(***************************************************************************)
(* Validations beside deposits and supersessions (ModelValidation.tla): they *)
(* implement the store; the outcome of a validation can always be recorded,  *)
(* however long the tool runs; and on a model nobody superseded the status   *)
(* is the verdict on its source, however many validations overlap.           *)
(***************************************************************************)
EXTENDS ModelValidation, RegistryStoreProofs

-----------------------------------------------------------------------------
(* The inductive invariant.  What a running validation holds is still there, *)
(* and on a model nobody superseded it is still the source.                 *)
IsDeposited(item) == item.manifest # None /\ item.manifest.express # None

HasOneVersion(item) == \E v \in Version : DOMAIN item.versions = {v}

HoldsSource(item, h) ==
    /\ item.class = "model"
    /\ h.version \in DOMAIN item.versions
    /\ h.source \in Source
    /\ HasOneVersion(item) => /\ IsDeposited(item)
                              /\ item.manifest.express.source = h.source

IsTruthful(item) ==
    HasOneVersion(item) /\ IsDeposited(item) =>
        item.manifest.express.validation \in Outcomes(item.manifest.express.source)

RequestsTyped ==
    /\ pc \in [Validator -> {"idle", "validating", "answered"}]
    /\ held \in [Validator -> {held[r] : r \in Validator}]

SourcesHeld ==
    \A r \in Validator : pc[r] = "validating" =>
        /\ held[r].id \in DOMAIN mem.items
        /\ HoldsSource(mem.items[held[r].id], held[r])

StatusesTruthful == \A id \in DOMAIN mem.items : IsTruthful(mem.items[id])

ModelsInv == /\ TypeOK
             /\ HistoriesLinear
             /\ RequestsTyped
             /\ SourcesHeld
             /\ StatusesTruthful

-----------------------------------------------------------------------------
(* A step of the handlers is one of the store, or none.                     *)

LEMMA DepositImplements == Deposit => DepositModels
<1> SUFFICES ASSUME NEW id \in Identifier, NEW number \in Version, NEW w \in Window,
                    NEW source \in Source, NEW validation \in Outcomes(source),
                    DepositModel(id, number, w, source, validation)
             PROVE  DepositModels
  BY DEF Deposit
<1>1. validation \in ValidationStatus
  BY VerdictAssumption DEF Outcomes, ValidationStatus
<1> QED
  BY <1>1, ModelClassAssumption DEF DepositModels

LEMMA SupersedeImplements == Supersede => SupersedeItems
<1> SUFFICES ASSUME NEW id \in DOMAIN mem.items, NEW number \in Version, NEW w \in Window,
                    NEW target \in DOMAIN mem.items[id].versions, NEW manifest,
                    SupersedeItem(id, target, number, w, manifest)
             PROVE  SupersedeItems
  BY DEF Supersede
<1>1. manifest \in NextManifests(mem.items[id], number)
  BY DEF SupersedeItem
<1> QED
  BY <1>1 DEF SupersedeItems

(* What a request holds can be recorded, so the error is never answered.     *)
LEMMA HeldRecordable ==
    ASSUME ModelsInv, NEW r \in Validator, pc[r] = "validating"
    PROVE  CanUpdateModelValidation(mem, held[r].id, held[r].version)
BY DEF ModelsInv, SourcesHeld, HoldsSource, CanUpdateModelValidation

LEMMA OutcomeIsRecorded ==
    ASSUME ModelsInv, NEW r \in Validator, RecordOutcome(r)
    PROVE  \E validation \in Outcomes(held[r].source) :
               UpdateModelValidation(held[r].id, held[r].version, validation)
BY HeldRecordable DEF RecordOutcome

(* The outcome a request records is of the item and version it read.        *)
LEMMA OutcomeImplements ==
    ASSUME ModelsInv, NEW r \in Validator, RecordOutcome(r)
    PROVE  UpdateModelValidations
<1>1. PICK validation \in Outcomes(held[r].source) :
          UpdateModelValidation(held[r].id, held[r].version, validation)
  BY OutcomeIsRecorded
<1>2. /\ held[r].id \in DOMAIN mem.items
      /\ HoldsSource(mem.items[held[r].id], held[r])
  BY DEF RecordOutcome, ModelsInv, SourcesHeld
<1>3. held[r].id \in Identifier
  BY <1>2 DEF ModelsInv, TypeOK, IsStore
<1>4. held[r].version \in Version
  BY <1>2 DEF ModelsInv, TypeOK, IsStore, IsItem, IsHistory, HoldsSource
<1>5. validation \in ValidationStatus
  BY <1>2, VerdictAssumption DEF HoldsSource, Outcomes, ValidationStatus
<1> QED
  BY <1>1, <1>3, <1>4, <1>5 DEF UpdateModelValidations

LEMMA StepImplements == ModelsInv /\ [ModelsNext]_mvars => [Next]_vars
<1> SUFFICES ASSUME ModelsInv, [ModelsNext]_mvars
             PROVE  [Next]_vars
  OBVIOUS
<1>1. CASE Deposit
  BY <1>1, DepositImplements DEF Next
<1>2. CASE Supersede
  BY <1>2, SupersedeImplements DEF Next
<1>3. ASSUME NEW r \in Validator, RecordOutcome(r)
      PROVE  [Next]_vars
  BY <1>3, OutcomeImplements DEF Next
<1>4. ASSUME NEW r \in Validator, ReadSource(r)
      PROVE  [Next]_vars
  BY <1>4 DEF ReadSource, vars
<1>5. CASE UNCHANGED mvars
  BY <1>5 DEF mvars, vars
<1> QED
  BY <1>1, <1>2, <1>3, <1>4, <1>5 DEF ModelsNext

-----------------------------------------------------------------------------
(* What a step does to the items.                                          *)

(* A deposit: a new item, whose status is the verdict or pending.           *)
LEMMA DepositItems ==
    ASSUME TypeOK, Deposit
    PROVE  \E id, item : /\ id \notin DOMAIN mem.items
                        /\ IsTruthful(item)
                        /\ mem'.items = With(mem.items, id, item)
<1>1. PICK id \in Identifier, number \in Version, w \in Window, source \in Source :
          \E validation \in Outcomes(source) :
              DepositModel(id, number, w, source, validation)
  BY DEF Deposit
<1>2. PICK validation \in Outcomes(source) :
          DepositModel(id, number, w, source, validation)
  BY <1>1
<1> DEFINE express == [source |-> source, validation |-> validation]
           item == [class    |-> "model",
                    versions |-> [v \in {number} |-> Entry("valid", w)],
                    manifest |-> [pin |-> number, express |-> express]]
<1>3. id \notin DOMAIN mem.items /\ mem' = Apply(mem, RegisterItemOp(id, item))
  BY <1>2 DEF DepositModel, Record, CanRegisterItem
<1>4. IsTruthful(item)
  BY DEF IsTruthful
<1> HIDE DEF item
<1>5. mem'.items = With(mem.items, id, item)
  BY <1>3, RegisterItemEffect DEF TypeOK
<1> QED
  BY <1>3, <1>4, <1>5

(* A supersession: the item it names has two versions or more from then on.  *)
LEMMA SupersedeItemsEffect ==
    ASSUME TypeOK, Supersede
    PROVE  \E id \in DOMAIN mem.items : \E item :
               /\ item.class = mem.items[id].class
               /\ DOMAIN mem.items[id].versions \subseteq DOMAIN item.versions
               /\ ~HasOneVersion(item)
               /\ mem'.items = [mem.items EXCEPT ![id] = item]
<1>1. PICK id \in DOMAIN mem.items, number \in Version, w \in Window :
          \E target \in DOMAIN mem.items[id].versions : \E manifest :
              SupersedeItem(id, target, number, w, manifest)
  BY DEF Supersede
<1>2. PICK target \in DOMAIN mem.items[id].versions :
          \E manifest : SupersedeItem(id, target, number, w, manifest)
  BY <1>1
<1>3. PICK manifest : SupersedeItem(id, target, number, w, manifest)
  BY <1>2
<1> DEFINE old == mem.items[id]
           e == Entry("valid", w)
           versions == Superseded(old.versions, target, number, e)
           item == [class    |-> old.class,
                    versions |-> versions,
                    manifest |-> IF manifest = None THEN old.manifest ELSE manifest]
<1>4. /\ number \notin DOMAIN old.versions
      /\ mem' = Apply(mem, SupersedeVersionOp(id, target, number, e, manifest))
  BY <1>3 DEF SupersedeItem, CanSupersede, Record
<1>5. mem'.items = [mem.items EXCEPT ![id] = item]
  BY <1>4, SupersededItem DEF TypeOK
<1>6. DOMAIN item.versions = DOMAIN old.versions \cup {number}
  BY DEF Superseded
<1>7. item.class = old.class
  OBVIOUS
<1> HIDE DEF item
<1>8. ~HasOneVersion(item)
  BY <1>4, <1>6 DEF HasOneVersion
<1> QED
  BY <1>5, <1>6, <1>7, <1>8

(* An outcome: it is the status of the item's deposit, when there is one,    *)
(* and its source stays.                                                   *)
Revalidated(old, new, validation) ==
    /\ new.class = old.class
    /\ new.versions = old.versions
    /\ IsDeposited(old) <=> IsDeposited(new)
    /\ IsDeposited(old) => /\ new.manifest.express.source = old.manifest.express.source
                           /\ new.manifest.express.validation = validation

LEMMA RevalidatedItems ==
    ASSUME NEW st, IsStore(st), NEW id \in DOMAIN st.items, NEW version,
           NEW validation \in ValidationStatus
    PROVE  LET new == Apply(st, UpdateModelValidationOp(id, version, validation)).items
           IN  /\ DOMAIN new = DOMAIN st.items
               /\ Revalidated(st.items[id], new[id], validation)
               /\ \A k \in DOMAIN st.items \ {id} : new[k] = st.items[k]
<1> DEFINE new == Apply(st, UpdateModelValidationOp(id, version, validation))
           old == st.items[id]
           express == [old.manifest.express EXCEPT !.validation = validation]
           manifest == [old.manifest EXCEPT !.express = express]
           item == [old EXCEPT !.manifest = manifest]
           items == [st.items EXCEPT ![id] = item]
<1>1. CASE ~IsDeposited(old)
  <2>1. Apply(st, UpdateModelValidationOp(id, version, validation)) = st
    BY <1>1 DEF IsDeposited, Apply, UpdateModelValidationOp, ApplyUpdateModelValidation
  <2> QED
    BY <1>1, <2>1 DEF Revalidated
<1>2. CASE IsDeposited(old)
  <2>1. Apply(st, UpdateModelValidationOp(id, version, validation)) = [st EXCEPT !.items = items]
    BY <1>2 DEF IsDeposited, Apply, UpdateModelValidationOp, ApplyUpdateModelValidation
  <2>2. IsItem(old) /\ old.manifest \in Manifest /\ old.manifest.express \in Express
    BY <1>2 DEF IsStore, IsItem, IsDeposited, Manifest
  <2>3. /\ express = [source |-> old.manifest.express.source, validation |-> validation]
        /\ express \in Express
    BY <2>2 DEF Express
  <2>4. /\ express # None
        /\ express.source = old.manifest.express.source /\ express.validation = validation
    BY <2>3, NoBlockAssumption
  <2> HIDE DEF express
  <2>5. manifest = [pin |-> old.manifest.pin, express |-> express]
    BY <2>2 DEF Manifest
  <2>6. manifest \in Manifest
    BY <2>2, <2>3, <2>5 DEF Manifest
  <2>7. manifest # None /\ manifest.express = express
    BY <2>5, <2>6, NoBlockAssumption
  <2> HIDE DEF manifest
  <2>8. item.class = old.class /\ item.versions = old.versions /\ item.manifest = manifest
    BY <2>2 DEF IsItem
  <2> HIDE DEF item
  <2>9. Revalidated(old, item, validation)
    BY <1>2, <2>4, <2>7, <2>8 DEF Revalidated, IsDeposited
  <2>10. /\ DOMAIN items = DOMAIN st.items
         /\ items[id] = item
         /\ \A k \in DOMAIN st.items \ {id} : items[k] = st.items[k]
    OBVIOUS
  <2> HIDE DEF items, new
  <2>11. [st EXCEPT !.items = items].items = items
    BY DEF IsStore
  <2>12. Apply(st, UpdateModelValidationOp(id, version, validation)).items = items
    BY <2>1, <2>11
  <2> QED
    BY <2>9, <2>10, <2>12 DEF new
<1> QED
  BY <1>1, <1>2

(* What any step leaves of the items: each stays, in its class and with its  *)
(* versions; one that has a single version after the step had it before, and *)
(* its deposit and source stay; and statuses stay truthful.                 *)
ItemKept(old, new) ==
    /\ new.class = old.class
    /\ DOMAIN old.versions \subseteq DOMAIN new.versions
    /\ HasOneVersion(new) =>
           /\ HasOneVersion(old)
           /\ IsDeposited(old) => /\ IsDeposited(new)
                                  /\ new.manifest.express.source = old.manifest.express.source

ItemsKeptTruthful ==
    /\ \A id \in DOMAIN mem.items : /\ id \in DOMAIN mem'.items
                                   /\ ItemKept(mem.items[id], mem'.items[id])
    /\ \A id \in DOMAIN mem'.items : IsTruthful(mem'.items[id])

LEMMA OutcomeKeeps ==
    ASSUME ModelsInv, NEW r \in Validator, RecordOutcome(r)
    PROVE  ItemsKeptTruthful
<1> DEFINE id == held[r].id
           old == mem.items[id]
           new == mem'.items[id]
<1>1. PICK validation \in Outcomes(held[r].source) :
          mem' = Apply(mem, UpdateModelValidationOp(id, held[r].version, validation))
  BY OutcomeIsRecorded DEF UpdateModelValidation, Record
<1>2. id \in DOMAIN mem.items /\ HoldsSource(old, held[r])
  BY DEF RecordOutcome, ModelsInv, SourcesHeld
<1>3. validation \in ValidationStatus
  BY <1>2, VerdictAssumption DEF HoldsSource, Outcomes, ValidationStatus
<1>4. /\ DOMAIN mem'.items = DOMAIN mem.items
      /\ Revalidated(old, new, validation)
      /\ \A k \in DOMAIN mem.items \ {id} : mem'.items[k] = mem.items[k]
  BY <1>1, <1>2, <1>3, RevalidatedItems DEF ModelsInv, TypeOK
<1> HIDE DEF id, old, new
<1>5. ItemKept(old, new) /\ IsTruthful(new)
  BY <1>2, <1>4 DEF Revalidated, ItemKept, HasOneVersion, HoldsSource, IsTruthful
<1>6. \A k \in DOMAIN mem.items : ItemKept(mem.items[k], mem'.items[k]) /\ IsTruthful(mem'.items[k])
  BY <1>4, <1>5 DEF ItemKept, ModelsInv, StatusesTruthful, old, new
<1> QED
  BY <1>4, <1>6 DEF ItemsKeptTruthful

LEMMA StepKeepsTruthful ==
    ASSUME ModelsInv, [ModelsNext]_mvars
    PROVE  ItemsKeptTruthful
<1>1. CASE Deposit
  BY <1>1, DepositItems
     DEF ItemsKeptTruthful, ItemKept, With, ModelsInv, StatusesTruthful
<1>2. CASE Supersede
  <2>1. PICK id \in DOMAIN mem.items : \E item :
            /\ item.class = mem.items[id].class
            /\ DOMAIN mem.items[id].versions \subseteq DOMAIN item.versions
            /\ ~HasOneVersion(item)
            /\ mem'.items = [mem.items EXCEPT ![id] = item]
    BY <1>2, SupersedeItemsEffect DEF ModelsInv
  <2>2. PICK item :
            /\ item.class = mem.items[id].class
            /\ DOMAIN mem.items[id].versions \subseteq DOMAIN item.versions
            /\ ~HasOneVersion(item)
            /\ mem'.items = [mem.items EXCEPT ![id] = item]
    BY <2>1
  <2>3. ItemKept(mem.items[id], item) /\ IsTruthful(item)
    BY <2>2 DEF ItemKept, IsTruthful
  <2>4. \A k \in DOMAIN mem.items : ItemKept(mem.items[k], mem.items[k])
    BY DEF ItemKept
  <2> QED
    BY <2>2, <2>3, <2>4 DEF ItemsKeptTruthful, ModelsInv, StatusesTruthful
<1>3. ASSUME NEW r \in Validator, RecordOutcome(r)
      PROVE  ItemsKeptTruthful
  BY <1>3, OutcomeKeeps
<1>4. CASE mem' = mem
  BY <1>4 DEF ItemsKeptTruthful, ItemKept, ModelsInv, StatusesTruthful
<1>5. ASSUME NEW r \in Validator, ReadSource(r)
      PROVE  ItemsKeptTruthful
  BY <1>4, <1>5 DEF ReadSource
<1>6. CASE UNCHANGED mvars
  BY <1>4, <1>6 DEF mvars
<1> QED
  BY <1>1, <1>2, <1>3, <1>5, <1>6 DEF ModelsNext

-----------------------------------------------------------------------------
(* What a request holds.                                                   *)

(* What it has just read is there.                                         *)
LEMMA CurrentIsThere ==
    ASSUME NEW vs, OneServing(vs, "valid")
    PROVE  CurrentVersion(vs, "valid") \in DOMAIN vs
<1>1. PICK v \in DOMAIN vs : Serving(vs, "valid") = {v}
  BY DEF OneServing
<1>2. CurrentVersion(vs, "valid") = v
  BY <1>1 DEF CurrentVersion, LastOf
<1> QED
  BY <1>2

LEMMA ReadHolds ==
    ASSUME ModelsInv, NEW r \in Validator, ReadSource(r)
    PROVE  /\ mem' = mem
           /\ RequestsTyped'
           /\ \A q \in Validator \ {r} : pc'[q] = pc[q] /\ held'[q] = held[q]
           /\ pc'[r] = "validating" =>
                  /\ held'[r].id \in DOMAIN mem.items
                  /\ HoldsSource(mem.items[held'[r].id], held'[r])
<1>1. mem' = mem /\ RequestsTyped
  BY DEF ReadSource, ModelsInv
<1>2. PICK id \in DOMAIN mem.items :
          \/ /\ Validatable(id)
             /\ pc' = [pc EXCEPT ![r] = "validating"]
             /\ held' = [held EXCEPT ![r] =
                    [id      |-> id,
                     source  |-> mem.items[id].manifest.express.source,
                     version |-> CurrentVersion(mem.items[id].versions, "valid")]]
          \/ /\ pc' = [pc EXCEPT ![r] = "answered"]
             /\ held' = held
  BY DEF ReadSource
<1> DEFINE item == mem.items[id]
           h == [id      |-> id,
                 source  |-> item.manifest.express.source,
                 version |-> CurrentVersion(item.versions, "valid")]
<1>3. CASE pc' = [pc EXCEPT ![r] = "answered"] /\ held' = held
  BY <1>1, <1>3 DEF RequestsTyped
<1>4. CASE /\ Validatable(id)
           /\ pc' = [pc EXCEPT ![r] = "validating"]
           /\ held' = [held EXCEPT ![r] = h]
  <2>1. IsDeposited(item) /\ item.class = "model"
    BY <1>4 DEF Validatable, IsDeposited
  <2>2. item.manifest.express \in Express
    BY <2>1 DEF IsDeposited, ModelsInv, TypeOK, IsStore, IsItem, Manifest
  <2>3. CurrentVersion(item.versions, "valid") \in DOMAIN item.versions
    BY CurrentIsThere DEF ModelsInv, HistoriesLinear, ItemHistoriesLinear, LinearHistory
  <2>4. HoldsSource(item, h) /\ h.id = id
    BY <2>1, <2>2, <2>3 DEF HoldsSource, Express
  <2> HIDE DEF h, item
  <2>5. /\ pc'[r] = "validating" /\ held'[r] = h
        /\ \A q \in Validator \ {r} : pc'[q] = pc[q] /\ held'[q] = held[q]
        /\ RequestsTyped'
    BY <1>1, <1>4 DEF RequestsTyped
  <2> QED
    BY <1>1, <2>4, <2>5 DEF item
<1> QED
  BY <1>2, <1>3, <1>4

(* What it read a while ago still is, whatever the others have done.        *)
LEMMA HeldStaysThere ==
    ASSUME NEW old, NEW new, NEW h, ItemKept(old, new), HoldsSource(old, h)
    PROVE  HoldsSource(new, h)
BY DEF ItemKept, HoldsSource

LEMMA ModelsInductive == ModelsInv /\ [ModelsNext]_mvars => ModelsInv'
<1> SUFFICES ASSUME ModelsInv, [ModelsNext]_mvars
             PROVE  ModelsInv'
  OBVIOUS
<1>1. TypeOK' /\ HistoriesLinear'
  BY StepImplements, TypeInductive, HistoriesInductive DEF ModelsInv
<1>2. ItemsKeptTruthful
  BY StepKeepsTruthful
<1>3. StatusesTruthful'
  BY <1>2 DEF ItemsKeptTruthful, StatusesTruthful
<1>4. ASSUME NEW q \in Validator, pc[q] = "validating", held'[q] = held[q]
      PROVE  /\ held'[q].id \in DOMAIN mem'.items
             /\ HoldsSource(mem'.items[held'[q].id], held'[q])
  BY <1>2, <1>4, HeldStaysThere DEF ModelsInv, SourcesHeld, ItemsKeptTruthful
<1>5. ASSUME NEW r \in Validator, ReadSource(r)
      PROVE  RequestsTyped' /\ SourcesHeld'
  BY <1>4, <1>5, ReadHolds DEF SourcesHeld
<1>6. ASSUME NEW r \in Validator, RecordOutcome(r)
      PROVE  RequestsTyped' /\ SourcesHeld'
  <2>1. pc' = [pc EXCEPT ![r] = "answered"] /\ held' = held /\ RequestsTyped
    BY <1>6 DEF RecordOutcome, ModelsInv
  <2> QED
    BY <1>4, <2>1 DEF RequestsTyped, SourcesHeld
<1>7. ASSUME Deposit \/ Supersede \/ UNCHANGED mvars
      PROVE  RequestsTyped' /\ SourcesHeld'
  <2>1. pc' = pc /\ held' = held /\ RequestsTyped
    BY <1>7 DEF Deposit, Supersede, mvars, ModelsInv
  <2>2. RequestsTyped'
    BY <2>1 DEF RequestsTyped
  <2>3. SourcesHeld'
    BY <1>4, <2>1 DEF SourcesHeld
  <2> QED
    BY <2>2, <2>3
<1>8. \/ Deposit \/ Supersede \/ UNCHANGED mvars
      \/ \E r \in Validator : ReadSource(r) \/ RecordOutcome(r)
  BY DEF ModelsNext
<1>9. RequestsTyped' /\ SourcesHeld'
  BY <1>5, <1>6, <1>7, <1>8
<1> QED
  BY <1>1, <1>3, <1>9 DEF ModelsInv

LEMMA ModelsInvariant == ModelsSpec => []ModelsInv
<1>1. ModelsInit => ModelsInv
  <2> SUFFICES ASSUME ModelsInit
               PROVE  ModelsInv
    OBVIOUS
  <2>1. TypeOK
    BY InitType DEF ModelsInit
  <2>2. mem.items = << >>
    BY DEF ModelsInit, Init, EmptyStore
  <2>3. RequestsTyped /\ \A r \in Validator : pc[r] = "idle"
    BY DEF ModelsInit, RequestsTyped
  <2> QED
    BY <2>1, <2>2, <2>3
       DEF ModelsInv, HistoriesLinear, ItemHistoriesLinear, SourcesHeld, StatusesTruthful
<1> QED
  BY <1>1, ModelsInductive, PTL DEF ModelsSpec

-----------------------------------------------------------------------------
(* Deposits, supersessions and validations that leave the lock while the     *)
(* tool runs take no step the store could not take: its theorems hold of them. *)
THEOREM ModelsImplementStore == ModelsSpec => Spec
<1>1. ModelsInit => Init
  BY DEF ModelsInit
<1> QED
  BY <1>1, StepImplements, ModelsInvariant, PTL DEF ModelsSpec, Spec

(* The second lock of validate_model never finds its item or version gone,    *)
(* however many supersessions came while expressir ran (items only grow).     *)
THEOREM OutcomesRecordable == ModelsSpec => []OutcomeRecordable
<1>1. ModelsInv => OutcomeRecordable
  BY HeldRecordable DEF OutcomeRecordable
<1> QED
  BY <1>1, ModelsInvariant, PTL

(* A model nobody superseded never shows a verdict on another source than its  *)
(* own, for any number of deposits and of validations that overlap.           *)
THEOREM UnsupersededTruthful == ModelsSpec => []UnsupersededStatusIsOfTheSource
<1>1. ModelsInv => UnsupersededStatusIsOfTheSource
  <2> SUFFICES ASSUME ModelsInv, NEW id \in DOMAIN mem.items, Judged(id), IsUnsuperseded(id)
               PROVE  Truthful(id)
    BY DEF UnsupersededStatusIsOfTheSource
  <2>1. mem.items[id].manifest.express.validation
            \in Outcomes(mem.items[id].manifest.express.source)
    BY DEF Judged, IsUnsuperseded, ModelsInv, StatusesTruthful, IsTruthful, HasOneVersion,
           IsDeposited
  <2> QED
    BY <2>1 DEF Judged, Truthful, Outcomes
<1> QED
  BY <1>1, ModelsInvariant, PTL
=============================================================================
