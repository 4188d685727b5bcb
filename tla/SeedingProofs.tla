---------------------------- MODULE SeedingProofs ----------------------------
(***************************************************************************)
(* Theorems about seeding, for every set of requests and clients, every     *)
(* dataset that is not empty and every bound: what is answered, and how     *)
(* often anything is registered.                                           *)
(***************************************************************************)
EXTENDS Seeding, RegistryStoreProofs

-----------------------------------------------------------------------------
(* Registrations.                                                          *)

Registration == {"register-item", "register-service", "register-protocol-binding",
                 "register-verification-mechanism"}

Registered(st, o) ==
    CASE o.op = "register-item"                   -> o.identifier \in DOMAIN st.items
      [] o.op = "register-service"                -> o.identifier \in DOMAIN st.services
      [] o.op = "register-protocol-binding"       -> o.identifier \in st.protocols
      [] o.op = "register-verification-mechanism" -> o.identifier \in st.mechanisms

(* A registration adds its identifier to those of its kind, and nothing     *)
(* else.                                                                   *)
LEMMA RegistrationEffect ==
    ASSUME NEW st, IsStore(st), NEW o, o.op \in Registration,
           NEW p, p.op \in Registration
    PROVE  Registered(Apply(st, o), p) <=>
               \/ Registered(st, p)
               \/ p.op = o.op /\ p.identifier = o.identifier
<1> DEFINE new == Apply(st, o)
           Same == /\ DOMAIN new.items = DOMAIN st.items
                   /\ DOMAIN new.services = DOMAIN st.services
                   /\ new.protocols = st.protocols
                   /\ new.mechanisms = st.mechanisms
<1>1. CASE o.op = "register-item"
  <2> DEFINE items == With(st.items, o.identifier, o.item)
  <2>1. new = [st EXCEPT !.items = items]
    BY <1>1 DEF Apply, ApplyRegisterItem
  <2>2. DOMAIN items = DOMAIN st.items \cup {o.identifier}
    BY DEF With
  <2> HIDE DEF items, new
  <2>3. /\ new.items = items /\ new.services = st.services
        /\ new.protocols = st.protocols /\ new.mechanisms = st.mechanisms
    BY <2>1 DEF IsStore
  <2> QED
    BY <1>1, <2>2, <2>3 DEF Registered, Registration, new
<1>2. CASE o.op = "register-service"
  <2> DEFINE services == With(st.services, o.identifier, o.versions)
  <2>1. new = [st EXCEPT !.services = services]
    BY <1>2 DEF Apply, ApplyRegisterService
  <2>2. DOMAIN services = DOMAIN st.services \cup {o.identifier}
    BY DEF With
  <2> HIDE DEF services, new
  <2>3. /\ new.items = st.items /\ new.services = services
        /\ new.protocols = st.protocols /\ new.mechanisms = st.mechanisms
    BY <2>1 DEF IsStore
  <2> QED
    BY <1>2, <2>2, <2>3 DEF Registered, Registration, new
<1>3. CASE o.op = "register-protocol-binding"
  <2>1. new = [st EXCEPT !.protocols = @ \cup {o.identifier}]
    BY <1>3 DEF Apply
  <2> HIDE DEF new
  <2>2. /\ new.items = st.items /\ new.services = st.services
        /\ new.protocols = st.protocols \cup {o.identifier}
        /\ new.mechanisms = st.mechanisms
    BY <2>1 DEF IsStore
  <2> QED
    BY <1>3, <2>2 DEF Registered, Registration, new
<1>4. CASE o.op = "register-verification-mechanism"
  <2>1. new = [st EXCEPT !.mechanisms = @ \cup {o.identifier}]
    BY <1>4 DEF Apply
  <2> HIDE DEF new
  <2>2. /\ new.items = st.items /\ new.services = st.services
        /\ new.protocols = st.protocols
        /\ new.mechanisms = st.mechanisms \cup {o.identifier}
    BY <2>1 DEF IsStore
  <2> QED
    BY <1>4, <2>2 DEF Registered, Registration, new
<1> QED
  BY <1>1, <1>2, <1>3, <1>4 DEF Registration

(* What the steps of seeding record: registrations of what is not there.    *)
Registers(o) == /\ IsOp(o) /\ o.op \in Registration
                /\ ~Registered(mem, o)
                /\ Record(mem, o)

(* The record of each entry of the dataset is a registration, guarded by   *)
(* its absence.                                                            *)
LEMMA SeedOpType ==
    ASSUME NEW i \in DOMAIN Dataset
    PROVE  /\ IsOp(SeedOp(Dataset[i]))
           /\ SeedOp(Dataset[i]).op \in Registration
           /\ CanSeed(Dataset[i]) <=> ~Registered(mem, SeedOp(Dataset[i]))
           /\ CanSeed(Dataset[i])' <=> ~Registered(mem', SeedOp(Dataset[i]))
<1> DEFINE entry == Dataset[i]
<1>1. CASE entry.kind = "unit" /\ entry.id \in Identifier
  <2>1. IsItem(SeedItem)
    <3>1. [pin |-> SeedVersion, express |-> None] \in Manifest \cup {None}
      BY DatasetAssumption DEF Manifest
    <3> QED
      BY <3>1, DatasetAssumption, FirstItemType DEF SeedItem
  <2>2. SeedOp(entry) = RegisterItemOp(entry.id, SeedItem)
    BY <1>1 DEF SeedOp
  <2>3. IsOp(RegisterItemOp(entry.id, SeedItem))
    BY <1>1, <2>1 DEF IsOp, RegisterItemOp
  <2> QED
    BY <1>1, <2>2, <2>3
       DEF RegisterItemOp, Registration, CanSeed, CanRegisterItem, Registered
<1>2. CASE entry.kind = "service" /\ entry.id \in ServiceId
  <2> DEFINE versions == [v \in {SeedVersion} |-> Entry("active", SeedWindow)]
  <2>1. IsHistory(versions, ServiceStatus)
    <3>1. "active" \in ServiceStatus /\ SeedVersion \in Version /\ SeedWindow \in Window
      BY DatasetAssumption DEF ServiceStatus
    <3> QED
      BY <3>1, EntryType, FirstHistoryType
  <2>2. SeedOp(entry) = RegisterServiceOp(entry.id, versions)
    BY <1>2 DEF SeedOp
  <2> HIDE DEF versions
  <2>3. IsOp(RegisterServiceOp(entry.id, versions))
    BY <1>2, <2>1 DEF IsOp, RegisterServiceOp
  <2> QED
    BY <1>2, <2>2, <2>3
       DEF RegisterServiceOp, Registration, CanSeed, CanRegisterService, Registered
<1>3. CASE entry.kind = "protocol-binding" /\ entry.id \in DescriptorId
  <2>1. SeedOp(entry) = RegisterProtocolBindingOp(entry.id)
    BY <1>3 DEF SeedOp
  <2> QED
    BY <1>3, <2>1
       DEF IsOp, RegisterProtocolBindingOp, Registration, CanSeed,
           CanRegisterProtocolBinding, Registered
<1>4. CASE entry.kind = "verification-mechanism" /\ entry.id \in DescriptorId
  <2>1. SeedOp(entry) = RegisterVerificationMechanismOp(entry.id)
    BY <1>4 DEF SeedOp
  <2> QED
    BY <1>4, <2>1
       DEF IsOp, RegisterVerificationMechanismOp, Registration, CanSeed,
           CanRegisterVerificationMechanism, Registered
<1> QED
  BY <1>1, <1>2, <1>3, <1>4, DatasetAssumption

(* So are those of other clients, *)
LEMMA OthersRegister ==
    ASSUME Others
    PROVE  \E o : Registers(o)
<1>1. CASE \E id \in Identifier \cap Taken :
               \E manifest \in FirstManifests("data-element", SeedVersion) :
                   CreateItem(id, "data-element", SeedVersion, SeedWindow, manifest)
  <2>1. PICK id \in Identifier, manifest \in FirstManifests("data-element", SeedVersion) :
            CreateItem(id, "data-element", SeedVersion, SeedWindow, manifest)
    BY <1>1
  <2> DEFINE item == [class    |-> "data-element",
                      versions |-> [v \in {SeedVersion} |-> Entry("valid", SeedWindow)],
                      manifest |-> manifest]
  <2>2. manifest \in Manifest \cup {None}
    BY DatasetAssumption DEF FirstManifests, Manifest
  <2>3. IsItem(item)
    BY <2>2, DatasetAssumption, FirstItemType
  <2>4. Record(mem, RegisterItemOp(id, item)) /\ id \notin DOMAIN mem.items
    BY <2>1 DEF CreateItem, CanRegisterItem
  <2> HIDE DEF item
  <2>5. Registers(RegisterItemOp(id, item))
    BY <2>3, <2>4 DEF Registers, IsOp, RegisterItemOp, Registration, Registered
  <2> QED
    BY <2>5
<1>2. CASE \E id \in DescriptorId \cap Taken :
               CreateProtocolBinding(id) \/ CreateVerificationMechanism(id)
  <2>1. PICK id \in DescriptorId :
            CreateProtocolBinding(id) \/ CreateVerificationMechanism(id)
    BY <1>2
  <2>2. \/ Registers(RegisterProtocolBindingOp(id))
        \/ Registers(RegisterVerificationMechanismOp(id))
    BY <2>1 DEF Registers, IsOp, RegisterProtocolBindingOp,
                RegisterVerificationMechanismOp, Registration, Registered,
                CreateProtocolBinding, CreateVerificationMechanism,
                CanRegisterProtocolBinding, CanRegisterVerificationMechanism
  <2> QED
    BY <2>2
<1>3. CASE \E id \in ServiceId \cap Taken, status \in ServiceStatus :
               CreateService(id, SeedVersion, SeedWindow, status)
  <2>1. PICK id \in ServiceId, status \in ServiceStatus :
            CreateService(id, SeedVersion, SeedWindow, status)
    BY <1>3
  <2> DEFINE versions == [v \in {SeedVersion} |-> Entry(status, SeedWindow)]
  <2>2. IsHistory(versions, ServiceStatus)
    BY DatasetAssumption, EntryType, FirstHistoryType
  <2>3. Record(mem, RegisterServiceOp(id, versions)) /\ id \notin DOMAIN mem.services
    BY <2>1 DEF CreateService, CanRegisterService
  <2> HIDE DEF versions
  <2>4. Registers(RegisterServiceOp(id, versions))
    BY <2>2, <2>3 DEF Registers, IsOp, RegisterServiceOp, Registration, Registered
  <2> QED
    BY <2>4
<1> QED
  BY <1>1, <1>2, <1>3 DEF Others

(* and the first deposit of a start. *)
LEMMA CoreRegisters ==
    ASSUME DepositCore
    PROVE  UNCHANGED vars \/ \E o : Registers(o)
<1>1. CASE CanRegisterItem(mem, CoreId)
  <2>1. PICK validation \in ValidationStatus :
            Record(mem, RegisterItemOp(CoreId, CoreItem(validation)))
    BY <1>1 DEF DepositCore
  <2>2. IsItem(CoreItem(validation))
    <3> DEFINE manifest == [pin     |-> SeedVersion,
                            express |-> [source |-> CoreSource, validation |-> validation]]
    <3>1. manifest \in Manifest \cup {None}
      BY DatasetAssumption DEF Manifest, Express
    <3>2. CoreItem(validation) =
              [class    |-> "model",
               versions |-> [v \in {SeedVersion} |-> Entry("valid", SeedWindow)],
               manifest |-> manifest]
      BY DEF CoreItem
    <3> HIDE DEF manifest
    <3> QED
      BY <3>1, <3>2, DatasetAssumption, FirstItemType
  <2> DEFINE item == CoreItem(validation)
  <2>3. Record(mem, RegisterItemOp(CoreId, item)) /\ CoreId \notin DOMAIN mem.items
    BY <1>1, <2>1 DEF CanRegisterItem
  <2>4. IsItem(item) /\ CoreId \in Identifier
    BY <2>2, DatasetAssumption
  <2> HIDE DEF item
  <2>5. Registers(RegisterItemOp(CoreId, item))
    BY <2>3, <2>4 DEF Registers, IsOp, RegisterItemOp, Registration, Registered
  <2> QED
    BY <2>5
<1>2. CASE ~CanRegisterItem(mem, CoreId)
  BY <1>2 DEF DepositCore
<1> QED
  BY <1>1, <1>2

-----------------------------------------------------------------------------
(* The log: every record registers something that is there, and no two      *)
(* register the same.                                                      *)
LogInv == /\ TypeOK
          /\ \A i \in DOMAIN log : /\ log[i].op.op \in Registration
                                   /\ Registered(mem, log[i].op)
          /\ RegisteredOnce

StoreStep == UNCHANGED vars \/ \E o : Registers(o)

(* A registration keeps the invariant of the log, and what is registered. *)
LEMMA LogStep ==
    ASSUME LogInv, StoreStep
    PROVE  /\ LogInv'
           /\ \A p : p.op \in Registration /\ Registered(mem, p) => Registered(mem', p)
<1>1. CASE UNCHANGED vars
  BY <1>1 DEF vars, LogInv, TypeOK, RegisteredOnce, IsStore, IsLog
<1>2. CASE \E o : Registers(o)
  <2>1. PICK o : Registers(o)
    BY <1>2
  <2> DEFINE n == Len(log)
             rec == [seq |-> n + 1, op |-> o]
  <2>2. /\ IsOp(o) /\ o.op \in Registration /\ ~Registered(mem, o)
        /\ log' = Append(log, rec) /\ mem' = Apply(mem, o)
    BY <2>1 DEF Registers, Record
  <2>3. rec.op = o
    OBVIOUS
  <2>4. IsLog(log') /\ IsStore(mem')
    BY <2>2, AppendLog, ApplyType DEF LogInv, TypeOK
  <2>5. \A p : p.op \in Registration =>
            (Registered(mem', p) <=> Registered(mem, p)
                                        \/ (p.op = o.op /\ p.identifier = o.identifier))
    BY <2>2, RegistrationEffect DEF LogInv, TypeOK
  <2> HIDE DEF rec
  <2>6. /\ n \in Nat /\ DOMAIN log = 1 .. n
        /\ DOMAIN log' = 1 .. n + 1
        /\ \A i \in 1 .. n : log'[i] = log[i]
        /\ log'[n + 1] = rec
    <3> DEFINE S == {log[i] : i \in DOMAIN log} \cup {rec}
    <3>1. log \in Seq(S) /\ rec \in S
      BY DEF LogInv, TypeOK, IsLog
    <3> HIDE DEF S
    <3> QED
      BY <2>2, <3>1, AppendProperties, LenProperties
  <2> HIDE DEF n
  <2>7. ASSUME NEW i \in 1 .. n + 1
        PROVE  /\ log'[i].op.op \in Registration
               /\ Registered(mem', log'[i].op)
    <3>1. CASE i = n + 1
      BY <2>2, <2>3, <2>5, <2>6, <3>1
    <3>2. CASE i \in 1 .. n
      BY <2>5, <2>6, <3>2 DEF LogInv
    <3> QED
      BY <2>6, <3>1, <3>2
  <2>8. ASSUME NEW i \in 1 .. n
        PROVE  ~(log[i].op.op = o.op /\ log[i].op.identifier = o.identifier)
    <3>1. Registered(mem, log[i].op)
      BY <2>6 DEF LogInv
    <3> QED
      BY <2>2, <3>1 DEF Registered, Registration
  <2>9. ASSUME NEW i \in 1 .. n + 1, NEW j \in 1 .. n + 1,
               log'[i].op.op = log'[j].op.op,
               log'[i].op.identifier = log'[j].op.identifier
        PROVE  i = j
    <3>1. CASE i \in 1 .. n /\ j \in 1 .. n
      BY <2>6, <2>9, <3>1 DEF LogInv, RegisteredOnce
    <3>2. CASE i = n + 1 /\ j \in 1 .. n
      BY <2>3, <2>6, <2>8, <2>9, <3>2
    <3>3. CASE j = n + 1 /\ i \in 1 .. n
      BY <2>3, <2>6, <2>8, <2>9, <3>3
    <3> QED
      BY <2>6, <3>1, <3>2, <3>3
  <2>10. LogInv'
    BY <2>4, <2>6, <2>7, <2>9 DEF LogInv, TypeOK, RegisteredOnce
  <2> QED
    BY <2>5, <2>10
<1> QED
  BY <1>1, <1>2 DEF StoreStep

(* Every step of seeding is one of the store, a registration or none.       *)
LEMMA SeedingStoreStep ==
    ASSUME [SeedingNext]_svars
    PROVE  StoreStep
<1>1. CASE Start
  BY <1>1, CoreRegisters DEF Start, StoreStep
<1>2. CASE Others
  BY <1>2, OthersRegister DEF StoreStep
<1>3. CASE \E r \in Seeder : SeedNext(r)
  <2>1. PICK r \in Seeder : /\ at[r] \in DOMAIN Dataset
                            /\ CanSeed(Dataset[at[r]])
                            /\ Record(mem, SeedOp(Dataset[at[r]]))
    BY <1>3 DEF SeedNext
  <2>2. Registers(SeedOp(Dataset[at[r]]))
    BY <2>1, SeedOpType DEF Registers
  <2> QED
    BY <2>2 DEF StoreStep
<1>4. CASE Crash \/ (\E r \in Seeder : Begin(r) \/ FailSeed(r) \/ FinishSeed(r))
           \/ UNCHANGED svars
  BY <1>4 DEF Crash, Begin, FailSeed, FinishSeed, svars, vars, StoreStep
<1> QED
  BY <1>1, <1>2, <1>3, <1>4 DEF SeedingNext, Seed

(* What is registered stays, so what cannot be seeded never can be again.   *)
LEMMA SeededStays ==
    ASSUME LogInv, StoreStep, NEW i \in DOMAIN Dataset, ~CanSeed(Dataset[i])
    PROVE  ~CanSeed(Dataset[i])'
BY LogStep, SeedOpType

(* After a request has registered a record, the record is there.            *)
LEMMA SeedNextSeeds ==
    ASSUME LogInv, NEW i \in DOMAIN Dataset, mem' = Apply(mem, SeedOp(Dataset[i]))
    PROVE  ~CanSeed(Dataset[i])'
<1> DEFINE o == SeedOp(Dataset[i])
<1>1. o.op \in Registration /\ (CanSeed(Dataset[i])' <=> ~Registered(mem', o))
  BY SeedOpType
<1>2. mem' = Apply(mem, o)
  OBVIOUS
<1> HIDE DEF o
<1>3. Registered(mem', o)
  BY <1>1, <1>2, RegistrationEffect DEF LogInv, TypeOK
<1> QED
  BY <1>1, <1>3

-----------------------------------------------------------------------------
(* The requests: what is behind a request's position is registered, a       *)
(* request that has answered "seeded" is at the end, and only one request,  *)
(* in this process or an earlier one, ever got past the first record.       *)
PastFirst == \A r, q \in Seeder : at[r] # 1 /\ at[q] # 1 => r = q

ProgressInv ==
    /\ at \in [Seeder -> 1 .. Len(Dataset) + 1]
    /\ pc \in [Seeder -> {"idle", "seeding", "lost"} \cup SeedAnswers]
    /\ \A r \in Seeder : \A i \in DOMAIN Dataset : i < at[r] => ~CanSeed(Dataset[i])
    /\ \A r \in Seeder : pc[r] = "seeded" => at[r] = Len(Dataset) + 1
    /\ SeededMeansPopulated
    /\ PastFirst

SeedingInv == LogInv /\ ProgressInv

(* A step that lets each request move forward only, and past a record only  *)
(* when it is there, keeps the first half of the invariant.                *)
LEMMA ProgressStep ==
    ASSUME SeedingInv, [SeedingNext]_svars
    PROVE  SeedingInv'
<1>1. StoreStep
  BY SeedingStoreStep
<1>2. LogInv'
  BY <1>1, LogStep DEF SeedingInv
<1>3. \A i \in DOMAIN Dataset : ~CanSeed(Dataset[i]) => ~CanSeed(Dataset[i])'
  BY <1>1, SeededStays DEF SeedingInv
<1>4. Populated => Populated'
  BY <1>3 DEF Populated
<1>5. Len(Dataset) \in Nat \ {0} /\ DOMAIN Dataset = 1 .. Len(Dataset)
  BY DatasetAssumption
<1>6. ProgressInv
  BY DEF SeedingInv
<1>7. CASE UNCHANGED <<seeded, pc, at>>
  BY <1>3, <1>4, <1>6, <1>7, <1>2
     DEF ProgressInv, PastFirst, SeededMeansPopulated, SeedingInv
<1>8. CASE Crash
  <2>1. /\ seeded' = FALSE /\ UNCHANGED at
        /\ pc' = [r \in Seeder |-> IF pc[r] = "seeding" THEN "lost" ELSE pc[r]]
    BY <1>8 DEF Crash
  <2>2. pc' \in [Seeder -> {"idle", "seeding", "lost"} \cup SeedAnswers]
    BY <2>1, <1>6 DEF ProgressInv
  <2>3. \A r \in Seeder : pc'[r] # "lost" => pc'[r] = pc[r]
    BY <2>1
  <2>4. SeededMeansPopulated'
    BY <2>1, <2>3, <1>4, <1>6 DEF ProgressInv, SeededMeansPopulated
  <2> QED
    BY <2>1, <2>2, <2>3, <2>4, <1>2, <1>3, <1>6 DEF ProgressInv, PastFirst, SeedingInv
<1>9. CASE \E r \in Seeder : Begin(r)
  <2>1. PICK r \in Seeder : Begin(r)
    BY <1>9
  <2>2. /\ UNCHANGED <<seeded, at>>
        /\ pc' = [pc EXCEPT ![r] = IF seeded THEN "already-seeded" ELSE "seeding"]
    BY <2>1 DEF Begin
  <2>3. pc' \in [Seeder -> {"idle", "seeding", "lost"} \cup SeedAnswers]
    BY <2>2, <1>6 DEF ProgressInv, SeedAnswers
  <2>4. \A q \in Seeder : \/ pc'[q] = pc[q]
                          \/ pc'[q] = "seeding"
                          \/ pc'[q] = "already-seeded" /\ seeded
    BY <2>2, <1>6 DEF ProgressInv
  <2>5. SeededMeansPopulated'
    BY <2>2, <2>4, <1>4, <1>6 DEF ProgressInv, SeededMeansPopulated
  <2>6. \A q \in Seeder : pc'[q] = "seeded" => pc[q] = "seeded"
    BY <2>4
  <2> QED
    BY <2>2, <2>3, <2>5, <2>6, <1>2, <1>3, <1>6 DEF ProgressInv, PastFirst, SeedingInv
<1>10. CASE \E r \in Seeder : SeedNext(r)
  <2>1. PICK r \in Seeder : SeedNext(r)
    BY <1>10
  <2>2. /\ at[r] \in DOMAIN Dataset /\ pc[r] = "seeding"
        /\ CanSeed(Dataset[at[r]])
        /\ mem' = Apply(mem, SeedOp(Dataset[at[r]]))
        /\ at' = [at EXCEPT ![r] = @ + 1]
        /\ UNCHANGED <<seeded, pc>>
    BY <2>1 DEF SeedNext, Record
  <2>3. PICK i \in DOMAIN Dataset : i = at[r]
    BY <2>2
  <2>4. /\ at' \in [Seeder -> 1 .. Len(Dataset) + 1]
        /\ at'[r] = i + 1
        /\ \A q \in Seeder : q # r => at'[q] = at[q]
    BY <2>2, <2>3, <1>5, <1>6 DEF ProgressInv
  <2>5. ~CanSeed(Dataset[i])'
    BY <2>2, <2>3, SeedNextSeeds DEF SeedingInv
  <2>6. \A q \in Seeder : \A j \in DOMAIN Dataset : j < at'[q] => ~CanSeed(Dataset[j])'
    <3> SUFFICES ASSUME NEW q \in Seeder, NEW j \in DOMAIN Dataset, j < at'[q]
                 PROVE  ~CanSeed(Dataset[j])'
      OBVIOUS
    <3>1. j < at[q] => ~CanSeed(Dataset[j])'
      BY <1>3, <1>6 DEF ProgressInv
    <3>2. j = i => ~CanSeed(Dataset[j])'
      BY <2>5
    <3>3. j < at[q] \/ j = i
      BY <1>5, <2>3, <2>4
    <3> QED
      BY <3>1, <3>2, <3>3
  <2>7. PastFirst'
    <3>1. ASSUME NEW q \in Seeder, q # r
          PROVE  at[q] = 1
      <4>1. CASE i = 1
        <5>1. ~(1 < at[q])
          BY <1>6, <4>1, <2>2, <2>3 DEF ProgressInv
        <5> QED
          BY <5>1, <1>5, <1>6 DEF ProgressInv
      <4>2. CASE i # 1
        BY <4>2, <2>3, <3>1, <1>6 DEF ProgressInv, PastFirst
      <4> QED
        BY <4>1, <4>2
    <3>2. \A q \in Seeder : q # r => at'[q] = 1
      BY <3>1, <2>4
    <3> QED
      BY <3>2 DEF PastFirst
  <2>8. SeededMeansPopulated'
    BY <2>2, <1>4, <1>6 DEF ProgressInv, SeededMeansPopulated
  <2>9. \A q \in Seeder : pc'[q] = "seeded" => at'[q] = Len(Dataset) + 1
    BY <2>2, <2>4, <1>6 DEF ProgressInv
  <2> QED
    BY <2>2, <2>4, <2>6, <2>7, <2>8, <2>9, <1>2, <1>6 DEF ProgressInv, SeedingInv
<1>11. CASE \E r \in Seeder : FailSeed(r)
  <2>1. PICK r \in Seeder : FailSeed(r)
    BY <1>11
  <2>2. /\ UNCHANGED <<seeded, at>>
        /\ pc' = [pc EXCEPT ![r] = "failed"]
    BY <2>1 DEF FailSeed
  <2>3. pc' \in [Seeder -> {"idle", "seeding", "lost"} \cup SeedAnswers]
    BY <2>2, <1>6 DEF ProgressInv, SeedAnswers
  <2>4. \A q \in Seeder : pc'[q] = pc[q] \/ pc'[q] = "failed"
    BY <2>2, <1>6 DEF ProgressInv
  <2>5. SeededMeansPopulated'
    BY <2>2, <2>4, <1>4, <1>6 DEF ProgressInv, SeededMeansPopulated
  <2>6. \A q \in Seeder : pc'[q] = "seeded" => pc[q] = "seeded"
    BY <2>4
  <2> QED
    BY <2>2, <2>3, <2>5, <2>6, <1>2, <1>3, <1>6 DEF ProgressInv, PastFirst, SeedingInv
<1>12. CASE \E r \in Seeder : FinishSeed(r)
  <2>1. PICK r \in Seeder : FinishSeed(r)
    BY <1>12
  <2>2. /\ at[r] \notin DOMAIN Dataset /\ UNCHANGED <<mem, at>>
        /\ pc' = [pc EXCEPT ![r] = "seeded"]
    BY <2>1 DEF FinishSeed
  <2>3. pc' \in [Seeder -> {"idle", "seeding", "lost"} \cup SeedAnswers]
    BY <2>2, <1>6 DEF ProgressInv, SeedAnswers
  <2>4. at[r] = Len(Dataset) + 1
    BY <2>2, <1>5, <1>6 DEF ProgressInv
  <2>5. Populated
    BY <2>4, <1>5, <1>6 DEF ProgressInv, Populated
  <2>6. SeededMeansPopulated'
    BY <2>5, <1>4 DEF SeededMeansPopulated
  <2>7. \A q \in Seeder : pc'[q] = "seeded" => pc[q] = "seeded" \/ q = r
    BY <2>2, <1>6 DEF ProgressInv
  <2> QED
    BY <2>2, <2>3, <2>4, <2>6, <2>7, <1>2, <1>3, <1>6
       DEF ProgressInv, PastFirst, SeedingInv
<1>13. \/ UNCHANGED <<seeded, pc, at>>
       \/ Crash
       \/ \E r \in Seeder : Begin(r) \/ SeedNext(r) \/ FailSeed(r) \/ FinishSeed(r)
  BY DEF SeedingNext, Seed, Start, Others, svars
<1> QED
  BY <1>7, <1>8, <1>9, <1>10, <1>11, <1>12, <1>13

(* Nothing is registered and no request has begun at first. *)
LEMMA SeedingStart == SeedingInit => SeedingInv
<1> SUFFICES ASSUME SeedingInit
             PROVE  SeedingInv
  OBVIOUS
<1>1. TypeOK /\ log = <<>>
  BY InitType DEF SeedingInit, Init
<1>2. LogInv
  BY <1>1 DEF LogInv, RegisteredOnce
<1>3. Len(Dataset) \in Nat \ {0} /\ DOMAIN Dataset = 1 .. Len(Dataset)
  BY DatasetAssumption
<1>4. ProgressInv
  BY <1>3 DEF ProgressInv, PastFirst, SeededMeansPopulated, SeedingInit, SeedAnswers
<1> QED
  BY <1>2, <1>4 DEF SeedingInv

(* The invariant holds in every reachable state. *)
LEMMA SeedingInvariant == SeedingSpec => []SeedingInv
<1>1. SeedingInit => SeedingInv
  BY SeedingStart
<1>2. SeedingInv /\ [SeedingNext]_svars => SeedingInv'
  BY ProgressStep
<1> QED
  BY <1>1, <1>2, PTL DEF SeedingSpec

-----------------------------------------------------------------------------
(* "Seeded" and "already seeded" are only ever said of a dataset that is    *)
(* registered whole, whatever other requests, clients and restarts do       *)
(* between the lock regions of a seed (api.rs, admin_seed).                *)
THEOREM SaidOfWhole == SeedingSpec => []SeededMeansPopulated
<1>1. SeedingInv => SeededMeansPopulated
  BY DEF SeedingInv, ProgressInv
<1> QED
  BY <1>1, SeedingInvariant, PTL

(* At most one request ever answers "seeded", in the life of a journal and  *)
(* not only of a process: the first record of the dataset admits one.       *)
THEOREM OneSeeds == SeedingSpec => []OneRequestSeeds
<1>1. SeedingInv => OneRequestSeeds
  <2> SUFFICES ASSUME SeedingInv, NEW r \in Seeder, NEW q \in Seeder,
                      pc[r] = "seeded", pc[q] = "seeded"
               PROVE  r = q
    BY DEF OneRequestSeeds
  <2>1. Len(Dataset) \in Nat \ {0}
    BY DatasetAssumption
  <2>2. at[r] = Len(Dataset) + 1 /\ at[q] = Len(Dataset) + 1
    BY DEF SeedingInv, ProgressInv
  <2> QED
    BY <2>1, <2>2 DEF SeedingInv, ProgressInv, PastFirst
<1> QED
  BY <1>1, SeedingInvariant, PTL

(* No identifier is registered twice under its kind, by seeds, clients and  *)
(* starts together.                                                        *)
THEOREM RegistersOnce == SeedingSpec => []RegisteredOnce
<1>1. SeedingInv => RegisteredOnce
  BY DEF SeedingInv, LogInv
<1> QED
  BY <1>1, SeedingInvariant, PTL
=============================================================================
