------------------------------ MODULE Seeding -------------------------------
(***************************************************************************)
(* POST /admin/seed (api.rs, admin_seed and run_seed) and the first EXPRESS *)
(* deposit of a start (seed_express_deposit), next to other clients and     *)
(* restarts.  A seed request takes the flag's mutex, then the store's once  *)
(* for each record, then the flag's again.  The flag lives in the process;  *)
(* the records are in the journal, which a restart replays.                *)
(***************************************************************************)
EXTENDS RegistryStore

CONSTANTS
    Seeder,        \* requests for POST /admin/seed
    Dataset,       \* the records to seed, in order: a sequence of [kind, id]
    SeedVersion,   \* the version number they carry
    SeedWindow,    \* and their window
    CoreId,        \* the item of the first deposit
    CoreSource,    \* and its source
    Taken,         \* the identifiers that other clients register, too
    MaxCrash       \* bound on the number of times the process dies

ASSUME DatasetAssumption ==
    /\ SeedVersion \in Version /\ SeedWindow \in Window
    /\ {"data-element", "model"} \subseteq Class
    /\ CoreId \in Identifier /\ CoreSource \in Source
    /\ DOMAIN Dataset = 1 .. Len(Dataset) /\ Len(Dataset) \in Nat \ {0}
    /\ \A i \in DOMAIN Dataset :
           \/ Dataset[i].kind = "unit" /\ Dataset[i].id \in Identifier
           \/ Dataset[i].kind = "service" /\ Dataset[i].id \in ServiceId
           \/ /\ Dataset[i].kind \in {"protocol-binding", "verification-mechanism"}
              /\ Dataset[i].id \in DescriptorId

VARIABLES
    up,        \* is the process serving
    seeded,    \* AppState::seeded
    pc, at,    \* where each request is, and its position in the dataset
    crashes

svars == <<mem, log, up, seeded, pc, at, crashes>>

SeedAnswers == {"seeded", "already-seeded", "failed"}

SeedingInit == /\ Init
               /\ up = FALSE
               /\ seeded = FALSE
               /\ pc = [r \in Seeder |-> "idle"]
               /\ at = [r \in Seeder |-> 1]
               /\ crashes = 0

-----------------------------------------------------------------------------
SeedItem == [class    |-> "data-element",
             versions |-> [v \in {SeedVersion} |-> Entry("valid", SeedWindow)],
             manifest |-> [pin |-> SeedVersion, express |-> None]]

SeedOp(entry) ==
    CASE entry.kind = "unit" -> RegisterItemOp(entry.id, SeedItem)
      [] entry.kind = "protocol-binding" -> RegisterProtocolBindingOp(entry.id)
      [] entry.kind = "verification-mechanism" -> RegisterVerificationMechanismOp(entry.id)
      [] entry.kind = "service" ->
             RegisterServiceOp(entry.id, [v \in {SeedVersion} |-> Entry("active", SeedWindow)])

(* A mutant that registers over what is there. *)
CanSeedAgain(entry) == TRUE

CanSeed(entry) ==
    CASE entry.kind = "unit"                   -> CanRegisterItem(mem, entry.id)
      [] entry.kind = "protocol-binding"       -> CanRegisterProtocolBinding(mem, entry.id)
      [] entry.kind = "verification-mechanism" -> CanRegisterVerificationMechanism(mem, entry.id)
      [] entry.kind = "service"                -> CanRegisterService(mem, entry.id)

(* The first look at the flag.  A mutant sets it at once, against a second  *)
(* request.                                                                *)
BeginAndMark(r) == /\ up /\ pc[r] = "idle"
                   /\ pc' = [pc EXCEPT ![r] = IF seeded THEN "already-seeded" ELSE "seeding"]
                   /\ seeded' = TRUE
                   /\ UNCHANGED <<mem, log, up, at, crashes>>

Begin(r) == /\ up /\ pc[r] = "idle"
            /\ pc' = [pc EXCEPT ![r] = IF seeded THEN "already-seeded" ELSE "seeding"]
            /\ UNCHANGED <<mem, log, up, seeded, at, crashes>>

SeedNext(r) == /\ pc[r] = "seeding" /\ at[r] \in DOMAIN Dataset
               /\ CanSeed(Dataset[at[r]])
               /\ Record(mem, SeedOp(Dataset[at[r]]))
               /\ at' = [at EXCEPT ![r] = @ + 1]
               /\ UNCHANGED <<up, seeded, pc, crashes>>

(* A mutant that waits for the record to go away. *)
AwaitSeed(r) == FALSE

(* A record that is there is a conflict, and the end of the request.  What  *)
(* it has registered stays, and the flag is not set.                       *)
FailSeed(r) == /\ pc[r] = "seeding" /\ at[r] \in DOMAIN Dataset
               /\ ~CanSeed(Dataset[at[r]])
               /\ pc' = [pc EXCEPT ![r] = "failed"]
               /\ UNCHANGED <<mem, log, up, seeded, at, crashes>>

FinishSeed(r) == /\ pc[r] = "seeding" /\ at[r] \notin DOMAIN Dataset
                 /\ seeded' = TRUE
                 /\ pc' = [pc EXCEPT ![r] = "seeded"]
                 /\ UNCHANGED <<mem, log, up, at, crashes>>

(* Other clients register what the dataset contains. *)
Others ==
    /\ up
    /\ \/ \E id \in Identifier \cap Taken :
              \E manifest \in FirstManifests("data-element", SeedVersion) :
                  CreateItem(id, "data-element", SeedVersion, SeedWindow, manifest)
       \/ \E id \in DescriptorId \cap Taken :
              CreateProtocolBinding(id) \/ CreateVerificationMechanism(id)
       \/ \E id \in ServiceId \cap Taken, status \in ServiceStatus :
              CreateService(id, SeedVersion, SeedWindow, status)
    /\ UNCHANGED <<up, seeded, pc, at, crashes>>

-----------------------------------------------------------------------------
(* A start replays the journal, then deposits the core model unless there   *)
(* is an item of its name, and only then listens.  Unlike POST /models it   *)
(* stores whatever the validator says.                                     *)
CoreItem(validation) ==
    [class    |-> "model",
     versions |-> [v \in {SeedVersion} |-> Entry("valid", SeedWindow)],
     manifest |-> [pin     |-> SeedVersion,
                   express |-> [source |-> CoreSource, validation |-> validation]]]

DepositCore ==
    IF CanRegisterItem(mem, CoreId)
    THEN \E validation \in ValidationStatus :
             Record(mem, RegisterItemOp(CoreId, CoreItem(validation)))
    ELSE UNCHANGED vars

Start == /\ ~up
         /\ DepositCore
         /\ up' = TRUE
         /\ UNCHANGED <<seeded, pc, at, crashes>>

(* The process dies with its flag and its requests; the journal holds the   *)
(* records (JournaledStore).                                               *)
Crash == /\ up /\ crashes < MaxCrash
         /\ crashes' = crashes + 1
         /\ up' = FALSE
         /\ seeded' = FALSE
         /\ pc' = [r \in Seeder |-> IF pc[r] = "seeding" THEN "lost" ELSE pc[r]]
         /\ UNCHANGED <<mem, log, at>>

Seed(r) == Begin(r) \/ SeedNext(r) \/ FailSeed(r) \/ FinishSeed(r)

SeedingNext == Start \/ Crash \/ Others \/ \E r \in Seeder : Seed(r)

(* A handler that has started is polled until it returns.                   *)
SeedingSpec == /\ SeedingInit
               /\ [][SeedingNext]_svars
               /\ \A r \in Seeder : WF_svars(SeedNext(r) \/ FailSeed(r) \/ FinishSeed(r))

-----------------------------------------------------------------------------
Populated == \A i \in DOMAIN Dataset : ~CanSeed(Dataset[i])

(* "Seeded" and "already seeded" are only ever said of a whole dataset, to  *)
(* requests that race with the first one, too (admin_seed).                *)
SeededMeansPopulated ==
    /\ seeded => Populated
    /\ \A r \in Seeder : pc[r] \in {"seeded", "already-seeded"} => Populated

(* However many requests run together or after a restart, at most one seeds *)
(* (api.rs, AppState::seeded: "prevents double-seeding").                   *)
OneRequestSeeds == \A r, q \in Seeder : pc[r] = "seeded" /\ pc[q] = "seeded" => r = q

(* The dataset is registered by seeds and clients together at most once:    *)
(* no record of the log registers an identifier of its kind again.          *)
RegisteredOnce ==
    \A i, j \in DOMAIN log :
        /\ log[i].op.op = log[j].op.op
        /\ log[i].op.identifier = log[j].op.identifier
        => i = j

(* A seed request ends, in an answer or with its process.                   *)
SeedsEnd == \A r \in Seeder : pc[r] = "seeding" ~> pc[r] # "seeding"
=============================================================================
