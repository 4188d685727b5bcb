# A verification model of unidpp-registry

TLA+ modules, TLC runs and TLAPS proofs for the ISO 19135 registry service in
`src/`. This file says what the system is, which module models which part of
it, what each run and each theorem shows, and what is left out. Line numbers
refer to `src/src/` unless another directory is named.

## 1. The system

One process serves HTTP (axum on tokio). Its state is `AppState`
(`api.rs:144`): a `Store` behind one mutex, a keyring behind a second and a
"seeded" flag behind a third. The store is a value in memory; every mutation
is appended as a numbered record to an audit log and, when a state file is
configured, as one line to a JSONL journal, and then applied. A start replays
the journal with the same `apply`.

| Component | State | Operations | Hard behaviour | What makes it correct |
|---|---|---|---|---|
| Registry store (`store.rs`) | items, bindings, services, C4/C5 descriptors, audit log, binding counter | `register_item`, `supersede`, `bind`, `register_service`, `supersede_service`, `register_protocol_binding`, `register_verification_mechanism`, `update_model_validation` | long sequences of legal calls; two places that advance the counter | ids unique, references resolve, log folds to the state |
| Item versions (`model.rs`) | the versions of an item: status, window, link | order, current version, derived window, read at an instant, supersession chain | backdated and tied starts, explicit ends, string order of numbers | one chain, one valid version, reads agree with links, windows partition time |
| Service versions (`discovery.rs`) | the same for C3 services, with an operator-chosen status and a signed body | the same, and the check of a signature | successors that are not active; reads at an instant that ignore derived ends | at most one active version, forward links, every version still verifies |
| C4 and C5 descriptors (`discovery.rs`) | typed fields, body, signature | registration, `to_json`, `from_json_value`, `verify` | what is shown and kept is put together from request and body | a restart changes nothing shown; what verified verifies |
| Journal (`store.rs`) | the lines of the file and its unterminated tail | `record`, `open`, `replay` | crash between any two writes, torn lines, failed writes, restarts | answered requests survive, numbering, replay equals state |
| Service supersession (`api.rs:1379`) | a request's target, read before it is used | four lock regions | two requests racing for one target | one chain, accepted means accepted, all answered |
| Model validation (`api.rs:2098`, `express.rs`) | the source and version a request read | read, run expressir unlocked, record | supersession while the tool runs | the status shown is that of the source shown |
| Intake (`intake.rs`, `satisfiability.rs`, `schema.rs`, `manifest.rs`, `mapping.rs`) | none | signed form, schema, typed parser, satisfiability, references | two parsers of one document; referents that change later | what is accepted can be evaluated, and stays acceptable |
| Applicability (`model.rs:480`, `api.rs:1043`) | none (reads bindings, manifests, facts) | dated evaluation | retroactivity, stamps taken before the lock, manifests that change | a binding never obliges before it may; past answers stand |
| Clock predicates (`clock.rs`) | none | durations, calendar arithmetic, triggers | short months, leap days, overflow | a later basis never has an earlier threshold |
| Timestamps (`time.rs`) | none | parsing, civil calendar | leap years, offsets at the ends of the calendar | what is written can be read again |
| Seeding (`api.rs:2226`, `3220`) | the seeded flag | `POST /admin/seed`, first deposit | two requests, failure halfway, restart | every record once, or a retry that finishes |
| CDDAL (`cddal.rs`) | none | text rendering | - | - |
| HTTP, OpenAPI, admin token (`api.rs`, `lib.rs`, `main.rs`) | none | routing | - | - |

Components interact only through the store: the handlers hold its mutex for
one read or one read-check-record region, except `supersede_service` and
`validate_model`, which release it between reading and recording, the handler
that binds, which reads the clock before it takes it, and `admin_seed`, which
takes it once per record.

## 2. Modules

    VersionHistory            versions of one item or service (pure)
      StoreTransitions        the store as a value, `apply', `replay', the guards
        StoreProperties       what a store must satisfy, as predicates
          RegistryStore       the state machine: mem, log; one action per operation
            JournaledStore    + file, crashes, restarts
            ServiceRequests   + program counters of supersede_service
            ModelValidation   + program counters of validate_model
            Seeding           + the seeded flag, admin_seed, starts
            Discovery         + bodies, signatures, keyring, restarts
            Applicability     + documents, intake, the clock, requests to bind
    LinearRegister            the abstract register (refined by RegistryStore)
    JsonValues                JSON values and the questions asked of one (pure)
      Manifests               schemas, typed parsers, satisfiability (pure)
    Calendar                  timestamps, durations, time triggers (pure)
      CalendarWalk            a walk through the calendar that counts the days
    MC...                     instances for TLC
    RegistryStoreProofs       theorems about the store (TLAPS), section 4
      JournalProofs, SeedingProofs, RequestsProofs, ModelValidationProofs,
      DiscoveryProofs, ApplicabilityProofs
    CalendarProofs            theorems about the calendar (TLAPS)

**The store.** `mem` is `Store` without log and journal, `log` is
`Store::log`. `Record` is `Store::record`: append, then `Apply`. Each action
is a handler from its first lock to its answer: the guard `Can...` is the
store's checks in the order of its early returns, the manifests a request may
bring are those the handler accepts (`FirstManifests`, `NextManifests`). A
refused request changes nothing and is no step.

Abstractions of data, and why they lose nothing that is checked:

- an instant is a natural number; only comparisons are made on it (`Calendar`
  makes it an integer and does the arithmetic);
- a version number is its rank among the strings in use: the code compares
  strings for equality and sorts them;
- a version history is a function from numbers to versions. The vector's
  order is never observed: every read sorts by (start, number), a total order
  because the guards keep numbers unique. `VersionsImmutable` is the property
  that would break if they did not;
- titles, registers and notes are left out, and in `RegistryStore` bodies,
  signatures and documents too: a manifest is its version key and its express
  block there. `Discovery` and `Applicability` keep beside `mem` what is left
  out (`published`, `described`, `content`);
- `"data-element"` stands for every class without an intake check of its own;
- the terms of a binding (window, retroactive flag) are opaque to the store:
  no operation of it reads them. `Applicability` gives them their fields;
- `bind` advances the counter before it records and `apply` does so again;
  both are in `BindApplicability`.

**The journal.** A file is a sequence of complete lines and a tail.
`writeln!` on an unbuffered `File` issues several writes, so any prefix of a
line can be what reaches the disk. A text added to an unterminated tail shares
its line, and two texts on one line are no record. What is no record is one of
three texts (`Empty`, `Junk`, `Undecodable`), told from every record by its
fields. `Keep` is one turn of the loop of `replay`, `RecordsIn` the loop.
`failed` is a history variable that no action's guard reads.

**Requests.** In `ServiceRequests` a request is `idle -> found -> verified ->
targeted -> rechecked -> accepted`, or refused at any step. In
`ModelValidation` it is `idle -> validating -> answered`, with `held` the
source and version it read; expressir is a constant `Verdict`, or `pending`
when it cannot be run. The second lock records the outcome or answers an
error (`RecordOutcome`); `OutcomeRecordable` says that it never is the
error. In `Seeding` a request takes one step per lock it takes, a start
deposits the core model before it serves, and a crash loses the flag and the
requests but not the records, which `Journal` justifies for a journal
without faults.

**Descriptors.** In `Discovery` a body is a JSON value, 64 hex digits are a
key and 128 are a signature that says which key signed what: Ed25519 is what
it promises, SHA-256 of a key is a constant without collisions
(`OperatorIdAssumption`). A request is a body and a signature
(`Submission`); `ServiceAccepted` and `DescriptorAccepted` are the handlers'
parsers and `OperatorKeyring::verify`. A service keeps its body as it came. A
C4 or C5 descriptor is shown and journaled as its body with the typed fields
laid over it (`Shown`, `to_json`), and `Restart` reads it back from that
(`ReadBack`, `from_json_value`): the body that is kept is another one then.

**Intake and applicability.** `Manifests` has each of the two generated
schemas as operators beside the typed parser that reads the same document
afterwards. `Applicability` submits documents by name through the chain of
checks (`IntakeAccepts`), with strict mode on or off, and evaluates queries
with the manifest a profile carries at that moment. A request to bind is
stamped in one step and recorded in a later one; the clock of the machine may
be set back between any two steps.

**The calendar.** `Calendar` is integer arithmetic as in the code, with
division that truncates and sums that wrap at `Half`. `CalendarWalk` steps
month by month from January 1970, counts the days it passes, and compares the
closed formulas with its counters. `ReachAssumption` and `DurationAssumption`
say that the instants in question fit in the integers; with days of 86 400
seconds and `Half` = 2^63 the first holds for all years a timestamp can have,
and the second for every duration of up to 280 billion years. Beyond
them sums wrap, and nothing is claimed.

## 3. Runs

Deadlock is not checked anywhere: a registry nobody calls may stay idle, and
the bounds stop the models. Sizes are TLC's distinct states.

| Run | Result | What it shows |
|---|---|---|
| `Lifecycles` | passes | One item and one service, three numbers, starts 0 and 1, explicit ends 1 and 2 or none, any target and status: `HistoriesLinear`, `ChainsReachCurrent`, `WindowsPartition`, `ServicesForward`, `VersionsImmutable`, and the refinement of `LinearRegister` by both kinds of history |
| `AllOperations` | passes | All eight operations on two items: types, ids unique, pins resolve, the log folds to the state |
| `Journal` | passes | Crashes at any point of a record, torn lines, failed writes: a torn tail alone costs nothing answered; memory is always the fold of the log; binding ids stay unique whatever is lost; and the file, read through `Replay` up to its first damaged line, implements `RegistryStore` itself (crashes and restarts are stutters, a record written before its answer is a step) |
| `ServiceRequests` | passes | Two racing supersessions and new registrations: one chain, an accepted request keeps its place, every request is answered |
| `ModelValidation` | passes | Two validations, a deposit, supersessions: outcomes can always be recorded, and on a model that nobody superseded the status is that of its source |
| `Seeding` | passes | Two seed requests beside each other, clients that register the same identifiers, two restarts: "seeded" is only said of a whole dataset, at most one request seeds, nothing is registered twice, every request ends |
| `Discovery` | passes | Sound, forged, misnamed and incomplete submissions, supersessions and restarts: what was accepted still verifies with the status that was signed, restarts change nothing that is shown, and a descriptor that states itself verifies for ever |
| `Applicability` | passes | Profiles and mappings through intake, supersessions with and without a manifest, delayed bindings, a clock that jumps: no query is refused for a manifest intake accepted, what was accepted stays acceptable, mappings keep their ends, answers for settled instants stand |
| `Calendar` | passes | The formulas of `time.rs` and `clock.rs` against the walk: days, months, thresholds, and the round trip of a timestamp |
| `ServiceWindows` | violation | service reads ignore derived ends (`discovery.rs:684-696`; `src/README.md:221-222`) |
| `TornLine` | violation | a torn line swallows the first record after the restart (`store.rs:323`; comment at 344) |
| `StaleVerdict` | violation | a verdict is written next to a source it is not about (`store.rs:432`; `src/README.md:98`) |

Every property of a passing run has a mutant of the code in `PROJECT.json`
that breaks it under the same bounds.

**Other differences** between the code and what its comments, README or
examples say, seen while modelling and too plain for a run of their own:

- `current_version` of a service never falls back to "any non-superseded"
  (`discovery.rs:675-680`, and `model.rs:308` for items): the second search
  runs on the iterator the first has exhausted. A service without an active
  version has no current one;
- `ordered_versions` says "registration order" and sorts by start and number
  (`model.rs:292`);
- a line cut inside a multi-byte character makes every later start fail,
  where a torn line is meant to be skipped (`store.rs:331`);
- a failed journal write is printed and answered with success
  (`store.rs:360-363`), and after a skipped line the next record repeats a
  number (`store.rs:356`);
- of two seed requests in one process one is answered with a conflict
  (`api.rs:2239`), though `src/README.md:303` calls the endpoint idempotent
  per process; a seed that fails halfway keeps what it registered (`api.rs:2258`
  says it does not), and so does every seed after a restart, because the flag
  is not persisted;
- a supersession accepts a manifest with no version key, which registration
  refuses, and on a model any express block, validated or not
  (`api.rs:750-800`);
- two validations of one source, one of them without the tool, are recorded in
  the order they end: a late `pending` replaces a `valid` (`api.rs:2126`);
- a C4 or C5 descriptor whose body does not state its own identifier (or a
  protocol binding its version) is accepted, and its `verify` then fails: it
  hashes `to_json`, where those fields are laid over the body
  (`discovery.rs:923-928`, "the body used as the signature input";
  `api.rs:1595`, "the same convention as services"). Dropped media types do
  the same;
- a timestamp with an offset at the edges of years 0 and 9999 is accepted, but
  what the registry shows of it does not parse, so its record is skipped at
  the next start (`time.rs:130`, `139`);
- durations are added in `i64` unchecked: a very long one wraps and puts the
  threshold before its basis in a release build, and panics under the store's
  lock with overflow checks (`clock.rs:146`);
- the example of `mapping.rs:10-19` has `"version": null`, which the generated
  schema refuses; `manifest.rs:7-11` says schema and typed model accept the
  same documents, where the model takes nulls that the schema refuses (the
  other direction is `ProfileParity`);
- the answer for an instant uses the manifest a profile has now, whatever
  version the binding pins or was in force then (`api.rs:1054`).

**Bounds.** `MaxLog` bounds the audit log, `MaxCrash` the crashes,
`MaxAnswered` the answered requests. Three records suffice for a history with
a middle version (two links, the second of which a wrong guard would add to a
superseded version); `AllOperations` has four so that a binding can be pinned
to a superseded version of a profile and so that three bindings can follow a
registration. `Seeding` registers each identifier of the dataset and the core
model once: five records, of the nine the bound allows. Two crashes are what
it takes to lose an answer: one to tear a line, one to replay the file after
the next record was joined to it. `ModelValidation` has three numbers and five
records (a deposit, two supersessions, two outcomes), so that the bound never
keeps an outcome from being recorded; `ServiceRequests` likewise (a
registration and two successors).

`Discovery` (96,794 states) has one service and one descriptor identifier,
three keys of which the keyring knows two, and 22 submissions: each check has
one that fails it alone, and the sound ones differ in what a body may leave
out, state as null or carry along (its own signature, elements of the wrong
type). Descriptors of one kind never look at each other, so one identifier
suffices; four records allow a service two supersessions with a descriptor
beside them. `Applicability` (284,016 states) has a profile, a mapping, two
versions and one request in flight: pending requests do not read each other,
and `PastAnswersStand` is about the stamps of all of them together, the least
of which decides. Three records allow a profile, its supersession and a
binding, or a profile, a mapping to it and a supersession of either.
`Calendar` has days of 4 ticks (each formula treats the time of day as a
remainder), `Half` = 2^24 so that sums in range never wrap, and the years
-1..404, 1590..2410 and 9590..10000: leap years, a century with a leap day and
three without, a whole era on both sides of 1970, the negative branch of both
formulas and both ends of what `parse` takes. `ErasAway` jumps whole eras of
400 years between those stretches.

**Fairness.** `ServiceRequests` assumes weak fairness of each request's next
step: tokio polls a started handler until it returns, no lock is held across
steps, and every lock region is finite. `Create` and the arrival of requests
have no fairness of their own. `Seeding` assumes it of the steps of a seed
that has begun, for the same reason. No run assumes that expressir stops: the
code waits for it without a timeout (`express.rs:177`), so a validation need
not end, and `ModelValidation`, like the other specifications, states safety
only.

## 4. Proofs

TLAPS checks the following for every value of the constants that satisfies the
named assumptions of the modules; TLC evaluates those assumptions on every
run. `PROJECT.json` lists the theorems with the property each one states.

**The store** (`RegistryStoreProofs`), all of the form `Spec => []...`:

- `TypeCorrect`: inductive as it stands. `IsStore` and `IsLog` say what each
  component is; one lemma per arm of `apply` shows that it keeps `IsStore`,
  and one per action that the operation it records is well-formed (`IsOp`).
  `IsLog` contains that the numbers are 1, 2, 3, ... The lemmas on the actions
  ask of the memory only that it is a store (`OperationStep`), so that the
  journal can use them, where the numbers of the log need not be in order.
- `BindingIds`: that ids are unique is not inductive; that they are also below
  the counter makes it so. Only one operation touches bindings and counter
  (`BindAdvancesOnce`, `ApplyKeepsBindings`); the id it takes is the old
  counter and the new counter is past it, although it is advanced twice.
- `LinearHistories`: `LinearHistory` is inductive. `SupersededLinear` is the
  heart: the guard makes the target the one valid version, so the new link
  starts at the only version that had none and ends at a number no link could
  have led to.
- `PinsRegistered`: items only grow (`ItemsGrow`), so a reference that
  resolved when it was accepted still does; the manifest of a supersession is
  pinned to a version that is there after it.
- `ServicesLeadForward`: operators choose statuses, so the argument for items
  does not carry over: there may be no active version at all. `ServicesOrdered`
  is the property with "no two versions are active" in the place of its
  cardinality, which is derived from it (`OneActiveIsSmall`); the guard makes
  the target the one active version, and an active version has no link.
- `Immutable`: an action property, from the two invariants above: the only
  version a step changes is the target of a supersession, which had no link.

**Logs, chains and windows** (`RegistryStoreProofs`):

- `LogReplays`: `Replay` is a recursive function, and what it computes has to
  be followed by an induction. The library's induction rules take an operator
  as a parameter and cannot be used; `LeastElement` (a nonempty set of numbers
  has a least one, from the well-foundedness of `<`) is the rule they come
  from, applied to the set of lengths that would contradict the claim.
  `ReplayExists` and `ReplayUnique` show that the recursive equation has one
  solution, `ReplayStep` that a longer log applies one more operation.
- `ItemsImplementRegister`, `ServicesImplementRegister`, the refinements of
  `LinearRegister`: the inductive invariant is `LineagesSound`, that the chain
  from the version no link leads to is a lineage (`IsLineage`): every version
  once, each linked to the next, with starts that never fall. It needs
  `HistoriesLinear` and `ServicesOrdered`, because the step that matters links
  the one version that has no link (`SupersededLineage`). `LineagesStep`
  maps a registration to `Start`, a supersession to `Extend` and everything
  else to a stutter.
- `ChainsReach`: the chain from any version is the rest of the lineage
  (`ChainsOfLineage`), whose last version is the current one.
- `WindowsPartitionTime`: the derived window of a version ends where that of
  its successor starts (`WindowsOfLineage`).

**The journal** (`JournalProofs`). The inductive invariant comes in parts, each
checked with TLC under the bounds of `Journal` first:

- `MemoryInv` is the types and, for a running process, that the memory is the
  fold of its log. The log is not known to be numbered in order: after a
  skipped line it is not. `FileInv` is about what a start *would* read, with
  and without the tail: both readings rebuild distinct binding ids, and the
  counter of a running process is past all of them. The reading without the
  tail is needed because the next write may damage the tail. They give
  `JournalTypes`, `MemoryFollowsLog` and `BindingIdsSurvive`.
- `WholeInv`: while no complete line is damaged and no write has failed, a
  running process has exactly the log a start would read, and what a start
  would read, with and without the tail, rebuilds linear histories.
  It gives `HistoriesSurvive`, and with `AckedInv` (answered operations are
  embedded in the complete lines, in order) `AnswersSurvive`. Without "no
  complete line is damaged" both are false: `TornLine`.
- `SoundInv`: when every complete line is sound, a running process holds
  exactly them or more records than lines; in the second case its next record
  breaks the numbering and the sound prefix stays. It makes every step of the
  journal a step of the store on the sound prefix or a stutter
  (`SoundInductive`), which is `JournalImplementsStore`. What is proved of
  `Spec` therefore holds of the sound prefix of the file at every moment.

**Seeding** (`SeedingProofs`): `SeedingInv` is `LogInv`, that every record of
the log is a registration of something that is there and no two are the same,
and `ProgressInv`: what is behind a request's position in the dataset is
registered, a request that said "seeded" is at its end, and at most one request
of the whole run is past the first record (`PastFirst`), because the first
record admits only one. `SaidOfWhole`, `OneSeeds` and `RegistersOnce` follow.
That the dataset is not empty is an assumption (`DatasetAssumption`); it is a
literal in `run_seed`. `SeedingSpec` does not implement `Spec`: the first
deposit of a start stores a model whose source is invalid, which
`POST /models` refuses.

**The compositions** (`RequestsProofs`, `ModelValidationProofs`,
`DiscoveryProofs`, `ApplicabilityProofs`). Each of the four is shown to
implement the store (`RequestsImplementStore`, `ModelsImplementStore`,
`DiscoveryImplementsStore`, `ImplementsStore`: a step of the handlers is a step
of `RegistryStore` or leaves `mem` and `log` alone), so the theorems above hold
of it, and its own invariants are proved on top:

- `ServiceRequests`: `RequestsInv` is the types, `ServicesOrdered`, that the
  service a request found stays (`RequestsSeen`), and that the link an accepted
  request made stays (`PlacesKept`). The first step that is not obvious is that
  a defaulted target is a version at all: `current_version` is a choice among
  the active ones, of which `ServicesOrdered` says there is one at most. From
  it follow `RequestsTyped`, `ForwardUnderRaces` and `AcceptedKeepPlace`.
- `ModelValidation`: `ModelsInv` adds to the histories that what a running
  validation holds is still there (`SourcesHeld`) and that statuses are
  outcomes of their own sources (`StatusesTruthful`), both for models with one
  version only as far as sources go: one step, a supersession, breaks that
  condition for ever, and every other step keeps the source. From it follow
  `OutcomesRecordable` and `UnsupersededTruthful`. That None is no express
  block and no manifest is `NoBlockAssumption`.
- `Discovery`: `ServicesSigned` follows services and bodies together through
  registration, supersession and restart. For descriptors the invariant
  (`KindInv`) says of each line that it is complete (`LineComplete`) and that a
  body that states itself was signed as the line shows it (`LineVerifies`);
  `ReadBackSame` and `CompleteVerify` follow. `MediaTypesAssumption`, that
  dropping the elements that are no texts twice is dropping them once, is true
  of every list by induction and evaluated by TLC.
- `Applicability`: `ApplicabilityTyped`, `AcceptedForEver` and
  `MappingsKeepTheirEnds` (referents resolve in items that only grow),
  `NeverRefused` (through `ParsedIsEvaluable`), and `PastStands`: a binding
  that is recorded was stamped later than any settled instant, so that it
  applies there only when it is retroactive.

**Intake** (`ApplicabilityProofs`): `ProfileParity` and `MappingParity`, what
the generated schema accepts parses into the typed model; `ParsedIsEvaluable`,
the time triggers of what parses can be read by the evaluation. The converses
do not hold (section 3).

**The calendar** (`CalendarProofs`), for every set of years, every length of a
day and every `Half` that the two assumptions above allow:

- Months are numbered from January of the year 0. `MonthStart(k)`, the days
  before month k, is a sum of quotients of k, and the same with the days of
  the month added is `DayNumber`. Month by month it advances as
  `DaysInMonth` says (`MonthLength`: the February of a year that is divisible
  by 4, 100 or 400 is the case that matters), by 31 at most (`MonthsAdvance`),
  and by the same number in every era (`ErasRepeat`). So `WalkInv`, that the
  walk's counters are these formulas, is inductive (TLC checked it first).
- `days_from_civil` is `DayNumber` wrapped (`DaysFromCivilIs`: era and year of
  the era are quotient and remainder also for negative years), and
  `civil_from_days` inverts it on every date (`CivilOfDayNumber`). The hard
  part is its correction of the day of an era (`YearOfEra`): written in
  centuries, groups of four years and single years, the three quotients undo
  the leap days. Every integer is the number of a date (`EveryDayIsCivil`).
  With it `DaysAreCounted`.
- `add_duration` with what fits is `Moved`, the same day or the last of the
  month that many months on (`MonthsMove`); `MonthsLeadBack` follows, and
  `ThresholdsFollowBases`: the clamp keeps the order within a month
  (`MovesOn`), and no day of a month is clamped past the first of the next.
- `ShownStampsReadBack`: a tick and a zone move an instant by a day at most
  (`NextDay`), the date that is shown of it is the one whose number it has
  (`ShownIs`), and the numbers of the four-digit years are an interval
  (`FourDigits`).

Only model-checked is liveness: `SeedsEnd` and `EveryRequestAnswered`. The
prover has no rules for fairness and ENABLED. The `violation` runs show
counterexamples and have no theorem.

## 5. Not modelled

- CDDAL (`cddal.rs`): a rendering of collections as text, without state.
- HTTP: routing, content negotiation, admin tokens, error bodies, the OpenAPI
  contract, and the filters of the listings (`list_items`, `list_services`).
- Where the keyring's keys come from; it is a constant that a start has
  filled. SHA-256 and Ed25519 themselves.
- Parsing of duration and cardinality texts, separators and fractions of a
  second in timestamps: the texts are constants with their meaning.
- Loss of written lines below the process (no `fsync`), and two processes on
  one journal.
- The end of a validation: the code waits for expressir without a timeout, so a
  tool that hangs keeps its request and a worker thread for ever, and one that
  hangs in the first deposit keeps the listener from being bound. Nothing in
  the code bounds the wait, and a property could only assume that it ends.
- Poisoned mutexes: after a panic under a lock every later `lock()` panics.

## 6. Where it could go on

The services' reads at an instant as a reference for a repaired
`in_force_at`; and the journal with the bodies of `Discovery` in its lines,
which would join `Restart` to the torn and failed writes of `JournaledStore`.
