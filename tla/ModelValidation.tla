-------------------------- MODULE ModelValidation ---------------------------
(***************************************************************************)
(* POST /models/{id}/validate (api.rs, validate_model) next to deposits and *)
(* supersessions: the source is read under one lock, the external validator *)
(* runs with none held, and its outcome is recorded under a second lock.    *)
(* A model item can be superseded through POST /items/{id}/versions like    *)
(* any other, with a new source in its manifest.                           *)
(***************************************************************************)
EXTENDS RegistryStore

CONSTANTS Validator,   \* requests that validate
          Verdict      \* what expressir says of each source, when installed

ASSUME ModelClassAssumption == "model" \in Class
ASSUME NoBlockAssumption == None \notin Express /\ None \notin Manifest
ASSUME VerdictAssumption == Verdict \in [Source -> {"valid", "invalid"}]

VARIABLES pc, held     \* held[r]: the item, source and version r has read

mvars == <<mem, log, pc, held>>

Nothing == [id |-> None, source |-> None, version |-> None]

ModelsInit == /\ Init
              /\ pc = [r \in Validator |-> "idle"]
              /\ held = [r \in Validator |-> Nothing]

(* A mutant that does not look at the exit status of the tool.              *)
RunOutcomes(source) == {"valid", "pending"}

(* validate_with_expressir: pending when the tool cannot be run.            *)
Outcomes(source) == {Verdict[source], "pending"}

Deposit ==
    /\ \E id \in Identifier, number \in Version, w \in Window, source \in Source :
           \E validation \in Outcomes(source) :
               DepositModel(id, number, w, source, validation)
    /\ UNCHANGED <<pc, held>>

(* A supersession that keeps the source, drops it or brings another one,    *)
(* not yet validated.                                                      *)
Supersede ==
    /\ \E id \in DOMAIN mem.items, number \in Version, w \in Window :
           \E target \in DOMAIN mem.items[id].versions,
              manifest \in {None} \cup
                  [pin     : {number},
                   express : [source : Source, validation : {"pending"}] \cup {None}] :
                  SupersedeItem(id, target, number, w, manifest)
    /\ UNCHANGED <<pc, held>>

(* The first lock.  What is no model, has no deposit or no current version  *)
(* is refused.                                                             *)
Validatable(id) == /\ mem.items[id].class = "model"
                   /\ mem.items[id].manifest # None
                   /\ mem.items[id].manifest.express # None
                   /\ CurrentVersion(mem.items[id].versions, "valid") # None

ReadSource(r) ==
    /\ pc[r] = "idle"
    /\ \E id \in DOMAIN mem.items :
          \/ /\ Validatable(id)
             /\ pc' = [pc EXCEPT ![r] = "validating"]
             /\ held' = [held EXCEPT ![r] =
                    [id      |-> id,
                     source  |-> mem.items[id].manifest.express.source,
                     version |-> CurrentVersion(mem.items[id].versions, "valid")]]
          \/ /\ ~Validatable(id)
             /\ pc' = [pc EXCEPT ![r] = "answered"]
             /\ UNCHANGED held
    /\ UNCHANGED <<mem, log>>

(* The second lock, with the outcome of the source that was read: recorded, *)
(* or the request is answered with an error and records nothing.            *)
RecordOutcome(r) ==
    /\ pc[r] = "validating"
    /\ pc' = [pc EXCEPT ![r] = "answered"]
    /\ IF CanUpdateModelValidation(mem, held[r].id, held[r].version)
       THEN \E validation \in Outcomes(held[r].source) :
                UpdateModelValidation(held[r].id, held[r].version, validation)
       ELSE UNCHANGED <<mem, log>>
    /\ UNCHANGED held

ModelsNext == Deposit \/ Supersede \/ \E r \in Validator : ReadSource(r) \/ RecordOutcome(r)

ModelsSpec == ModelsInit /\ [][ModelsNext]_mvars

-----------------------------------------------------------------------------
Judged(id) == /\ mem.items[id].manifest # None
              /\ mem.items[id].manifest.express # None
              /\ mem.items[id].manifest.express.validation # "pending"

Truthful(id) == mem.items[id].manifest.express.validation =
                    Verdict[mem.items[id].manifest.express.source]

(* README, GET /models/{id}: "a deposit's source, content hash and          *)
(* validation status": a status that is not pending is the verdict on the   *)
(* source it is shown with.                                                *)
StatusIsOfTheSource == \A id \in DOMAIN mem.items : Judged(id) => Truthful(id)

IsUnsuperseded(id) == \E v \in Version : DOMAIN mem.items[id].versions = {v}

(* The same for a model nobody superseded: concurrent validations and late  *)
(* outcomes alone never put a wrong verdict next to a source.               *)
UnsupersededStatusIsOfTheSource ==
    \A id \in DOMAIN mem.items : Judged(id) /\ IsUnsuperseded(id) => Truthful(id)

(* The second lock never finds its item or its version gone, so the outcome *)
(* of every validation that read a source is recorded.                     *)
OutcomeRecordable ==
    \A r \in Validator : pc[r] = "validating" =>
        CanUpdateModelValidation(mem, held[r].id, held[r].version)
=============================================================================
