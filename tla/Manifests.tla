----------------------------- MODULE Manifests ------------------------------
(***************************************************************************)
(* What intake and evaluation see of a manifest: its JSON document, the two *)
(* generated schemas (manifest.rs, mapping.rs) in the keywords of schema.rs, *)
(* the typed parsers that read the document afterwards, and the demands of  *)
(* satisfiability.rs.                                                      *)
(*                                                                         *)
(* A document is a tagged value.  Its `version' is the pin RegistryStore    *)
(* keeps, so it is not among the fields here.  Both schemas have a fixed     *)
(* depth: each object they describe is an operator, and no recursion is      *)
(* needed.                                                                 *)
(***************************************************************************)
EXTENDS JsonValues

CONSTANTS
    DurationTexts,    \* the texts parse_duration accepts, with their components
    CardinalityTexts  \* the texts of the form <n> or <n>..<n|n>

-----------------------------------------------------------------------------
(* The keywords of the schemas, as operators on JSON values.                *)

NonBlank(v)   == v.type = "string" /\ v.text \notin {"", " "}
IsBoolean(v)  == v.type = "boolean"
Unsigned(v)   == v.type = "integer" /\ v.value >= 0

Required(v, keys) == v.type = "object" /\ keys \subseteq DOMAIN v.fields

(* A key that is not required, when it is there: its values, its type.      *)
OneOfAt(v, key, S)    == Has(v, key) => OneOf(v.fields[key], S)
NonEmptyAt(v, keys)   == \A key \in keys : Has(v, key) => NonEmpty(v.fields[key])
ArrayAt(v, keys)      == \A key \in keys : Has(v, key) => v.fields[key].type = "array"

-----------------------------------------------------------------------------
(* The schema of a profile manifest.                                       *)

IssuerClasses     == {"law", "treaty", "consensus", "declaration", "attestation"}
CapabilityClasses == {"S0", "S1", "S2", "S3"}
Axes              == {"jurisdiction", "sector", "characteristic"}
Granularities     == {"type", "lot", "instance"}
PredicateClasses  == {"fact_predicate", "time"}
Bases             == {"manufactured_at", "first_registered_at"}
Operators         == {">=", ">", "<=", "<"}

IsDuration(v)    == OneOf(v, DOMAIN DurationTexts)
IsCardinality(v) == OneOf(v, CardinalityTexts)

LegalBasisConforms(v) ==
    /\ Required(v, {"instrument", "citation", "force"})
    /\ NonEmptyAt(v, {"instrument", "citation", "force"})

DataPointConforms(v) ==
    /\ Required(v, {"element", "min_capability"})
    /\ NonEmptyAt(v, {"element", "required_provenance", "required_unit", "trust_floor",
                      "visibility"})
    /\ OneOfAt(v, "min_capability", CapabilityClasses)
    /\ OneOfAt(v, "subject_granularity", Granularities)
    /\ Has(v, "cardinality") => IsCardinality(v.fields["cardinality"])
    /\ Has(v, "tier_a") => IsBoolean(v.fields["tier_a"])
    /\ Has(v, "traversal_depth") => Unsigned(v.fields["traversal_depth"])
    /\ Has(v, "fresh_within") => IsDuration(v.fields["fresh_within"])

TransformConforms(v) ==
    /\ v.type = "object"
    /\ NonEmptyAt(v, {"transform_ref", "transform_class", "method_citation",
                      "decision_rule", "uncertainty_ref"})

(* The two if/then pairs make the remaining keys of a trigger required.     *)
TriggerConforms(v) ==
    /\ Required(v, {"predicate_class"})
    /\ OneOfAt(v, "predicate_class", PredicateClasses)
    /\ NonEmptyAt(v, {"predicate_ref", "evaluation_mode", "description"})
    /\ OneOfAt(v, "basis", Bases)
    /\ OneOfAt(v, "operator", Operators)
    /\ Has(v, "duration") => IsDuration(v.fields["duration"])
    /\ Required(v, IF v.fields["predicate_class"].text = "time"
                   THEN {"basis", "operator", "duration"} ELSE {"predicate_ref"})

ArrayKeys == {"axes", "legal_basis", "data_points", "transforms", "triggers"}

ProfileConforms(doc) ==
    /\ doc.type = "object"
    /\ OneOfAt(doc, "subject_capability", CapabilityClasses)
    /\ ArrayAt(doc, ArrayKeys)
    /\ \A v \in Elements(doc, "axes") : OneOf(v, Axes)
    /\ \A v \in Elements(doc, "legal_basis") : LegalBasisConforms(v)
    /\ \A v \in Elements(doc, "data_points") : DataPointConforms(v)
    /\ \A v \in Elements(doc, "transforms") : TransformConforms(v)
    /\ \A v \in Elements(doc, "triggers") : TriggerConforms(v)

-----------------------------------------------------------------------------
(* The typed model.  Unlike the schema it takes null for an absent key.     *)

NonEmptyGiven(v, keys) == \A key \in keys : Given(v, key) => NonEmpty(v.fields[key])
ArrayGiven(v, keys)    == \A key \in keys : Given(v, key) => v.fields[key].type = "array"

(* clock.rs, parse_time_trigger. *)
TimeTriggerParses(v) ==
    /\ HasTextOf(v, "basis", Bases)
    /\ HasTextOf(v, "operator", Operators)
    /\ HasTextOf(v, "duration", DOMAIN DurationTexts)

TriggerParses(v) ==
    \/ HasTextOf(v, "predicate_class", {"fact_predicate"}) /\ FilledText(v, "predicate_ref")
    \/ HasTextOf(v, "predicate_class", {"time"}) /\ TimeTriggerParses(v)

DataPointParses(v) ==
    /\ FilledText(v, "element")
    /\ FilledText(v, "min_capability")
    /\ Given(v, "fresh_within") => v.fields["fresh_within"].type = "string"

ProfileParses(doc) ==
    /\ doc.type = "object"
    /\ NonEmptyGiven(doc, {"subject_capability"})
    /\ ArrayGiven(doc, ArrayKeys)
    /\ \A v \in Elements(doc, "axes") : NonEmpty(v)
    /\ \A v \in Elements(doc, "triggers") : TriggerParses(v)
    /\ \A v \in Elements(doc, "data_points") : DataPointParses(v)

(* clock.rs, time_triggers: the triggers of class "time", by their place in *)
(* the manifest.  One that does not parse is an error for the whole.        *)
IsTimeTrigger(v) == HasTextOf(v, "predicate_class", {"time"})

Triggers(doc) ==
    IF Has(doc, "triggers") /\ doc.fields["triggers"].type = "array"
    THEN doc.fields["triggers"].items ELSE << >>

TimeTriggers(doc) == {i \in DOMAIN Triggers(doc) : IsTimeTrigger(Triggers(doc)[i])}

TimeTriggersParse(doc) == \A i \in TimeTriggers(doc) : TimeTriggerParses(Triggers(doc)[i])

TimeTriggerOf(v) == [basis    |-> v.fields["basis"].text,
                     operator |-> v.fields["operator"].text,
                     duration |-> DurationTexts[v.fields["duration"].text]]

-----------------------------------------------------------------------------
(* PR-1: the signed form.                                                  *)

IsSigned(doc) ==
    /\ HasTextOf(doc, "issuer_class", IssuerClasses)
    /\ Has(doc, "issuer") /\ NonBlank(doc.fields["issuer"])
    /\ Has(doc, "signature") /\ Has(doc.fields["signature"], "signature")
    /\ NonBlank(doc.fields["signature"].fields["signature"])

(* satisfiability.rs: a subject cannot serve a data point above its own      *)
(* capability class, nor, in the two lowest, one with bounded freshness.     *)
Rank(class) == CASE class = "S0" -> 0 [] class = "S1" -> 1 [] class = "S2" -> 2
                 [] class = "S3" -> 3

IsServable(point, subject) ==
    /\ point.fields["min_capability"].text \in CapabilityClasses =>
           Rank(point.fields["min_capability"].text) <= Rank(subject)
    /\ FilledText(point, "fresh_within") => Rank(subject) > 1

IsSatisfiable(doc) ==
    HasTextOf(doc, "subject_capability", CapabilityClasses) =>
        \A point \in Elements(doc, "data_points") :
            IsServable(point, doc.fields["subject_capability"].text)

-----------------------------------------------------------------------------
(* mapping.rs: the schema, the typed parser and the references of a         *)
(* cross-register mapping.                                                 *)
MappingTypes == {"equivalent", "narrower", "broader", "related"}

ItemRefConforms(v) == /\ Required(v, {"item"})
                      /\ NonEmptyAt(v, {"register", "item", "version"})

MappingConforms(doc) ==
    /\ Required(doc, {"source", "target", "mapping_type"})
    /\ ItemRefConforms(doc.fields["source"])
    /\ ItemRefConforms(doc.fields["target"])
    /\ OneOfAt(doc, "mapping_type", MappingTypes)
    /\ NonEmptyAt(doc, {"attester", "evidence_ref"})

ItemRefParses(v) == /\ FilledText(v, "item")
                    /\ NonEmptyGiven(v, {"register", "version"})

MappingParses(doc) ==
    /\ \A side \in {"source", "target"} : Has(doc, side) /\ ItemRefParses(doc.fields[side])
    /\ FilledText(doc, "mapping_type")
    /\ NonEmptyGiven(doc, {"attester", "evidence_ref"})

Referents(doc) == {doc.fields["source"], doc.fields["target"]}
=============================================================================
