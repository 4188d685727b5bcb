----------------------------- MODULE JsonValues -----------------------------
(***************************************************************************)
(* JSON values as tagged records (serde_json's Value, as schema.rs and the  *)
(* parsers of manifest.rs, mapping.rs and discovery.rs look at it), and the  *)
(* questions the code asks of one.                                         *)
(***************************************************************************)
EXTENDS Integers, Sequences

Null      == [type |-> "null"]
Text(s)   == [type |-> "string", text |-> s]
Whole(n)  == [type |-> "integer", value |-> n]
List(s)   == [type |-> "array", items |-> s]
Object(f) == [type |-> "object", fields |-> f]

Has(v, key) == v.type = "object" /\ key \in DOMAIN v.fields

(* Most typed parsers take null for an absent key.                          *)
Given(v, key) == Has(v, key) /\ v.fields[key] # Null

NonEmpty(v) == v.type = "string" /\ v.text # ""
OneOf(v, S) == v.type = "string" /\ v.text \in S

HasText(v, key)      == Has(v, key) /\ v.fields[key].type = "string"
FilledText(v, key)   == Has(v, key) /\ NonEmpty(v.fields[key])
HasTextOf(v, key, S) == Has(v, key) /\ OneOf(v.fields[key], S)

Elements(v, key) ==
    IF Has(v, key) /\ v.fields[key].type = "array"
    THEN {v.fields[key].items[i] : i \in DOMAIN v.fields[key].items} ELSE {}
=============================================================================
