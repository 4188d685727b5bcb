--------------------------- MODULE MCApplicability --------------------------
EXTENDS Applicability

\* Days: 2024-01-31, 2024-02-29 and 2024-03-01.
MCInstants == {19753, 19782, 19783}
MCWindow   == {[from |-> 0, until |-> None]}
MCTerms    == [from : MCInstants, until : MCInstants \cup {None}, registered : MCInstants,
               retroactive : BOOLEAN]
MCRegister == [id \in {"p", "m"} |-> IF id = "p" THEN "profiles" ELSE "mappings"]
MCVersionOf == [text \in {"1", "2"} |-> IF text = "1" THEN 1 ELSE 2]

MCDurationTexts ==
    [text \in {"P1M", "P0D"} |->
        [years |-> 0, months |-> IF text = "P1M" THEN 1 ELSE 0, weeks |-> 0, days |-> 0,
         ticks |-> 0]]
MCCardinalityTexts == {"1", "0..1", "1..n"}

Manufactured(date) == [basis \in {"manufactured_at"} |-> Stamp(date, 0, 0)]
MCFacts == {Manufactured(Date(2024, 1, 31)),
            Manufactured(Date(2024, 13, 31)),
            [basis \in {"first_registered_at"} |-> Stamp(Date(2024, 1, 31), 0, 0)]}

-----------------------------------------------------------------------------
Signed == [issuer_class |-> Text("law"), issuer |-> Text("ministry"),
           signature |-> Object([signature |-> Text("sig")])]

Merge(f, g) == [k \in DOMAIN f \cup DOMAIN g |-> IF k \in DOMAIN g THEN g[k] ELSE f[k]]
Profile(fields) == Object(Merge(Signed, fields))

Trigger(operator, duration) ==
    Object([predicate_class |-> Text("time"), basis |-> Text("manufactured_at"),
            operator |-> Text(operator), duration |-> Text(duration)])
FactTrigger == Object([predicate_class |-> Text("fact_predicate"), predicate_ref |-> Text("ref")])

DataPoint(fields) ==
    Object(Merge([element |-> Text("carbon"), min_capability |-> Text("S1")], fields))

Mapping(source, target) ==
    Object([source |-> Object(source), target |-> Object(target),
            mapping_type |-> Text("equivalent")])

\* Accepted in strict mode: `plain', `delayed', `expiring'; accepted with a
\* warning only: `unservable', bounded freshness asked of a silent subject.
\* Refused: a time trigger without a duration, with null for one, and with one
\* that does not parse; no predicate class; not signed; no axis of that name.
\* Mappings with no version, with one that is there only after a supersession,
\* to an end that is not there yet, to another register, with a null version.
MCBody ==
    [d \in {"plain", "delayed", "expiring", "unservable", "partial", "null duration",
             "bad duration", "unclassed", "unsigned", "bad axis",
             "to second", "to first", "to itself", "misfiled", "null version"} |->
        CASE d = "plain"    -> Profile([axes |-> List(<<Text("sector")>>)])
          [] d = "delayed"  -> Profile([triggers |-> List(<<FactTrigger, Trigger(">=", "P1M")>>)])
          [] d = "expiring" -> Profile([triggers |-> List(<<Trigger("<", "P1M"),
                                                            Trigger(">", "P0D")>>)])
          [] d = "unservable" ->
                 Profile([subject_capability |-> Text("S1"),
                          data_points |-> List(<<DataPoint([fresh_within |-> Text("P1M")])>>)])
          [] d = "partial" ->
                 Profile([triggers |-> List(<<Object([predicate_class |-> Text("time"),
                                                      basis |-> Text("manufactured_at"),
                                                      operator |-> Text(">=")])>>)])
          [] d = "null duration" ->
                 Profile([triggers |-> List(<<Object([predicate_class |-> Text("time"),
                                                      basis |-> Text("manufactured_at"),
                                                      operator |-> Text(">="),
                                                      duration |-> Null])>>)])
          [] d = "bad duration" -> Profile([triggers |-> List(<<Trigger(">=", "P1.5Y")>>)])
          [] d = "unclassed" ->
                 Profile([triggers |-> List(<<Object([basis |-> Text("manufactured_at")])>>)])
          [] d = "unsigned" -> Object([issuer_class |-> Text("law"), issuer |-> Text(" ")])
          [] d = "bad axis" -> Profile([axes |-> List(<<Text("planet")>>)])
          [] d = "to second" -> Mapping([item |-> Text("p")],
                                        [item |-> Text("p"), version |-> Text("2")])
          [] d = "to first"  -> Mapping([item |-> Text("p"), register |-> Text("profiles")],
                                        [item |-> Text("p"), version |-> Text("1")])
          [] d = "to itself" -> Mapping([item |-> Text("p")], [item |-> Text("m")])
          [] d = "misfiled"  -> Mapping([item |-> Text("p"), register |-> Text("mappings")],
                                        [item |-> Text("p")])
          [] d = "null version" -> Mapping([item |-> Text("p"), version |-> Null],
                                           [item |-> Text("p")])]

MCAsks ==
    {[subject |-> "t", profile |-> "p", pin |-> pin, from |-> from, until |-> None,
      retroactive |-> retroactive] :
        pin \in {None}, from \in {None, 19753}, retroactive \in BOOLEAN}
    \cup {[subject |-> "t", profile |-> "p", pin |-> 2, from |-> 19753, until |-> 19783,
           retroactive |-> FALSE]}
=============================================================================
