------------------------- MODULE ApplicabilityProofs -------------------------
(***************************************************************************)
(* Intake, bindings and evaluation together, for every set of documents,    *)
(* instants, requests and facts and for every bound on the log: the         *)
(* composition implements the store, so that what is proved of the store    *)
(* holds of it, and what intake accepted stays good for evaluation.         *)
(***************************************************************************)
EXTENDS Applicability, RegistryStoreProofs

-----------------------------------------------------------------------------
(* The generated schemas and the typed parsers agree where the registry     *)
(* relies on it, for every document and every set of duration texts.        *)

LEMMA OneOfIsNonEmpty ==
    ASSUME NEW v, NEW S, OneOf(v, S), "" \notin S
    PROVE  NonEmpty(v)
BY DEF OneOf, NonEmpty

LEMMA TriggerParity ==
    ASSUME NEW v, TriggerConforms(v)
    PROVE  TriggerParses(v)
<1> DEFINE class == v.fields["predicate_class"]
<1>1. Has(v, "predicate_class") /\ OneOf(class, PredicateClasses)
  BY DEF TriggerConforms, Required, OneOfAt, Has
<1>2. CASE class.text = "time"
  <2>1. Has(v, "basis") /\ Has(v, "operator") /\ Has(v, "duration")
    BY <1>2 DEF TriggerConforms, Required, Has
  <2>2. TimeTriggerParses(v)
    BY <2>1 DEF TriggerConforms, OneOfAt, IsDuration, TimeTriggerParses, HasTextOf
  <2>3. HasTextOf(v, "predicate_class", {"time"})
    BY <1>1, <1>2 DEF HasTextOf, OneOf
  <2> QED
    BY <2>2, <2>3 DEF TriggerParses
<1>3. CASE class.text # "time"
  <2>1. Has(v, "predicate_ref") /\ NonEmpty(v.fields["predicate_ref"])
    BY <1>3 DEF TriggerConforms, Required, Has, NonEmptyAt
  <2>2. HasTextOf(v, "predicate_class", {"fact_predicate"})
    BY <1>1, <1>3 DEF HasTextOf, OneOf, PredicateClasses
  <2> QED
    BY <2>1, <2>2 DEF TriggerParses, FilledText
<1> QED
  BY <1>2, <1>3

LEMMA DataPointParity ==
    ASSUME NEW v, DataPointConforms(v)
    PROVE  DataPointParses(v)
<1>1. Has(v, "element") /\ NonEmpty(v.fields["element"])
  BY DEF DataPointConforms, Required, Has, NonEmptyAt
<1>2. Has(v, "min_capability") /\ NonEmpty(v.fields["min_capability"])
  <2>1. Has(v, "min_capability") /\ OneOf(v.fields["min_capability"], CapabilityClasses)
    BY DEF DataPointConforms, Required, Has, OneOfAt
  <2>2. "" \notin CapabilityClasses
    BY DEF CapabilityClasses
  <2> QED
    BY <2>1, <2>2, OneOfIsNonEmpty
<1>3. Given(v, "fresh_within") => v.fields["fresh_within"].type = "string"
  BY DEF DataPointConforms, Given, IsDuration, OneOf
<1> QED
  BY <1>1, <1>2, <1>3 DEF DataPointParses, FilledText

(* A manifest the generated schema accepts is never refused by the typed    *)
(* parser that runs after it (manifest.rs, "the typed parser that the       *)
(* satisfiability check consumes"): the parser's error in the schema check  *)
(* of intake is unreachable.                                               *)
THEOREM ProfileParity ==
    ASSUME NEW doc, ProfileConforms(doc)
    PROVE  ProfileParses(doc)
<1>1. NonEmptyGiven(doc, {"subject_capability"})
  <2>1. "" \notin CapabilityClasses
    BY DEF CapabilityClasses
  <2>2. Has(doc, "subject_capability") => NonEmpty(doc.fields["subject_capability"])
    BY <2>1, OneOfIsNonEmpty DEF ProfileConforms, OneOfAt
  <2> QED
    BY <2>2 DEF NonEmptyGiven, Given
<1>2. ArrayGiven(doc, ArrayKeys)
  BY DEF ProfileConforms, ArrayAt, ArrayGiven, Given
<1>3. \A v \in Elements(doc, "axes") : NonEmpty(v)
  <2>1. "" \notin Axes
    BY DEF Axes
  <2> QED
    BY <2>1, OneOfIsNonEmpty DEF ProfileConforms
<1>4. \A v \in Elements(doc, "triggers") : TriggerParses(v)
  BY TriggerParity DEF ProfileConforms
<1>5. \A v \in Elements(doc, "data_points") : DataPointParses(v)
  BY DataPointParity DEF ProfileConforms
<1> QED
  BY <1>1, <1>2, <1>3, <1>4, <1>5 DEF ProfileParses, ProfileConforms

(* A manifest the typed parser accepts has no trigger of class "time" that  *)
(* the evaluation of a binding would refuse (clock.rs, time_triggers).      *)
THEOREM ParsedIsEvaluable ==
    ASSUME NEW doc, ProfileParses(doc)
    PROVE  TimeTriggersParse(doc)
<1> SUFFICES ASSUME NEW i \in TimeTriggers(doc)
             PROVE  TimeTriggerParses(Triggers(doc)[i])
  BY DEF TimeTriggersParse
<1> DEFINE v == Triggers(doc)[i]
<1>1. i \in DOMAIN Triggers(doc) /\ IsTimeTrigger(v)
  BY DEF TimeTriggers
<1>2. v \in Elements(doc, "triggers")
  <2>1. CASE Has(doc, "triggers") /\ doc.fields["triggers"].type = "array"
    BY <1>1, <2>1 DEF Triggers, Elements
  <2>2. CASE ~(Has(doc, "triggers") /\ doc.fields["triggers"].type = "array")
    BY <1>1, <2>2 DEF Triggers
  <2> QED
    BY <2>1, <2>2
<1>3. TriggerParses(v)
  BY <1>2 DEF ProfileParses
<1>4. v.fields["predicate_class"].text = "time"
  BY <1>1 DEF IsTimeTrigger, HasTextOf, OneOf
<1> HIDE DEF v
<1>5. TimeTriggerParses(v)
  BY <1>3, <1>4 DEF TriggerParses, HasTextOf, OneOf
<1> QED
  BY <1>5 DEF v

LEMMA ItemRefParity ==
    ASSUME NEW v, ItemRefConforms(v)
    PROVE  ItemRefParses(v)
BY DEF ItemRefConforms, ItemRefParses, Required, Has, NonEmptyAt, NonEmptyGiven, Given, FilledText

(* The same for the manifest of a cross-register mapping (mapping.rs).      *)
THEOREM MappingParity ==
    ASSUME NEW doc, MappingConforms(doc)
    PROVE  MappingParses(doc)
<1>1. \A side \in {"source", "target"} : Has(doc, side) /\ ItemRefParses(doc.fields[side])
  <2>1. Has(doc, "source") /\ Has(doc, "target")
    BY DEF MappingConforms, Required, Has
  <2>2. ItemRefConforms(doc.fields["source"]) /\ ItemRefConforms(doc.fields["target"])
    BY DEF MappingConforms
  <2> QED
    BY <2>1, <2>2, ItemRefParity
<1>2. FilledText(doc, "mapping_type")
  <2>1. Has(doc, "mapping_type") /\ OneOf(doc.fields["mapping_type"], MappingTypes)
    BY DEF MappingConforms, Required, Has, OneOfAt
  <2>2. "" \notin MappingTypes
    BY DEF MappingTypes
  <2> QED
    BY <2>1, <2>2, OneOfIsNonEmpty DEF FilledText
<1>3. NonEmptyGiven(doc, {"attester", "evidence_ref"})
  BY DEF MappingConforms, NonEmptyAt, NonEmptyGiven, Given
<1> QED
  BY <1>1, <1>2, <1>3 DEF MappingParses

-----------------------------------------------------------------------------
(* The composition implements the store.                                    *)

PendingTypeOK == /\ now \in Instant
                 /\ pending \in [Request -> [ask : Ask, stamp : Instant] \cup {None}]

LEMMA PendingTyped == ApplicabilitySpec => []PendingTypeOK
<1>1. ApplicabilityInit => PendingTypeOK
  BY DEF ApplicabilityInit, PendingTypeOK
<1>2. PendingTypeOK /\ [ApplicabilityNext]_avars => PendingTypeOK'
  <2> SUFFICES ASSUME PendingTypeOK, [ApplicabilityNext]_avars
               PROVE  PendingTypeOK'
    OBVIOUS
  <2>1. CASE SubmitItems
    BY <2>1 DEF SubmitItems, SubmitItem, PendingTypeOK
  <2>2. CASE SubmitVersions
    BY <2>2 DEF SubmitVersions, SubmitVersion, PendingTypeOK
  <2>3. ASSUME NEW r \in Request, NEW ask \in Ask, RequestBinding(r, ask)
        PROVE  PendingTypeOK'
    BY <2>3 DEF RequestBinding, PendingTypeOK
  <2>4. ASSUME NEW r \in Request, RecordBinding(r) \/ RefuseBinding(r)
        PROVE  PendingTypeOK'
    BY <2>4 DEF RecordBinding, RefuseBinding, PendingTypeOK
  <2>5. CASE ClockMoves
    BY <2>5 DEF ClockMoves, PendingTypeOK
  <2>6. CASE UNCHANGED avars
    BY <2>6 DEF avars, PendingTypeOK
  <2> QED
    BY <2>1, <2>2, <2>3, <2>4, <2>5, <2>6 DEF ApplicabilityNext, Bindings
<1> QED
  BY <1>1, <1>2, PTL DEF ApplicabilitySpec

LEMMA TermsType ==
    ASSUME NEW request \in [ask : Ask, stamp : Instant]
    PROVE  TermsOf(request) \in Terms
<1>1. /\ request.ask \in Ask /\ request.stamp \in Instant
  OBVIOUS
<1>2. /\ request.ask.from \in Instant \cup {None}
      /\ request.ask.until \in Instant \cup {None}
      /\ request.ask.retroactive \in BOOLEAN
  BY <1>1, AskAssumption
<1>3. From(request.ask, request.stamp) \in Instant
  BY <1>1, <1>2 DEF From
<1> QED
  BY <1>1, <1>2, <1>3, TermsAssumption DEF TermsOf

LEMMA RecordBindingBinds ==
    ASSUME PendingTypeOK, NEW r \in Request, RecordBinding(r)
    PROVE  BindApplicabilities
<1>1. pending[r] \in [ask : Ask, stamp : Instant]
  BY DEF PendingTypeOK, RecordBinding
<1>2. PICK request \in [ask : Ask, stamp : Instant] : request = pending[r]
  BY <1>1
<1>3. /\ request.ask.subject \in Subject
      /\ request.ask.profile \in Identifier
      /\ request.ask.pin \in Version \cup {None}
  BY <1>2, AskAssumption
<1>4. TermsOf(request) \in Terms
  BY TermsType
<1>5. BindApplicability(request.ask.subject, request.ask.profile, request.ask.pin,
                        TermsOf(request))
  BY <1>2 DEF RecordBinding
<1> QED
  BY <1>3, <1>4, <1>5 DEF BindApplicabilities

LEMMA SubmitItemsCreates == SubmitItems => CreateItems
<1> SUFFICES ASSUME SubmitItems
             PROVE  CreateItems
  OBVIOUS
<1>1. PICK id \in Identifier, class \in Class, number \in Version, w \in Window,
           d \in Document \cup {None}, strict \in BOOLEAN :
               SubmitItem(id, class, number, w, d, strict)
  BY DEF SubmitItems
<1>2. PICK manifest : manifest = IF d = None THEN None ELSE [pin |-> number, express |-> None]
  OBVIOUS
<1>3. CreateItem(id, class, number, w, manifest)
  BY <1>1, <1>2 DEF SubmitItem
<1>4. manifest \in FirstManifests(class, number)
  BY <1>3 DEF CreateItem
<1> QED
  BY <1>3, <1>4 DEF CreateItems

LEMMA SubmitVersionsSupersedes == SubmitVersions => SupersedeItems
<1> SUFFICES ASSUME NEW id \in DOMAIN mem.items, NEW w \in Window,
                    NEW d \in Document \cup {None}, NEW strict \in BOOLEAN,
                    NEW number \in Version \ DOMAIN mem.items[id].versions,
                    NEW target \in DOMAIN mem.items[id].versions,
                    NEW pin \in DOMAIN mem.items[id].versions \cup {number},
                    SubmitVersion(id, target, number, w, pin, d, strict)
             PROVE  SupersedeItems
  BY DEF SubmitVersions
<1>1. PICK manifest : manifest = IF d = None THEN None ELSE [pin |-> pin, express |-> None]
  OBVIOUS
<1>2. SupersedeItem(id, target, number, w, manifest)
  BY <1>1 DEF SubmitVersion
<1>3. manifest \in NextManifests(mem.items[id], number)
  BY <1>2 DEF SupersedeItem
<1> QED
  BY <1>2, <1>3 DEF SupersedeItems

LEMMA StepImplements == PendingTypeOK /\ [ApplicabilityNext]_avars => [Next]_vars
<1> SUFFICES ASSUME PendingTypeOK, [ApplicabilityNext]_avars
             PROVE  [Next]_vars
  OBVIOUS
<1>1. CASE SubmitItems \/ SubmitVersions
  BY <1>1, SubmitItemsCreates, SubmitVersionsSupersedes DEF Next
<1>2. ASSUME NEW r \in Request, RecordBinding(r)
      PROVE  [Next]_vars
  BY <1>2, RecordBindingBinds DEF Next
<1>3. ASSUME NEW r \in Request, RefuseBinding(r) \/ \E ask \in Ask : RequestBinding(r, ask)
      PROVE  [Next]_vars
  BY <1>3 DEF RefuseBinding, RequestBinding, vars
<1>4. CASE ClockMoves \/ UNCHANGED avars
  BY <1>4 DEF ClockMoves, avars, vars
<1> QED
  BY <1>1, <1>2, <1>3, <1>4 DEF ApplicabilityNext, Bindings

(* Every behaviour of requests, intake and clock is one of the store: all   *)
(* invariants proved of the store hold of the composition.                  *)
THEOREM ImplementsStore == ApplicabilitySpec => Spec
<1>1. ApplicabilityInit => Init
  BY DEF ApplicabilityInit
<1> QED
  BY <1>1, PendingTyped, StepImplements, PTL DEF ApplicabilitySpec, Spec

-----------------------------------------------------------------------------
(* The documents the items carry.                                           *)

ContentTypeOK == /\ DOMAIN content = DOMAIN mem.items
                 /\ \A id \in DOMAIN content : content[id] \in Document \cup {None}

(* What a step does to the items and their documents.                       *)
LEMMA SubmittedItem ==
    ASSUME TypeOK, SubmitItems
    PROVE  \E d \in Document \cup {None}, strict \in BOOLEAN : \E id, item :
               /\ id \notin DOMAIN mem.items
               /\ IntakeAccepts(mem, item.class, d, strict)
               /\ mem'.items = With(mem.items, id, item)
               /\ content' = With(content, id, d)
<1>1. PICK id \in Identifier \ DOMAIN mem.items, class \in Class, number \in Version,
           w \in Window, d \in Document \cup {None}, strict \in BOOLEAN :
               SubmitItem(id, class, number, w, d, strict)
  BY DEF SubmitItems
<1>2. PICK manifest : manifest = IF d = None THEN None ELSE [pin |-> number, express |-> None]
  OBVIOUS
<1>3. PICK item : item = [class    |-> class,
                          versions |-> [v \in {number} |-> Entry("valid", w)],
                          manifest |-> manifest]
  OBVIOUS
<1>4. mem' = Apply(mem, RegisterItemOp(id, item))
  BY <1>1, <1>2, <1>3 DEF SubmitItem, CreateItem, Record
<1>5. mem'.items = With(mem.items, id, item)
  BY <1>4, RegisterItemEffect DEF TypeOK
<1>6. item.class = class
  BY <1>3
<1>7. IntakeAccepts(mem, class, d, strict) /\ content' = With(content, id, d)
  BY <1>1 DEF SubmitItem
<1> QED
  BY <1>5, <1>6, <1>7

LEMMA SubmittedVersion ==
    ASSUME TypeOK, SubmitVersions
    PROVE  /\ DOMAIN mem'.items = DOMAIN mem.items
           /\ \E id \in DOMAIN mem.items, d \in Document \cup {None}, strict \in BOOLEAN :
                 /\ IntakeAccepts(mem, mem.items[id].class, EffectiveDocument(id, d), strict)
                 /\ content' = [content EXCEPT ![id] = IF d = None THEN @ ELSE d]
<1>1. DOMAIN mem'.items = DOMAIN mem.items
  <2>1. \E id, item : mem'.items = [mem.items EXCEPT ![id] = item]
    BY SubmitVersionsSupersedes, SupersessionItems
  <2> QED
    BY <2>1
<1>2. PICK id \in DOMAIN mem.items, w \in Window, d \in Document \cup {None},
           strict \in BOOLEAN :
               \E number, target, pin : SubmitVersion(id, target, number, w, pin, d, strict)
  BY DEF SubmitVersions
<1>3. /\ IntakeAccepts(mem, mem.items[id].class, EffectiveDocument(id, d), strict)
      /\ content' = [content EXCEPT ![id] = IF d = None THEN @ ELSE d]
  BY <1>2 DEF SubmitVersion
<1> QED
  BY <1>1, <1>3

LEMMA OtherSteps ==
    ASSUME TypeOK, PendingTypeOK, [ApplicabilityNext]_avars, ~SubmitItems, ~SubmitVersions
    PROVE  mem'.items = mem.items /\ content' = content
<1>1. ASSUME NEW r \in Request, RecordBinding(r)
      PROVE  mem'.items = mem.items /\ content' = content
  BY <1>1, RecordBindingBinds, BindEffect DEF RecordBinding
<1>2. ASSUME NEW r \in Request, RefuseBinding(r) \/ \E ask \in Ask : RequestBinding(r, ask)
      PROVE  mem'.items = mem.items /\ content' = content
  BY <1>2 DEF RefuseBinding, RequestBinding
<1>3. CASE ClockMoves \/ UNCHANGED avars
  BY <1>3 DEF ClockMoves, avars
<1> QED
  BY <1>1, <1>2, <1>3 DEF ApplicabilityNext, Bindings

LEMMA ContentTyped == ApplicabilitySpec => []ContentTypeOK
<1>1. ApplicabilityInit => ContentTypeOK
  BY DEF ApplicabilityInit, Init, EmptyStore, ContentTypeOK
<1>2. /\ TypeOK /\ PendingTypeOK /\ ContentTypeOK /\ [ApplicabilityNext]_avars
      => ContentTypeOK'
  <2> SUFFICES ASSUME TypeOK, PendingTypeOK, ContentTypeOK, [ApplicabilityNext]_avars
               PROVE  ContentTypeOK'
    OBVIOUS
  <2>1. CASE SubmitItems
    <3>1. PICK id, item, d :
              /\ d \in Document \cup {None}
              /\ mem'.items = With(mem.items, id, item)
              /\ content' = With(content, id, d)
      BY <2>1, SubmittedItem
    <3> QED
      BY <3>1 DEF ContentTypeOK, With
  <2>2. CASE SubmitVersions
    <3>1. PICK id \in DOMAIN mem.items, d \in Document \cup {None} :
              content' = [content EXCEPT ![id] = IF d = None THEN @ ELSE d]
      BY <2>2, SubmittedVersion
    <3> QED
      BY <2>2, <3>1, SubmittedVersion DEF ContentTypeOK
  <2>3. CASE ~SubmitItems /\ ~SubmitVersions
    BY <2>3, OtherSteps DEF ContentTypeOK
  <2> QED
    BY <2>1, <2>2, <2>3
<1> QED
  BY <1>1, <1>2, ImplementsStore, TypeCorrect, PendingTyped, PTL DEF ApplicabilitySpec

(* The type invariant of the composition. *)
THEOREM ApplicabilityTyped == ApplicabilitySpec => []ApplicabilityTypeOK
<1>1. TypeOK /\ PendingTypeOK /\ ContentTypeOK => ApplicabilityTypeOK
  BY DEF PendingTypeOK, ContentTypeOK, ApplicabilityTypeOK
<1> QED
  BY <1>1, ImplementsStore, TypeCorrect, PendingTyped, ContentTyped, PTL

-----------------------------------------------------------------------------
(* What intake accepted.                                                   *)

(* A reference that resolves keeps resolving while items only grow.         *)
LEMMA AcceptanceGrows ==
    ASSUME NEW st, NEW new, ItemsGrow(st.items, new.items),
           NEW class, NEW d, IntakeAccepts(st, class, d, FALSE)
    PROVE  IntakeAccepts(new, class, d, FALSE)
<1>1. ASSUME NEW ref, Resolves(st, ref)
      PROVE  Resolves(new, ref)
  BY <1>1 DEF Resolves, ItemsGrow
<1> QED
  BY <1>1 DEF IntakeAccepts

LEMMA StrictAcceptsLess ==
    ASSUME NEW st, NEW class, NEW d, NEW strict \in BOOLEAN,
           IntakeAccepts(st, class, d, strict)
    PROVE  IntakeAccepts(st, class, d, FALSE)
BY DEF IntakeAccepts

LEMMA AcceptedInductive ==
    ASSUME TypeOK, PendingTypeOK, ContentTypeOK, AcceptedStaysAcceptable,
           [ApplicabilityNext]_avars
    PROVE  AcceptedStaysAcceptable'
<1>1. ItemsGrow(mem.items, mem'.items)
  BY StepImplements, StepGrows
<1>2. \A id \in DOMAIN mem.items :
          IntakeAccepts(mem', mem'.items[id].class, content[id], FALSE)
  BY <1>1, AcceptanceGrows DEF AcceptedStaysAcceptable, ItemsGrow
<1>3. CASE SubmitItems
  <2>1. PICK d \in Document \cup {None}, strict \in BOOLEAN : \E id, item :
               /\ id \notin DOMAIN mem.items
               /\ IntakeAccepts(mem, item.class, d, strict)
               /\ mem'.items = With(mem.items, id, item)
               /\ content' = With(content, id, d)
    BY <1>3, SubmittedItem
  <2>2. PICK id, item :
               /\ id \notin DOMAIN mem.items
               /\ IntakeAccepts(mem, item.class, d, strict)
               /\ mem'.items = With(mem.items, id, item)
               /\ content' = With(content, id, d)
    BY <2>1
  <2>3. IntakeAccepts(mem', item.class, d, FALSE)
    <3>1. IntakeAccepts(mem, item.class, d, FALSE)
      BY <2>2, StrictAcceptsLess
    <3> QED
      BY <1>1, <3>1, AcceptanceGrows
  <2>4. /\ DOMAIN mem'.items = DOMAIN mem.items \cup {id}
        /\ mem'.items[id] = item /\ content'[id] = d
        /\ \A k \in DOMAIN mem.items : content'[k] = content[k]
    BY <2>2 DEF With, ContentTypeOK
  <2> QED
    BY <1>2, <2>3, <2>4 DEF AcceptedStaysAcceptable
<1>4. CASE SubmitVersions
  <2>1. PICK id \in DOMAIN mem.items, d \in Document \cup {None}, strict \in BOOLEAN :
               /\ IntakeAccepts(mem, mem.items[id].class, EffectiveDocument(id, d), strict)
               /\ content' = [content EXCEPT ![id] = IF d = None THEN @ ELSE d]
    BY <1>4, SubmittedVersion
  <2>2. content'[id] = EffectiveDocument(id, d)
    BY <2>1 DEF ContentTypeOK, EffectiveDocument
  <2>3. IntakeAccepts(mem', mem'.items[id].class, content'[id], FALSE)
    <3>1. PICK class, document : class = mem.items[id].class
                                 /\ document = EffectiveDocument(id, d)
      OBVIOUS
    <3>2. IntakeAccepts(mem, class, document, FALSE)
      BY <2>1, <3>1, StrictAcceptsLess
    <3>3. IntakeAccepts(mem', class, document, FALSE)
      BY <1>1, <3>2, AcceptanceGrows
    <3> QED
      BY <1>1, <2>2, <3>1, <3>3 DEF ItemsGrow
  <2>4. /\ DOMAIN mem'.items = DOMAIN mem.items
        /\ \A k \in DOMAIN mem.items \ {id} : content'[k] = content[k]
    BY <1>4, <2>1, SubmittedVersion DEF ContentTypeOK
  <2> QED
    BY <1>2, <2>3, <2>4 DEF AcceptedStaysAcceptable
<1>5. CASE ~SubmitItems /\ ~SubmitVersions
  BY <1>2, <1>5, OtherSteps DEF AcceptedStaysAcceptable
<1> QED
  BY <1>3, <1>4, <1>5

(* Whatever intake accepted it would accept again as a carried-over         *)
(* manifest: schemas do not depend on the store, references keep resolving  *)
(* because items only grow (intake.rs run, in the two handlers).            *)
THEOREM AcceptedForEver == ApplicabilitySpec => []AcceptedStaysAcceptable
<1>1. ApplicabilityInit => AcceptedStaysAcceptable
  BY DEF ApplicabilityInit, Init, EmptyStore, AcceptedStaysAcceptable
<1>2. /\ TypeOK /\ PendingTypeOK /\ ContentTypeOK /\ AcceptedStaysAcceptable
      /\ [ApplicabilityNext]_avars
      => AcceptedStaysAcceptable'
  BY AcceptedInductive
<1> QED
  BY <1>1, <1>2, ImplementsStore, TypeCorrect, PendingTyped, ContentTyped, PTL
     DEF ApplicabilitySpec

(* Item 57: both ends of a registered mapping stay registered.              *)
THEOREM MappingsKeepTheirEnds == ApplicabilitySpec => []MappingsResolve
<1>1. AcceptedStaysAcceptable => MappingsResolve
  <2> SUFFICES ASSUME AcceptedStaysAcceptable,
                      NEW id \in DOMAIN mem.items,
                      mem.items[id].class = "cross-register-mapping",
                      NEW ref \in Referents(Body[content[id]])
               PROVE  /\ ref.fields["item"].text \in DOMAIN mem.items
                      /\ Given(ref, "version") =>
                             VersionOf[ref.fields["version"].text]
                                 \in DOMAIN mem.items[ref.fields["item"].text].versions
    BY DEF MappingsResolve
  <2>1. Resolves(mem, ref)
    BY DEF AcceptedStaysAcceptable, IntakeAccepts
  <2> QED
    BY <2>1 DEF Resolves
<1> QED
  BY <1>1, AcceptedForEver, PTL

(* No accepted manifest makes an applicability query answer 400 for a       *)
(* malformed trigger: a bound item is a profile, a profile's manifest       *)
(* parsed at intake, and what parsed evaluates.                            *)
THEOREM NeverRefused == ApplicabilitySpec => []EvaluationNeverRefused
<1>1. WellFormedProfiles \subseteq Evaluable
  BY ParsedIsEvaluable DEF WellFormedProfiles, Evaluable
<1>2. AcceptedStaysAcceptable /\ PinsAreRegistered => EvaluationNeverRefused
  <2> SUFFICES ASSUME AcceptedStaysAcceptable, PinsResolve(mem),
                      NEW i \in DOMAIN mem.bindings
               PROVE  content[mem.bindings[i].profile] \notin Document \ Evaluable
    BY DEF EvaluationNeverRefused, IsRefused, PinsAreRegistered
  <2> DEFINE profile == mem.bindings[i].profile
  <2>1. profile \in DOMAIN mem.items /\ mem.items[profile].class = "profile"
    BY PinsSplit DEF BindingResolves
  <2>2. content[profile] \in WellFormedProfiles
    BY <2>1 DEF AcceptedStaysAcceptable, IntakeAccepts
  <2> QED
    BY <1>1, <2>2
<1> QED
  BY <1>2, AcceptedForEver, ImplementsStore, PinsRegistered, PTL

-----------------------------------------------------------------------------
(* The past.                                                               *)

(* A binding recorded now, unless it is retroactive, says nothing of an     *)
(* instant before the stamp of its request.                                *)
LEMMA RecordedBinding ==
    ASSUME TypeOK, PendingTypeOK, NEW r \in Request, RecordBinding(r)
    PROVE  \E b : /\ b.terms.registered = pending[r].stamp
                  /\ mem'.bindings = Append(mem.bindings, b)
<1>1. PICK b : b = [id |-> mem.nextBindingId, subject |-> pending[r].ask.subject,
                    profile |-> pending[r].ask.profile, pin |-> pending[r].ask.pin,
                    terms |-> TermsOf(pending[r])]
  OBVIOUS
<1>2. b.terms.registered = pending[r].stamp
  BY <1>1 DEF TermsOf
<1> DEFINE next == mem.nextBindingId + 1
           st == [mem EXCEPT !.nextBindingId = next]
<1>3. next \in Nat \ {0} /\ IsStore(mem)
  BY DEF TypeOK, IsStore
<1>4. mem' = Apply(st, BindApplicabilityOp(b))
  BY <1>1 DEF RecordBinding, BindApplicability, Record
<1> HIDE DEF next
<1>5. IsStore(st) /\ st.bindings = mem.bindings
  BY <1>3, CounterUpdate DEF IsStore
<1> HIDE DEF st
<1>6. mem'.bindings = Append(mem.bindings, b)
  BY <1>4, <1>5, BindApplicabilityEffect
<1> QED
  BY <1>2, <1>6

(* Only the record of a request in flight adds a binding, and only one.     *)
LEMMA BindingsStep ==
    ASSUME TypeOK, PendingTypeOK, [ApplicabilityNext]_avars
    PROVE  \/ mem'.bindings = mem.bindings
           \/ \E r \in Request : RecordBinding(r)
<1>1. CASE SubmitItems
  <2>1. PICK id, item : mem' = Apply(mem, RegisterItemOp(id, item))
    BY <1>1, SubmitItemsCreates, RegistrationStep
  <2> QED
    BY <2>1, RegisterItemEffect DEF TypeOK
<1>2. CASE SubmitVersions
  <2>1. PICK id \in DOMAIN mem.items, number \in Version, w \in Window :
            \E target, manifest : mem' = Apply(mem, SupersedeVersionOp(id, target, number,
                                                       Entry("valid", w), manifest))
    BY <1>2, SubmitVersionsSupersedes, SupersessionStep
  <2> QED
    BY <2>1, SupersedeVersionEffect DEF TypeOK
<1>3. ASSUME NEW r \in Request, RefuseBinding(r) \/ \E ask \in Ask : RequestBinding(r, ask)
      PROVE  mem'.bindings = mem.bindings
  BY <1>3 DEF RefuseBinding, RequestBinding
<1>4. CASE ClockMoves \/ UNCHANGED avars
  BY <1>4 DEF ClockMoves, avars
<1> QED
  BY <1>1, <1>2, <1>3, <1>4 DEF ApplicabilityNext, Bindings

(* For a settled instant, a step that adds no retroactive binding of the    *)
(* subject adds nothing that applies.                                      *)
LEMMA NewBindingsDoNotApply ==
    ASSUME TypeOK, PendingTypeOK, [ApplicabilityNext]_avars,
           NEW subject \in Subject, ~NewRetroactive(subject),
           NEW t \in Instant, IsSettled(t),
           NEW i \in DOMAIN mem'.bindings, i \notin DOMAIN mem.bindings,
           mem'.bindings[i].subject = subject
    PROVE  ~AppliesAt(mem'.bindings[i], t)
<1>1. PICK r \in Request : RecordBinding(r)
  BY BindingsStep
<1>2. PICK b : /\ b.terms.registered = pending[r].stamp
               /\ mem'.bindings = Append(mem.bindings, b)
  BY <1>1, RecordedBinding
<1>3. mem'.bindings[i] = b
  <2> DEFINE S == Binding \cup {b}
  <2>1. mem.bindings \in Seq(S) /\ b \in S
    BY DEF TypeOK, IsStore
  <2> HIDE DEF S
  <2> QED
    BY <1>2, <2>1, AppendProperties, LenProperties
<1>4. pending[r] \in [ask : Ask, stamp : Instant] /\ t < pending[r].stamp
  BY <1>1 DEF PendingTypeOK, RecordBinding, IsSettled
<1>5. PICK stamp \in Instant : stamp = pending[r].stamp
  BY <1>4
<1>6. ~(t >= b.terms.registered)
  BY <1>2, <1>4, <1>5, InstantAssumption
<1>7. ~b.terms.retroactive
  BY <1>3 DEF NewRetroactive
<1> QED
  BY <1>3, <1>6, <1>7 DEF AppliesAt

LEMMA StepKeepsBindingPlaces ==
    ASSUME TypeOK, [Next]_vars
    PROVE  /\ DOMAIN mem.bindings \subseteq DOMAIN mem'.bindings
           /\ \A i \in DOMAIN mem.bindings : mem'.bindings[i] = mem.bindings[i]
<1>1. CASE BindApplicabilities
  <2>1. PICK b : mem'.bindings = Append(mem.bindings, b)
    BY <1>1, BindEffect
  <2> DEFINE S == Binding \cup {b}
  <2>2. mem.bindings \in Seq(S) /\ b \in S
    BY DEF TypeOK, IsStore
  <2> HIDE DEF S
  <2> QED
    BY <2>1, <2>2, AppendProperties, LenProperties
<1>2. CASE mem'.bindings = mem.bindings
  BY <1>2
<1> QED
  BY <1>1, <1>2, BindingsFrame DEF vars

LEMMA StepKeepsAnswers ==
    TypeOK /\ PendingTypeOK /\ [ApplicabilityNext]_avars => AnswersStand
<1> SUFFICES ASSUME TypeOK, PendingTypeOK, [ApplicabilityNext]_avars,
                    NEW subject \in Subject, ~NewRetroactive(subject), ~NewManifest(subject),
                    NEW t \in Instant, IsSettled(t), NEW facts \in Facts \cup {None}
             PROVE  /\ AppliedSet(Answer(subject, facts, t)') = AppliedSet(Answer(subject, facts, t))
                    /\ \A i \in AppliedSet(Answer(subject, facts, t)) :
                           Answer(subject, facts, t)'[i] = Answer(subject, facts, t)[i]
  BY DEF AnswersStand
<1>1. PICK before, after : before = Answer(subject, facts, t) /\ after = Answer(subject, facts, t)'
  OBVIOUS
<1>2. /\ DOMAIN before = {i \in DOMAIN mem.bindings : mem.bindings[i].subject = subject}
      /\ \A i \in DOMAIN before :
             before[i] = Verdict(mem.bindings[i], content[mem.bindings[i].profile], facts, t)
      /\ DOMAIN after = {i \in DOMAIN mem'.bindings : mem'.bindings[i].subject = subject}
      /\ \A i \in DOMAIN after :
             after[i] = Verdict(mem'.bindings[i], content'[mem'.bindings[i].profile], facts, t)
  BY <1>1 DEF Answer
<1>3. /\ DOMAIN mem.bindings \subseteq DOMAIN mem'.bindings
      /\ \A i \in DOMAIN mem.bindings : mem'.bindings[i] = mem.bindings[i]
  BY StepImplements, StepKeepsBindingPlaces
<1>4. \A i \in DOMAIN before : i \in DOMAIN after /\ after[i] = before[i]
  BY <1>2, <1>3 DEF NewManifest
<1>5. ASSUME NEW i \in DOMAIN after, i \notin DOMAIN before
      PROVE  after[i] = "none"
  <2>1. /\ i \in DOMAIN mem'.bindings /\ i \notin DOMAIN mem.bindings
        /\ mem'.bindings[i].subject = subject
    BY <1>2, <1>3, <1>5
  <2>2. ~AppliesAt(mem'.bindings[i], t)
    BY <2>1, NewBindingsDoNotApply
  <2> QED
    BY <1>2, <2>2 DEF Verdict
<1>6. /\ AppliedSet(after) = AppliedSet(before)
      /\ \A i \in AppliedSet(before) : after[i] = before[i]
  BY <1>4, <1>5 DEF AppliedSet
<1> QED
  BY <1>1, <1>6

(* The answers for a settled instant stand: nothing but a retroactive       *)
(* binding or a new manifest changes what applied in the past.              *)
THEOREM PastStands == ApplicabilitySpec => PastAnswersStand
<1> QED
  BY StepKeepsAnswers, ImplementsStore, TypeCorrect, PendingTyped, PTL
     DEF ApplicabilitySpec, PastAnswersStand
=============================================================================
