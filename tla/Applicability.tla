---------------------------- MODULE Applicability ---------------------------
(***************************************************************************)
(* Which profiles apply to a product type at an instant (api.rs,            *)
(* evaluate_applicability), over everything that changes the answer: items  *)
(* that come in through the intake chain (intake.rs), supersessions that     *)
(* bring a new manifest or carry the old one over, bindings whose request    *)
(* is stamped before the store is locked, and the wall clock.               *)
(*                                                                         *)
(* `content' holds what RegistryStore leaves out of a manifest: the name of *)
(* the document each registered item carries.                              *)
(***************************************************************************)
EXTENDS RegistryStore, Calendar, Manifests

CONSTANTS
    Body,        \* the documents requests submit, by name
    Register,    \* identifier -> register it belongs to
    VersionOf,   \* version texts -> numbers
    Instant,     \* the instants the clock shows and requests name
    Request,     \* the requests to bind that may be in flight
    Ask,         \* what such a request may ask for
    Facts        \* the facts about a subject an evaluation may be given

ASSUME RegisterAssumption == DOMAIN Register = Identifier
ASSUME VersionOfAssumption == \A text \in DOMAIN VersionOf : VersionOf[text] \in Version
ASSUME InstantAssumption == Instant \subseteq Int
ASSUME AskAssumption ==
    \A a \in Ask : /\ a.subject \in Subject
                   /\ a.profile \in Identifier
                   /\ a.pin \in Version \cup {None}
                   /\ a.from \in Instant \cup {None}      \* None: now
                   /\ a.until \in Instant \cup {None}
                   /\ a.retroactive \in BOOLEAN
ASSUME TermsAssumption ==
    Terms = [from : Instant, until : Instant \cup {None}, registered : Instant,
             retroactive : BOOLEAN]
ASSUME DocumentAssumption == None \notin DOMAIN Body

Document == DOMAIN Body

VARIABLES content,   \* identifier -> document of the item's manifest, or None
          now,       \* the wall clock
          pending    \* request -> what it asked for and its stamp, or None

avars == <<mem, log, content, now, pending>>

-----------------------------------------------------------------------------
(* The intake chain, for the class of the item: the signed form of a        *)
(* profile, its schema, its satisfiability; the schema of a mapping and its  *)
(* references.  `strict' = FALSE turns unservable demands into warnings.    *)

WellFormedProfiles ==
    {d \in Document : IsSigned(Body[d]) /\ ProfileConforms(Body[d]) /\ ProfileParses(Body[d])}

SatisfiableProfiles == {d \in WellFormedProfiles : IsSatisfiable(Body[d])}

WellFormedMappings == {d \in Document : MappingConforms(Body[d]) /\ MappingParses(Body[d])}

ResolvesItem(st, ref) == ref.fields["item"].text \in DOMAIN st.items           \* mutant

Resolves(st, ref) ==
    LET id == ref.fields["item"].text
    IN  /\ id \in DOMAIN st.items
        /\ Given(ref, "register") => ref.fields["register"].text = Register[id]
        /\ Given(ref, "version") =>
               /\ ref.fields["version"].text \in DOMAIN VersionOf
               /\ VersionOf[ref.fields["version"].text] \in DOMAIN st.items[id].versions

IntakeAccepts(st, class, d, strict) ==
    /\ class = "profile" => /\ d \in WellFormedProfiles
                            /\ strict => d \in SatisfiableProfiles
    /\ class = "cross-register-mapping" =>
           d \in WellFormedMappings /\ \A ref \in Referents(Body[d]) : Resolves(st, ref)

-----------------------------------------------------------------------------
(* The evaluation.                                                         *)

AppliesOnceEffective(b, t) ==                                                  \* mutant
    Covers(b.terms.from, b.terms.until, t)

AppliesAt(b, t) ==
    /\ Covers(b.terms.from, b.terms.until, t)
    /\ b.terms.retroactive \/ t >= b.terms.registered

(* The documents whose time triggers all parse; those that have any; and    *)
(* <<document, facts, instant>> when the facts meet them all at the instant.  *)
(* A subject without the basis of a trigger is not in its scope.            *)
Evaluable == {d \in Document : TimeTriggersParse(Body[d])}

Clocked == {d \in Document : TimeTriggers(Body[d]) # {}}

Met == {q \in Evaluable \X Facts \X Instant :
            \A i \in TimeTriggers(Body[q[1]]) :
                LET trigger == TimeTriggerOf(Triggers(Body[q[1]])[i])
                IN  IsEvaluable(trigger, q[2]) /\ IsSatisfied(trigger, q[2], q[3])}

(* `facts' = None is a query that supplies none. *)
Verdict(b, d, facts, t) ==
    IF ~AppliesAt(b, t) THEN "none"
    ELSE IF d \notin Clocked THEN "applicable"
    ELSE IF facts = None THEN "unresolved"
    ELSE IF <<d, facts, t>> \in Met THEN "applicable"
    ELSE "none"

(* The manifest that counts is the profile's present one: neither the pin    *)
(* of the binding nor the instant asked about chooses another.              *)
Answer(subject, facts, t) ==
    [i \in {i \in DOMAIN mem.bindings : mem.bindings[i].subject = subject} |->
        Verdict(mem.bindings[i], content[mem.bindings[i].profile], facts, t)]

(* One malformed trigger of one profile that applies refuses the query.     *)
IsRefused(subject, t) ==
    \E i \in DOMAIN mem.bindings :
        LET b == mem.bindings[i]
        IN  /\ b.subject = subject
            /\ AppliesAt(b, t)
            /\ content[b.profile] \in Document \ Evaluable

-----------------------------------------------------------------------------
ApplicabilityInit == /\ Init
                     /\ content = << >>
                     /\ now \in Instant
                     /\ pending = [r \in Request |-> None]

(* POST /items: intake and record under one lock. *)
SubmitItem(id, class, number, w, d, strict) ==
    /\ d = None => class \notin PinnedClass
    /\ IntakeAccepts(mem, class, d, strict)
    /\ CreateItem(id, class, number, w,
                  IF d = None THEN None ELSE [pin |-> number, express |-> None])
    /\ content' = With(content, id, d)
    /\ UNCHANGED <<now, pending>>

(* A mutant that checks the manifest that is there, not the one to come.    *)
KeptDocument(id, d) == content[id]

(* A request without a manifest keeps the old one, and it is checked again. *)
EffectiveDocument(id, d) == IF d = None THEN content[id] ELSE d

(* POST /items/{id}/versions. *)
SubmitVersion(id, target, number, w, pin, d, strict) ==
    /\ id \in DOMAIN mem.items
    /\ IntakeAccepts(mem, mem.items[id].class, EffectiveDocument(id, d), strict)
    /\ SupersedeItem(id, target, number, w,
                     IF d = None THEN None ELSE [pin |-> pin, express |-> None])
    /\ content' = [content EXCEPT ![id] = IF d = None THEN @ ELSE d]
    /\ UNCHANGED <<now, pending>>

From(ask, stamp) == IF ask.from = None THEN stamp ELSE ask.from

(* POST /applicability: the request is stamped and its window checked        *)
(* before the lock is taken.                                               *)
RequestBinding(r, ask) ==
    /\ pending[r] = None
    /\ ask.until # None => ask.until > From(ask, now)
    /\ pending' = [pending EXCEPT ![r] = [ask |-> ask, stamp |-> now]]
    /\ UNCHANGED <<mem, log, content, now>>

TermsOf(request) == [from        |-> From(request.ask, request.stamp),
                     until       |-> request.ask.until,
                     registered  |-> request.stamp,
                     retroactive |-> request.ask.retroactive]

RecordBinding(r) ==
    /\ pending[r] # None
    /\ BindApplicability(pending[r].ask.subject, pending[r].ask.profile, pending[r].ask.pin,
                         TermsOf(pending[r]))
    /\ pending' = [pending EXCEPT ![r] = None]
    /\ UNCHANGED <<content, now>>

RefuseBinding(r) ==
    /\ pending[r] # None
    /\ ~CanBind(mem, pending[r].ask.profile, pending[r].ask.pin)
    /\ pending' = [pending EXCEPT ![r] = None]
    /\ UNCHANGED <<mem, log, content, now>>

(* Time passes, and the clock of the machine may be set back. *)
ClockMoves == /\ now' \in Instant \ {now}
              /\ UNCHANGED <<mem, log, content, pending>>

(* Record tests the bound on the log last; it is tested here first, so that *)
(* TLC does not enumerate the requests of a full log.                      *)
SubmitItems ==
    /\ Len(log) < MaxLog
    /\ \E id \in Identifier \ DOMAIN mem.items, class \in Class \ {"model"},
          number \in Version, w \in Window, d \in Document \cup {None}, strict \in BOOLEAN :
              SubmitItem(id, class, number, w, d, strict)

SubmitVersions ==
    /\ Len(log) < MaxLog
    /\ \E id \in DOMAIN mem.items, w \in Window, d \in Document \cup {None},
          strict \in BOOLEAN :
           \E number \in Version \ DOMAIN mem.items[id].versions,
              target \in DOMAIN mem.items[id].versions :
               \E pin \in DOMAIN mem.items[id].versions \cup {number} :
                   SubmitVersion(id, target, number, w, pin, d, strict)

Bindings == \E r \in Request : \/ \E ask \in Ask : RequestBinding(r, ask)
                               \/ RecordBinding(r)
                               \/ RefuseBinding(r)

ApplicabilityNext == SubmitItems \/ SubmitVersions \/ Bindings \/ ClockMoves

ApplicabilitySpec == ApplicabilityInit /\ [][ApplicabilityNext]_avars

-----------------------------------------------------------------------------
ApplicabilityTypeOK ==
    /\ TypeOK
    /\ DOMAIN content = DOMAIN mem.items
    /\ \A id \in DOMAIN content : content[id] \in Document \cup {None}
    /\ now \in Instant
    /\ pending \in [Request -> [ask : Ask, stamp : Instant] \cup {None}]

(* No registered manifest makes evaluate_applicability answer 400 for a     *)
(* malformed trigger, by whichever handler it came in: intake holds what     *)
(* evaluation reads.                                                       *)
EvaluationNeverRefused ==
    \A subject \in Subject, t \in Instant : ~IsRefused(subject, t)

(* What intake accepted it would accept again, in warning mode: a request    *)
(* that carries the manifest over is never refused for the manifest's sake.  *)
(* The references of a mapping are checked at intake only, and rest on this.  *)
AcceptedStaysAcceptable ==
    \A id \in DOMAIN mem.items : IntakeAccepts(mem, mem.items[id].class, content[id], FALSE)

(* Item 57: both ends of a registered mapping are registered, in the version  *)
(* the mapping names.                                                      *)
MappingsResolve ==
    \A id \in DOMAIN mem.items :
        mem.items[id].class = "cross-register-mapping" =>
            \A ref \in Referents(Body[content[id]]) :
                /\ ref.fields["item"].text \in DOMAIN mem.items
                /\ Given(ref, "version") =>
                       VersionOf[ref.fields["version"].text]
                           \in DOMAIN mem.items[ref.fields["item"].text].versions

(* An instant is settled when it lies before the clock and before the stamp  *)
(* of every request in flight.                                             *)
IsSettled(t) == /\ t < now
                /\ \A r \in Request : pending[r] # None => t < pending[r].stamp

(* The answers for a settled instant stand: only a retroactive binding, or   *)
(* a new manifest of a bound profile, changes them.                        *)
NewRetroactive(subject) ==
    \E i \in DOMAIN mem.bindings' \ DOMAIN mem.bindings :
        mem'.bindings[i].subject = subject /\ mem'.bindings[i].terms.retroactive

NewManifest(subject) ==
    \E i \in DOMAIN mem.bindings :
        /\ mem.bindings[i].subject = subject
        /\ content'[mem.bindings[i].profile] # content[mem.bindings[i].profile]

AppliedSet(answer) == {i \in DOMAIN answer : answer[i] # "none"}

AnswersStand ==
    \A subject \in Subject : ~NewRetroactive(subject) /\ ~NewManifest(subject) =>
        \A t \in {t \in Instant : IsSettled(t)}, facts \in Facts \cup {None} :
            LET before == Answer(subject, facts, t)
                after  == Answer(subject, facts, t)'
            IN  /\ AppliedSet(after) = AppliedSet(before)
                /\ \A i \in AppliedSet(before) : after[i] = before[i]

PastAnswersStand == [][AnswersStand]_avars
=============================================================================
