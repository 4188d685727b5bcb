--------------------------- MODULE DiscoveryProofs --------------------------
(***************************************************************************)
(* Signed descriptors (Discovery.tla): publishing implements the store, and  *)
(* what the keyring accepted still verifies after supersessions, after the   *)
(* typed fields are laid over a body, and after any number of restarts.     *)
(***************************************************************************)
EXTENDS Discovery, RegistryStoreProofs

-----------------------------------------------------------------------------
(* A step of the handlers is one of the store, or none.                     *)

LEMMA AcceptedStatus ==
    ASSUME NEW id \in ServiceId, NEW s \in ServiceSubmissions[id]
    PROVE  PublishedStatus(s.body) \in ServiceStatus
BY DEF ServiceSubmissions, ServiceAccepted, ServiceBodyParses, PublishedStatus, Given,
       HasTextOf, OneOf, ServiceStatus

LEMMA StepImplements == [DiscoveryNext]_dvars => [Next]_vars
<1> SUFFICES ASSUME [DiscoveryNext]_dvars
             PROVE  [Next]_vars
  OBVIOUS
<1>1. CASE PublishServices
  BY <1>1, AcceptedStatus DEF PublishServices, PublishService, CreateServices, Next
<1>2. CASE PublishVersions
  BY <1>2, AcceptedStatus DEF PublishVersions, PublishVersion, SupersedeServices, Next
<1>3. CASE PublishDescriptors
  BY <1>3 DEF PublishDescriptors, PublishDescriptor, RegisterDescriptors, Next
<1>4. CASE Restart \/ UNCHANGED dvars
  BY <1>4 DEF Restart, dvars, vars
<1> QED
  BY <1>1, <1>2, <1>3, <1>4 DEF DiscoveryNext

(* Every behaviour of the publishing handlers is one of the store.          *)
THEOREM DiscoveryImplementsStore == DiscoverySpec => Spec
<1>1. DiscoveryInit => Init
  BY DEF DiscoveryInit
<1> QED
  BY <1>1, StepImplements, PTL DEF DiscoverySpec, Spec

-----------------------------------------------------------------------------
(* Services: the body is kept as it was signed.                             *)

LEMMA PublishServiceEffect ==
    ASSUME TypeOK, NEW id, NEW number, NEW w, NEW s, PublishService(id, number, w, s),
           NEW first, first = [v \in {number} |-> Entry(PublishedStatus(s.body), w)]
    PROVE  /\ id \notin DOMAIN mem.services
           /\ mem'.services = With(mem.services, id, first)
<1>1. mem' = Apply(mem, RegisterServiceOp(id, first))
  BY DEF PublishService, CreateService, Record
<1>2. id \notin DOMAIN mem.services
  BY DEF PublishService, CreateService, CanRegisterService
<1> QED
  BY <1>1, <1>2, RegisterServiceEffect DEF TypeOK

LEMMA PublishVersionEffect ==
    ASSUME TypeOK, NEW id, NEW target, NEW number, NEW w, NEW s,
           PublishVersion(id, target, number, w, s)
    PROVE  LET vs == mem.services[id]
               e  == Entry(PublishedStatus(s.body), w)
           IN  /\ id \in DOMAIN mem.services
               /\ target \in DOMAIN vs /\ number \notin DOMAIN vs
               /\ mem'.services =
                      [mem.services EXCEPT ![id] = Superseded(vs, target, number, e)]
BY SupersedeServiceEffect
   DEF PublishVersion, SupersedeService, CanSupersedeService, Record, TypeOK

LEMMA OthersKeepServices ==
    ASSUME TypeOK, PublishDescriptors \/ Restart \/ UNCHANGED dvars
    PROVE  mem'.services = mem.services /\ published' = published
<1>1. CASE PublishDescriptors
  <2>1. PICK kind \in Kind, id \in DescriptorId, version \in Title, s \in Submission :
            PublishDescriptor(kind, id, version, s)
    BY <1>1 DEF PublishDescriptors
  <2>2. PICK o : /\ o.op \in {"register-protocol-binding", "register-verification-mechanism"}
                 /\ mem' = Apply(mem, o)
    <3>1. /\ RegisterProtocolBindingOp(id).op = "register-protocol-binding"
          /\ RegisterVerificationMechanismOp(id).op = "register-verification-mechanism"
      BY DEF RegisterProtocolBindingOp, RegisterVerificationMechanismOp
    <3>2. \/ mem' = Apply(mem, RegisterProtocolBindingOp(id))
          \/ mem' = Apply(mem, RegisterVerificationMechanismOp(id))
      BY <2>1 DEF PublishDescriptor, CreateProtocolBinding, CreateVerificationMechanism, Record
    <3> QED
      BY <3>1, <3>2
  <2> QED
    BY <2>1, <2>2, OtherApplyKeepsServices DEF PublishDescriptor, TypeOK
<1>2. CASE Restart \/ UNCHANGED dvars
  BY <1>2 DEF Restart, dvars
<1> QED
  BY <1>1, <1>2

(* What ServicesStaySigned says of one version and of one service.          *)
VersionSigned(entry, s) ==
    /\ ServiceVerifies(s)
    /\ entry.status = IF entry.next = None THEN PublishedStatus(s.body) ELSE "superseded"

ServiceSigned(vs, bodies) == /\ DOMAIN bodies = DOMAIN vs
                             /\ \A n \in DOMAIN vs : VersionSigned(vs[n], bodies[n])

LEMMA SignedSplit ==
    ServicesStaySigned <=>
        /\ DOMAIN published = DOMAIN mem.services
        /\ \A id \in DOMAIN mem.services : ServiceSigned(mem.services[id], published[id])
BY DEF ServicesStaySigned, ServiceSigned, VersionSigned

LEMMA AcceptedSigned ==
    ASSUME NEW id, NEW s, s \in ServiceSubmissions[id], id \in ServiceId, NEW w
    PROVE  VersionSigned(Entry(PublishedStatus(s.body), w), s)
BY DEF ServiceSubmissions, ServiceAccepted, ServiceVerifies, VersionSigned, Entry

LEMMA SupersededSigned ==
    ASSUME NEW vs, NEW bodies, ServiceSigned(vs, bodies), NEW target \in DOMAIN vs,
           NEW number \in Version, number \notin DOMAIN vs, NEW e, NEW s, VersionSigned(e, s)
    PROVE  ServiceSigned(Superseded(vs, target, number, e), With(bodies, number, s))
<1> DEFINE new == Superseded(vs, target, number, e)
           all == With(bodies, number, s)
<1>0. number # None
  BY VersionAssumption, NoneAssumption
<1>1. DOMAIN new = DOMAIN vs \cup {number} /\ DOMAIN all = DOMAIN vs \cup {number}
  BY DEF Superseded, With, ServiceSigned
<1>2. VersionSigned(new[number], all[number])
  BY DEF Superseded, With
<1>3. ASSUME NEW n \in DOMAIN vs
      PROVE  VersionSigned(new[n], all[n])
  <2>1. all[n] = bodies[n] /\ VersionSigned(vs[n], bodies[n])
    BY DEF With, ServiceSigned
  <2>2. new[n] = IF n = target THEN Linked(vs[n], number) ELSE vs[n]
    BY DEF Superseded
  <2> QED
    BY <1>0, <2>1, <2>2 DEF VersionSigned, Linked
<1> QED
  BY <1>1, <1>2, <1>3 DEF ServiceSigned

LEMMA SignedInductive ==
    TypeOK /\ ServicesStaySigned /\ [DiscoveryNext]_dvars => ServicesStaySigned'
<1> SUFFICES ASSUME TypeOK, ServicesStaySigned, [DiscoveryNext]_dvars
             PROVE  ServicesStaySigned'
  OBVIOUS
<1>1. /\ DOMAIN published = DOMAIN mem.services
      /\ \A id \in DOMAIN mem.services : ServiceSigned(mem.services[id], published[id])
  BY SignedSplit
<1>2. SUFFICES /\ DOMAIN published' = DOMAIN mem'.services
               /\ \A id \in DOMAIN mem'.services :
                      ServiceSigned(mem'.services[id], published'[id])
  BY DEF ServicesStaySigned, ServiceSigned, VersionSigned
<1>3. CASE PublishServices
  <2>1. PICK id \in ServiceId, number \in Version, w \in Window, s \in Submission :
            PublishService(id, number, w, s)
    BY <1>3 DEF PublishServices
  <2>2. PICK first : first = [v \in {number} |-> Entry(PublishedStatus(s.body), w)]
    OBVIOUS
  <2>3. id \notin DOMAIN mem.services /\ mem'.services = With(mem.services, id, first)
    BY <2>1, <2>2, PublishServiceEffect
  <2>4. PICK bodies : bodies = [v \in {number} |-> s]
    OBVIOUS
  <2>5. published' = With(published, id, bodies)
    BY <2>1, <2>4 DEF PublishService
  <2>6. ServiceSigned(first, bodies)
    BY <2>1, <2>2, <2>4, AcceptedSigned DEF PublishService, ServiceSigned
  <2> QED
    BY <1>1, <2>3, <2>5, <2>6 DEF With
<1>4. CASE PublishVersions
  <2>1. PICK id \in ServiceId, target \in Version, number \in Version, w \in Window,
             s \in Submission : PublishVersion(id, target, number, w, s)
    BY <1>4 DEF PublishVersions
  <2>2. PICK e : e = Entry(PublishedStatus(s.body), w)
    OBVIOUS
  <2>3. /\ id \in DOMAIN mem.services
        /\ target \in DOMAIN mem.services[id] /\ number \notin DOMAIN mem.services[id]
        /\ mem'.services = [mem.services EXCEPT ![id] =
                                Superseded(mem.services[id], target, number, e)]
    BY <2>1, <2>2, PublishVersionEffect
  <2>4. published' = [published EXCEPT ![id] = With(published[id], number, s)]
    BY <2>1 DEF PublishVersion
  <2>5. VersionSigned(e, s)
    BY <2>1, <2>2, AcceptedSigned DEF PublishVersion
  <2>6. ServiceSigned(Superseded(mem.services[id], target, number, e),
                      With(published[id], number, s))
    BY <1>1, <2>3, <2>5, SupersededSigned
  <2> QED
    BY <1>1, <2>3, <2>4, <2>6
<1>5. CASE PublishDescriptors \/ Restart \/ UNCHANGED dvars
  BY <1>1, <1>5, OthersKeepServices
<1> QED
  BY <1>3, <1>4, <1>5 DEF DiscoveryNext

(* Every published version carries a body its operator signed, and the       *)
(* status signed there until it is superseded (create_service,              *)
(* supersede_service, ServiceVersion::verify).                              *)
THEOREM ServicesSigned == DiscoverySpec => []ServicesStaySigned
<1>1. DiscoveryInit => ServicesStaySigned
  BY DEF DiscoveryInit, Init, EmptyStore, ServicesStaySigned
<1> QED
  BY <1>1, SignedInductive, DiscoveryImplementsStore, TypeCorrect, PTL DEF DiscoverySpec

-----------------------------------------------------------------------------
(* Descriptors: what the journal keeps is enough to show, and to verify,     *)
(* what was shown before.                                                  *)

(* The keys of the typed fields, as a reader of the line finds them.        *)
StatedKeys(kind, v) ==
    {key \in NameKeys[kind] \cup TextKeys[kind] : HasText(v, key)} \cup
    IF kind = "protocol-binding" THEN {"media_types"} ELSE {}

(* A line that says all that is read out of it.                             *)
LineComplete(kind, v) ==
    /\ v = Object(v.fields)
    /\ v.fields = [key \in DOMAIN v.fields |-> v.fields[key]]
    /\ IsReadable(kind, v)
    /\ kind = "protocol-binding" => /\ "media_types" \in DOMAIN v.fields
                                    /\ v.fields["media_types"] = MediaTypes(v)

(* A line whose signed body states what is shown verifies.                  *)
LineVerifies(kind, v) ==
    LET signature == v.fields["signature"]
        payload   == signature.fields["value"].payload
    IN  (\A key \in StatedKeys(kind, v) :
             Has(payload, key) /\ payload.fields[key] = v.fields[key])
        => IsVerified(BodyOperator(v), Without(v, "signature"), signature)

(* A descriptor in memory agrees with its line.                             *)
DescriptorKept(kind, d, v) ==
    /\ Shown(d) = v
    /\ DOMAIN d.stated = StatedKeys(kind, v)
    /\ BodyOperator(d.body) = BodyOperator(v)

KindInv(kind, kept, written) ==
    /\ DOMAIN kept = DOMAIN written
    /\ \A id \in DOMAIN written : /\ LineComplete(kind, written[id])
                                  /\ LineVerifies(kind, written[id])
                                  /\ DescriptorKept(kind, kept[id], written[id])

DescriptorsInv ==
    /\ DOMAIN described = Kind /\ DOMAIN lines = Kind
    /\ \A kind \in Kind : KindInv(kind, described[kind], lines[kind])

LEMMA KeysApart ==
    ASSUME NEW kind \in Kind
    PROVE  /\ NameKeys[kind] \cap TextKeys[kind] = {}
           /\ FilledKeys[kind] \subseteq TextKeys[kind]
           /\ \A key \in NameKeys[kind] \cup TextKeys[kind] :
                  key \notin {"signature", "operator", "media_types"}
BY DEF Kind, NameKeys, TextKeys, FilledKeys

(* Reading a complete line and showing it gives the line.                   *)
LEMMA ReadBackShown ==
    ASSUME NEW kind \in Kind, NEW v, LineComplete(kind, v)
    PROVE  DescriptorKept(kind, ReadBack(kind, v), v)
<1> DEFINE keys   == NameKeys[kind] \cup TextKeys[kind]
           texts  == TextsOf(v, keys)
           stated == WithMediaTypes(kind, v, texts)
           body   == Without(v, "signature")
           d      == ReadBack(kind, v)
           shown  == With(Overlaid(body.fields, stated), "signature", v.fields["signature"])
<1>0. v.type = "object" /\ "signature" \in DOMAIN v.fields
  BY DEF LineComplete, IsReadable, Has
<1>1. /\ d.stated = stated /\ d.body = body /\ d.signature = v.fields["signature"]
      /\ body.type = "object"
      /\ body.fields = [key \in DOMAIN v.fields \ {"signature"} |-> v.fields[key]]
  BY DEF ReadBack, Without, Object
<1>2. /\ DOMAIN texts = {key \in keys : HasText(v, key)}
      /\ \A key \in DOMAIN texts : texts[key] = v.fields[key]
  BY DEF TextsOf
<1>3. /\ DOMAIN stated = StatedKeys(kind, v)
      /\ \A key \in DOMAIN stated : stated[key] = v.fields[key]
  BY <1>2 DEF WithMediaTypes, With, StatedKeys, LineComplete
<1>4. DOMAIN stated \subseteq DOMAIN v.fields \ {"signature"}
  BY <1>3, KeysApart DEF StatedKeys, HasText, Has, LineComplete
<1>5. shown = v.fields
  <2>1. DOMAIN shown = DOMAIN v.fields
    BY <1>0, <1>1, <1>4 DEF With, Overlaid
  <2>2. ASSUME NEW key \in DOMAIN v.fields
        PROVE  shown[key] = v.fields[key]
    BY <1>1, <1>3, <1>4 DEF With, Overlaid
  <2>3. shown = [key \in DOMAIN shown |-> shown[key]]
    BY DEF With
  <2> HIDE DEF shown
  <2> QED
    BY <2>1, <2>2, <2>3 DEF LineComplete
<1>6. Shown(d) = v
  BY <1>1, <1>5 DEF Shown, LineComplete
<1>7. BodyOperator(body) = BodyOperator(v)
  BY <1>0, <1>1 DEF BodyOperator, Has
<1> QED
  BY <1>1, <1>3, <1>6, <1>7 DEF DescriptorKept

(* The record of an accepted request: what is stated in it.                 *)
LEMMA StatedFields ==
    ASSUME NEW kind \in Kind, NEW id, NEW version, NEW s, s.body.type = "object"
    PROVE  LET stated == Descriptor(kind, id, version, s).stated
               texts  == {key \in TextKeys[kind] : HasText(s.body, key)}
           IN  /\ DOMAIN stated = NameKeys[kind] \cup texts \cup
                      IF kind = "protocol-binding" THEN {"media_types"} ELSE {}
               /\ \A key \in NameKeys[kind] : stated[key].type = "string"
               /\ \A key \in texts : stated[key] = s.body.fields[key]
               /\ kind = "protocol-binding" => stated["media_types"] = MediaTypes(s.body)
<1> DEFINE texts == {key \in TextKeys[kind] : HasText(s.body, key)}
           typed == TextsOf(s.body, TextKeys[kind])
           fields == WithMediaTypes(kind, s.body, typed)
           names == NamesOf(kind, id, version)
           stated == Overlaid(fields, names)
<1>1. DOMAIN typed = texts /\ \A key \in texts : typed[key] = s.body.fields[key]
  BY DEF TextsOf
<1>2. /\ DOMAIN fields = texts \cup IF kind = "protocol-binding" THEN {"media_types"} ELSE {}
      /\ \A key \in texts : fields[key] = s.body.fields[key]
      /\ kind = "protocol-binding" => fields["media_types"] = MediaTypes(s.body)
  BY <1>1, KeysApart DEF WithMediaTypes, With
<1>3. DOMAIN names = NameKeys[kind] /\ \A key \in NameKeys[kind] : names[key].type = "string"
  BY DEF NamesOf, Text
<1> HIDE DEF typed, fields, names
<1>4. /\ DOMAIN stated = DOMAIN fields \cup DOMAIN names
      /\ \A key \in DOMAIN names : stated[key] = names[key]
      /\ \A key \in DOMAIN fields \ DOMAIN names : stated[key] = fields[key]
  BY DEF Overlaid
<1>5. Descriptor(kind, id, version, s).stated = stated
  BY DEF Descriptor, fields, typed, names
<1> HIDE DEF stated
<1> QED
  BY <1>2, <1>3, <1>4, <1>5, KeysApart

LEMMA MediaTypesKept ==
    ASSUME NEW s \in Submission, DescriptorBodyParses("protocol-binding", s.body),
           NEW v, v.type = "object", "media_types" \in DOMAIN v.fields,
           v.fields["media_types"] = MediaTypes(s.body)
    PROVE  MediaTypes(v) = MediaTypes(s.body)
<1> DEFINE media == s.body.fields["media_types"]
<1>1. Has(s.body, "media_types") /\ media.type = "array"
  <2>1. List(<< >>).items = << >>
    BY DEF List
  <2> QED
    BY <2>1 DEF DescriptorBodyParses, MediaTypes
<1>2. MediaTypes(s.body) = List(SelectSeq(media.items, IsText))
  BY <1>1 DEF MediaTypes
<1>3. MediaTypes(v) = List(SelectSeq(SelectSeq(media.items, IsText), IsText))
  BY <1>2 DEF MediaTypes, Has, List
<1> QED
  BY <1>1, <1>2, <1>3, MediaTypesAssumption

LEMMA AcceptedDescriptor ==
    ASSUME NEW kind \in Kind, NEW id, NEW version, NEW s \in Submission,
           DescriptorAccepted(kind, s)
    PROVE  LET d == Descriptor(kind, id, version, s)
           IN  /\ LineComplete(kind, Shown(d))
               /\ LineVerifies(kind, Shown(d))
               /\ DescriptorKept(kind, d, Shown(d))
<1> DEFINE d == Descriptor(kind, id, version, s)
           stated == d.stated
           body == s.body
           fields == With(Overlaid(body.fields, stated), "signature", s.signature)
           v == Shown(d)
           texts == {key \in TextKeys[kind] : HasText(body, key)}
<1>1. body.type = "object" /\ Has(body, "operator")
  BY DEF DescriptorAccepted, DescriptorBodyParses, Has
<1>2. /\ DOMAIN stated = NameKeys[kind] \cup texts \cup
             IF kind = "protocol-binding" THEN {"media_types"} ELSE {}
      /\ \A key \in NameKeys[kind] : stated[key].type = "string"
      /\ \A key \in texts : stated[key] = body.fields[key]
      /\ kind = "protocol-binding" => stated["media_types"] = MediaTypes(body)
  BY <1>1, StatedFields
<1>3. d.body = body /\ d.signature = s.signature
  BY DEF Descriptor
<1>4. v = Object(fields) /\ v.type = "object" /\ v.fields = fields
  BY <1>3 DEF Shown, Object
<1> HIDE DEF d
<1>5. /\ DOMAIN fields = DOMAIN body.fields \cup DOMAIN stated \cup {"signature"}
      /\ fields["signature"] = s.signature
      /\ \A key \in DOMAIN stated \ {"signature"} : fields[key] = stated[key]
      /\ \A key \in DOMAIN body.fields \ (DOMAIN stated \cup {"signature"}) :
             fields[key] = body.fields[key]
      /\ fields = [key \in DOMAIN fields |-> fields[key]]
  BY DEF With, Overlaid
<1> HIDE DEF v, fields
<1>6. "signature" \notin DOMAIN stated /\ "operator" \notin DOMAIN stated
  BY <1>2, KeysApart
<1>7. /\ \A key \in NameKeys[kind] : HasText(v, key)
      /\ \A key \in TextKeys[kind] : HasText(v, key) <=> HasText(body, key)
  <2>1. \A key \in NameKeys[kind] : HasText(v, key)
    BY <1>2, <1>4, <1>5, <1>6 DEF HasText, Has
  <2>2. ASSUME NEW key \in TextKeys[kind]
        PROVE  HasText(v, key) <=> HasText(body, key)
    <3>1. key # "signature" /\ key # "media_types" /\ key \notin NameKeys[kind]
      BY KeysApart
    <3>2. CASE HasText(body, key)
      BY <1>2, <1>4, <1>5, <1>6, <3>1, <3>2 DEF HasText, Has
    <3>3. CASE ~HasText(body, key)
      <4>1. key \notin DOMAIN stated
        BY <1>2, <3>1, <3>3
      <4> QED
        BY <1>1, <1>4, <1>5, <3>1, <3>3, <4>1 DEF HasText, Has
    <3> QED
      BY <3>2, <3>3
  <2> QED
    BY <2>1, <2>2
<1>8. DOMAIN stated = StatedKeys(kind, v)
  BY <1>2, <1>7 DEF StatedKeys
<1>9. BodyOperator(body) = BodyOperator(v)
  BY <1>1, <1>4, <1>5, <1>6 DEF BodyOperator, Has
<1>10. LineComplete(kind, v)
  <2>1. \A key \in FilledKeys[kind] : HasText(v, key)
    BY <1>7, KeysApart DEF DescriptorAccepted, DescriptorBodyParses, FilledText, NonEmpty, HasText
  <2>2. IsReadable(kind, v)
    BY <1>4, <1>5, <1>7, <2>1 DEF IsReadable, Has, DescriptorAccepted
  <2>3. ASSUME kind = "protocol-binding"
        PROVE  /\ "media_types" \in DOMAIN v.fields
               /\ v.fields["media_types"] = MediaTypes(v)
    <3>1. "media_types" \in DOMAIN v.fields /\ v.fields["media_types"] = MediaTypes(body)
      BY <1>2, <1>4, <1>5, <2>3
    <3> QED
      BY <1>4, <2>3, <3>1, MediaTypesKept DEF DescriptorAccepted
  <2> QED
    BY <1>4, <1>5, <2>2, <2>3 DEF LineComplete
<1>11. LineVerifies(kind, v)
  <2> DEFINE payload == Without(body, "signature")
  <2>1. PICK k \in Known : /\ OperatorId[k] = BodyOperator(body)
                           /\ s.signature.fields["value"] = SignedBy(k, payload)
    BY DEF DescriptorAccepted, IsVerified
  <2>2. /\ v.fields["signature"] = s.signature
        /\ s.signature.fields["value"].payload = payload
    BY <1>4, <1>5, <2>1 DEF SignedBy
  <2>3. /\ payload.type = "object"
        /\ DOMAIN payload.fields = DOMAIN body.fields \ {"signature"}
        /\ \A key \in DOMAIN payload.fields : payload.fields[key] = body.fields[key]
        /\ payload = Object([key \in DOMAIN body.fields \ {"signature"} |-> body.fields[key]])
    BY DEF Without, Object
  <2> SUFFICES ASSUME \A key \in StatedKeys(kind, v) :
                          Has(payload, key) /\ payload.fields[key] = v.fields[key]
               PROVE  IsVerified(BodyOperator(v), Without(v, "signature"), s.signature)
    BY <2>2 DEF LineVerifies
  <2>4. /\ DOMAIN v.fields \ {"signature"} = DOMAIN body.fields \ {"signature"}
        /\ \A key \in DOMAIN body.fields \ {"signature"} : v.fields[key] = body.fields[key]
    BY <1>4, <1>5, <1>6, <1>8, <2>3 DEF Has
  <2>5. Without(v, "signature") = payload
    BY <2>3, <2>4 DEF Without
  <2> QED
    BY <1>9, <2>1, <2>5 DEF IsVerified
<1> QED
  BY <1>3, <1>8, <1>9, <1>10, <1>11 DEF DescriptorKept, v, d

-----------------------------------------------------------------------------
LEMMA DescriptorsInductive == DescriptorsInv /\ [DiscoveryNext]_dvars => DescriptorsInv'
<1> SUFFICES ASSUME DescriptorsInv, [DiscoveryNext]_dvars
             PROVE  DescriptorsInv'
  OBVIOUS
<1>1. CASE PublishDescriptors
  <2>1. PICK kind \in Kind, id \in DescriptorId, version \in Title, s \in Submission :
            PublishDescriptor(kind, id, version, s)
    BY <1>1 DEF PublishDescriptors
  <2>2. PICK d : d = Descriptor(kind, id, version, s)
    OBVIOUS
  <2>3. /\ described' = [described EXCEPT ![kind] = With(described[kind], id, d)]
        /\ lines' = [lines EXCEPT ![kind] = With(lines[kind], id, Shown(d))]
    BY <2>1, <2>2 DEF PublishDescriptor
  <2>4. /\ LineComplete(kind, Shown(d))
        /\ LineVerifies(kind, Shown(d))
        /\ DescriptorKept(kind, d, Shown(d))
    BY <2>1, <2>2, AcceptedDescriptor DEF PublishDescriptor, DescriptorSubmissions
  <2>5. KindInv(kind, With(described[kind], id, d), With(lines[kind], id, Shown(d)))
    BY <2>4 DEF DescriptorsInv, KindInv, With
  <2> QED
    BY <2>3, <2>5 DEF DescriptorsInv
<1>2. CASE Restart
  <2>1. ASSUME NEW kind \in Kind
        PROVE  KindInv(kind, described'[kind], lines'[kind])
    <3>1. /\ described'[kind] = [id \in DOMAIN lines[kind] |-> ReadBack(kind, lines[kind][id])]
          /\ lines' = lines
      BY <1>2 DEF Restart
    <3> QED
      BY <3>1, ReadBackShown DEF DescriptorsInv, KindInv
  <2> QED
    BY <1>2, <2>1 DEF Restart, DescriptorsInv
<1>3. CASE PublishServices \/ PublishVersions \/ UNCHANGED dvars
  BY <1>3 DEF PublishServices, PublishService, PublishVersions, PublishVersion, dvars,
              DescriptorsInv
<1> QED
  BY <1>1, <1>2, <1>3 DEF DiscoveryNext

LEMMA DescriptorsInvariant == DiscoverySpec => []DescriptorsInv
<1>1. DiscoveryInit => DescriptorsInv
  BY DEF DiscoveryInit, DescriptorsInv, KindInv
<1> QED
  BY <1>1, DescriptorsInductive, PTL DEF DiscoverySpec

(* Restarts lose no descriptor and change nothing of what is shown of it:    *)
(* to_json and from_json_value are inverse on what intake accepts, although  *)
(* they are not on every object.                                           *)
THEOREM ReadBackSame == DiscoverySpec => []DescriptorsReadBack
<1>1. DescriptorsInv => DescriptorsReadBack
  BY DEF DescriptorsInv, KindInv, DescriptorKept, LineComplete, DescriptorsReadBack
<1> QED
  BY <1>1, DescriptorsInvariant, PTL

(* A descriptor whose body states itself what the registry shows of it       *)
(* verifies as shown, for ever.                                            *)
THEOREM CompleteVerify == DiscoverySpec => []CompleteDescriptorsVerify
<1>1. DescriptorsInv => CompleteDescriptorsVerify
  <2> SUFFICES ASSUME DescriptorsInv, NEW kind \in Kind, NEW id \in DOMAIN described[kind],
                      StatesItself(described[kind][id])
               PROVE  DescriptorVerifies(described[kind][id])
    BY DEF CompleteDescriptorsVerify
  <2> DEFINE d == described[kind][id]
             v == lines[kind][id]
  <2>1. LineVerifies(kind, v) /\ LineComplete(kind, v) /\ DescriptorKept(kind, d, v)
    BY DEF DescriptorsInv, KindInv
  <2>2. /\ v.fields["signature"] = d.signature
        /\ \A key \in DOMAIN d.stated \ {"signature"} : v.fields[key] = d.stated[key]
    <3>1. v = Shown(d)
      BY <2>1 DEF DescriptorKept
    <3>2. v.fields = With(Overlaid(d.body.fields, d.stated), "signature", d.signature)
      BY <3>1 DEF Shown, Object
    <3> HIDE DEF d, v
    <3> QED
      BY <3>2 DEF With, Overlaid
  <2>3. "signature" \notin DOMAIN d.stated
    BY <2>1, KeysApart DEF DescriptorKept, StatedKeys
  <2>4. IsVerified(BodyOperator(v), Without(v, "signature"), d.signature)
    BY <2>1, <2>2, <2>3 DEF StatesItself, LineVerifies, DescriptorKept
  <2> QED
    BY <2>1, <2>4 DEF DescriptorVerifies, DescriptorKept
<1> QED
  BY <1>1, DescriptorsInvariant, PTL
=============================================================================
