------------------------------ MODULE Discovery -----------------------------
(***************************************************************************)
(* The signed descriptors of discovery.rs: services (C3), protocol bindings *)
(* (C4) and verification mechanisms (C5).  The handlers verify a signature  *)
(* over the body a request sends; what is stored, shown and journaled is     *)
(* put together from that body and from fields read out of the request, and  *)
(* a restart reads it all back from what the journal shows of it.            *)
(*                                                                         *)
(* `published' and `described' hold what RegistryStore leaves out of its     *)
(* services and descriptors: their bodies and signatures.                   *)
(***************************************************************************)
EXTENDS RegistryStore, JsonValues

CONSTANTS
    Key,         \* Ed25519 keys
    Known,       \* the keys the operator keyring was seeded with
    OperatorId,  \* key -> the operator id derived from it
    KeyId,       \* key -> the key id derived from it
    Submission,  \* the bodies and signatures requests bring
    Title        \* the texts of the `version' of a protocol binding

ASSUME KnownAssumption == Known \subseteq Key
ASSUME OperatorIdAssumption ==
    \A k, l \in Key : OperatorId[k] = OperatorId[l] => k = l

(* What 64 and 128 hex digits stand for: a key, and what one signed.        *)
PublicKey(k)          == [type |-> "key", key |-> k]
SignedBy(k, payload)  == [type |-> "signature", key |-> k, payload |-> payload]

(* That dropping the elements that are no texts twice drops no more than      *)
(* once: true of every list, but by induction.                             *)
IsText(v) == v.type = "string"

ASSUME MediaTypesAssumption ==
    \A s \in Submission : Has(s.body, "media_types") =>
        LET media == s.body.fields["media_types"]
        IN  media.type = "array" =>
                SelectSeq(SelectSeq(media.items, IsText), IsText)
                    = SelectSeq(media.items, IsText)

VARIABLES published,  \* service -> version -> [body, signature]
          described,  \* kind -> descriptor -> [stated, body, signature]
          lines       \* kind -> descriptor -> what the journal keeps of it

dvars == <<mem, log, published, described, lines>>

-----------------------------------------------------------------------------
(* The parsers and the keyring.                                            *)

ServiceClass == {"issuer", "registry", "resolver", "trust", "log", "archive",
                 "gateway", "marketplace-gate", "edge"}

Without(v, key) == Object([k \in DOMAIN v.fields \ {key} |-> v.fields[k]])

SignatureParses(v) ==
    /\ HasText(v, "key_id")
    /\ HasTextOf(v, "algorithm", {"ed25519"})
    /\ Has(v, "value") /\ v.fields["value"].type = "signature"

OperatorParses(v) ==
    /\ FilledText(v, "id")
    /\ Has(v, "public_key") /\ v.fields["public_key"].type = "key"
    /\ v.fields["id"].text = OperatorId[v.fields["public_key"].key]

EndpointParses(v) ==
    /\ FilledText(v, "uri")
    /\ Given(v, "protocol_binding_ref") => HasText(v, "protocol_binding_ref")

ServiceBodyParses(body, id) ==
    /\ HasTextOf(body, "class", ServiceClass)
    /\ Has(body, "operator") /\ OperatorParses(body.fields["operator"])
    /\ Elements(body, "endpoints") # {}
    /\ \A v \in Elements(body, "endpoints") : EndpointParses(v)
    /\ Given(body, "status") => HasTextOf(body, "status", ServiceStatus)
    /\ HasText(body, "identifier") => body.fields["identifier"].text = id

PublishedStatus(body) ==
    IF Given(body, "status") THEN body.fields["status"].text ELSE "active"

(* OperatorKeyring::verify. *)
IsVerified(operator, payload, signature) ==
    \E k \in Known : /\ OperatorId[k] = operator
                     /\ signature.fields["value"] = SignedBy(k, payload)

(* The operator a stored body names, read again without a check.            *)
BodyOperator(body) ==
    IF Has(body, "operator") /\ HasText(body.fields["operator"], "id")
    THEN body.fields["operator"].fields["id"].text ELSE ""

-----------------------------------------------------------------------------
(* C3: the body is kept apart from what the registry adds to it.            *)

(* A mutant that trusts the key id. *)
ServiceAcceptedByKeyId(id, s) ==
    /\ SignatureParses(s.signature)
    /\ ServiceBodyParses(s.body, id)
    /\ s.signature.fields["key_id"].text
           = KeyId[s.body.fields["operator"].fields["public_key"].key]

ServiceAccepted(id, s) ==
    /\ SignatureParses(s.signature)
    /\ ServiceBodyParses(s.body, id)
    /\ IsVerified(BodyOperator(s.body), Without(s.body, "signature"), s.signature)
    /\ s.signature.fields["key_id"].text
           = KeyId[s.body.fields["operator"].fields["public_key"].key]

ServiceVerifies(s) ==
    IsVerified(BodyOperator(s.body), Without(s.body, "signature"), s.signature)

-----------------------------------------------------------------------------
(* C4 and C5: the fields that are read out of the request or the body, and   *)
(* the one object in which they are laid over the body to be shown.         *)

Kind == {"protocol-binding", "verification-mechanism"}

FilledKeys == [kind \in Kind |-> IF kind = "protocol-binding" THEN {"grammar_ref"}
                                 ELSE {"suite", "agility_status"}]

TextKeys == [kind \in Kind |->
    FilledKeys[kind] \cup
    IF kind = "protocol-binding" THEN {"conformance_suite_ref"}
    ELSE {"trust_framework", "trust_list_endpoint", "master_list_ref", "verdict_grammar_ref"}]

(* The fields the request states beside the body. *)
NameKeys == [kind \in Kind |-> IF kind = "protocol-binding" THEN {"identifier", "version"}
                               ELSE {"identifier"}]

(* Elements that are no texts are dropped, in silence. *)
MediaTypes(v) ==
    IF Has(v, "media_types") /\ v.fields["media_types"].type = "array"
    THEN List(SelectSeq(v.fields["media_types"].items, IsText)) ELSE List(<< >>)

TextsOf(v, keys) == [key \in {key \in keys : HasText(v, key)} |-> v.fields[key]]

WithMediaTypes(kind, v, fields) ==
    IF kind = "protocol-binding" THEN With(fields, "media_types", MediaTypes(v)) ELSE fields

Overlaid(f, g) == [k \in DOMAIN f \cup DOMAIN g |-> IF k \in DOMAIN g THEN g[k] ELSE f[k]]

DescriptorBodyParses(kind, body) ==
    /\ \A key \in FilledKeys[kind] : FilledText(body, key)
    /\ kind = "protocol-binding" => MediaTypes(body).items # << >>
    /\ Has(body, "operator") /\ OperatorParses(body.fields["operator"])

DescriptorAccepted(kind, s) ==
    /\ SignatureParses(s.signature)
    /\ DescriptorBodyParses(kind, s.body)
    /\ IsVerified(BodyOperator(s.body), Without(s.body, "signature"), s.signature)

NamesOf(kind, id, version) == [key \in NameKeys[kind] |->
                                  Text(IF key = "identifier" THEN id ELSE version)]

(* The record the handlers build. *)
Descriptor(kind, id, version, s) ==
    [stated    |-> Overlaid(WithMediaTypes(kind, s.body, TextsOf(s.body, TextKeys[kind])),
                            NamesOf(kind, id, version)),
     body      |-> s.body,
     signature |-> s.signature]

(* A mutant that shows an absent reference as null. *)
ShownWithNull(d) ==
    LET fields == With(d.body.fields, "conformance_suite_ref", Null)
    IN  Object(With(Overlaid(fields, d.stated), "signature", d.signature))

(* to_json, as GET shows it and the journal keeps it. *)
Shown(d) == Object(With(Overlaid(d.body.fields, d.stated), "signature", d.signature))

(* from_json_value, on what the journal kept. *)
IsReadable(kind, v) ==
    /\ \A key \in NameKeys[kind] \cup FilledKeys[kind] : HasText(v, key)
    /\ Has(v, "signature") /\ SignatureParses(v.fields["signature"])

(* A mutant that keeps the typed fields only. *)
ReadBackFields(kind, v) ==
    LET stated == WithMediaTypes(kind, v, TextsOf(v, NameKeys[kind] \cup TextKeys[kind]))
    IN  [stated |-> stated, body |-> Object(stated), signature |-> v.fields["signature"]]

ReadBack(kind, v) ==
    [stated    |-> WithMediaTypes(kind, v, TextsOf(v, NameKeys[kind] \cup TextKeys[kind])),
     body      |-> Without(v, "signature"),
     signature |-> v.fields["signature"]]

(* The signature is checked over all that is shown, not over the body. *)
DescriptorVerifies(d) ==
    IsVerified(BodyOperator(d.body), Without(Shown(d), "signature"), d.signature)

(* What a request may bring, by the checks no state has a part in.          *)
ServiceSubmissions == [id \in ServiceId |-> {s \in Submission : ServiceAccepted(id, s)}]

DescriptorSubmissions == [kind \in Kind |-> {s \in Submission : DescriptorAccepted(kind, s)}]

-----------------------------------------------------------------------------
DiscoveryInit == /\ Init
                 /\ published = << >>
                 /\ described = [kind \in Kind |-> << >>]
                 /\ lines = [kind \in Kind |-> << >>]

(* POST /services and POST /services/{id}/versions. *)
PublishService(id, number, w, s) ==
    /\ s \in ServiceSubmissions[id]
    /\ CreateService(id, number, w, PublishedStatus(s.body))
    /\ published' = With(published, id, [v \in {number} |-> s])
    /\ UNCHANGED <<described, lines>>

PublishVersion(id, target, number, w, s) ==
    /\ s \in ServiceSubmissions[id]
    /\ SupersedeService(id, target, number, w, PublishedStatus(s.body))
    /\ published' = [published EXCEPT ![id] = With(@, number, s)]
    /\ UNCHANGED <<described, lines>>

(* POST /protocol-bindings and POST /verification-mechanisms. *)
PublishDescriptor(kind, id, version, s) ==
    /\ s \in DescriptorSubmissions[kind]
    /\ IF kind = "protocol-binding" THEN CreateProtocolBinding(id)
                                    ELSE CreateVerificationMechanism(id)
    /\ LET d == Descriptor(kind, id, version, s)
       IN  /\ described' = [described EXCEPT ![kind] = With(@, id, d)]
           /\ lines' = [lines EXCEPT ![kind] = With(@, id, Shown(d))]
    /\ UNCHANGED published

(* A restart: services keep their bodies, descriptors are read back from    *)
(* their lines, all of which are readable (DescriptorsReadBack).            *)
Restart ==
    /\ described' = [kind \in Kind |-> [id \in DOMAIN lines[kind] |->
                         ReadBack(kind, lines[kind][id])]]
    /\ UNCHANGED <<mem, log, published, lines>>

PublishServices ==
    \E id \in ServiceId, number \in Version, w \in Window, s \in Submission :
        PublishService(id, number, w, s)

PublishVersions ==
    \E id \in ServiceId, target \in Version, number \in Version, w \in Window,
       s \in Submission : PublishVersion(id, target, number, w, s)

PublishDescriptors ==
    \E kind \in Kind, id \in DescriptorId, version \in Title, s \in Submission :
        PublishDescriptor(kind, id, version, s)

DiscoveryNext == PublishServices \/ PublishVersions \/ PublishDescriptors \/ Restart

DiscoverySpec == DiscoveryInit /\ [][DiscoveryNext]_dvars

-----------------------------------------------------------------------------
(* Every version of a service has a body its operator signed, which still    *)
(* verifies, and its status is the one signed there until it is superseded.  *)
ServicesStaySigned ==
    /\ DOMAIN published = DOMAIN mem.services
    /\ \A id \in DOMAIN mem.services :
           /\ DOMAIN published[id] = DOMAIN mem.services[id]
           /\ \A n \in DOMAIN mem.services[id] :
                  /\ ServiceVerifies(published[id][n])
                  /\ mem.services[id][n].status =
                         IF mem.services[id][n].next = None
                         THEN PublishedStatus(published[id][n].body) ELSE "superseded"

(* A restart loses no descriptor and changes nothing of what is shown of it,  *)
(* although it changes the body that is kept.                              *)
DescriptorsReadBack ==
    \A kind \in Kind : \A id \in DOMAIN described[kind] :
        /\ IsReadable(kind, lines[kind][id])
        /\ Shown(described[kind][id]) = lines[kind][id]

(* A descriptor whose signed body states itself what the registry shows of    *)
(* it verifies, before and after restarts.  (Without that it does not: the  *)
(* typed fields are laid over the body, and `verify' hashes the result.)    *)
StatesItself(d) ==
    LET payload == d.signature.fields["value"].payload
    IN  \A key \in DOMAIN d.stated :
            Has(payload, key) /\ payload.fields[key] = d.stated[key]

CompleteDescriptorsVerify ==
    \A kind \in Kind : \A id \in DOMAIN described[kind] :
        StatesItself(described[kind][id]) => DescriptorVerifies(described[kind][id])
=============================================================================
