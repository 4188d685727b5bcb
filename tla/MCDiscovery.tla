----------------------------- MODULE MCDiscovery ----------------------------
(***************************************************************************)
(* One service and one descriptor identifier, three keys of which the       *)
(* keyring knows two, and submissions that differ in what the checks and the *)
(* two ways of keeping a body tell apart.                                  *)
(***************************************************************************)
EXTENDS Discovery, TLC

MCOperatorId == "k1" :> "op-1" @@ "k2" :> "op-2" @@ "k3" :> "op-3"
MCKeyId      == "k1" :> "k-1" @@ "k2" :> "k-2" @@ "k3" :> "k-3"

MCWindow == [from : {0}, until : {None}]

Operator(id, k) == Object([id |-> Text(id), public_key |-> PublicKey(k)])

(* A body, and the body with its signature inside, as sign_body leaves it.  *)
Signature(k, payload, named) ==
    Object([key_id |-> Text(named), algorithm |-> Text("ed25519"),
            value |-> SignedBy(k, payload)])

Plain(body, k) == [body |-> body, signature |-> Signature(k, body, MCKeyId[k])]

Embedded(body, k) ==
    LET signature == Signature(k, body, MCKeyId[k])
    IN  [body |-> Object(body.fields @@ "signature" :> signature), signature |-> signature]

ServiceBody(k, more) ==
    Object([class     |-> Text("registry"),
            operator  |-> Operator(MCOperatorId[k], k),
            endpoints |-> List(<<Object([uri |-> Text("u")])>>)] @@ more)

ProtocolBody(k, more) ==
    Object([operator    |-> Operator(MCOperatorId[k], k),
            grammar_ref |-> Text("g"),
            media_types |-> List(<<Text("m")>>)] @@ more)

MechanismBody(k, more) ==
    Object([operator       |-> Operator(MCOperatorId[k], k),
            suite          |-> Text("s"),
            agility_status |-> Text("active")] @@ more)

None1 == [key \in {} |-> Null]
Status(v) == [status |-> v]

ServiceSubmission ==
    {Plain(ServiceBody("k1", None1), "k1"),
     Plain(ServiceBody("k2", Status(Text("suspended"))), "k2"),
     Embedded(ServiceBody("k1", Status(Null)), "k1"),
     Embedded(ServiceBody("k1", [identifier |-> Text("s1")] @@ Status(Text("succeeded"))), "k1"),
     Plain(ServiceBody("k1", [identifier |-> Text("s2")]), "k1"),
     Plain(ServiceBody("k1", Status(Text("paused"))), "k1"),
     Plain(ServiceBody("k3", None1), "k3"),
     Plain(ServiceBody("k1", None1), "k2"),
     [body      |-> ServiceBody("k1", Status(Text("suspended"))),
      signature |-> Signature("k1", ServiceBody("k1", Status(Text("active"))), "k-1")],
     [body      |-> ServiceBody("k1", None1),
      signature |-> Signature("k1", ServiceBody("k1", None1), "k-2")]}

Names == [identifier |-> Text("d1"), version |-> Text("1")]

ProtocolSubmission ==
    {Plain(ProtocolBody("k1", Names), "k1"),
     Embedded(ProtocolBody("k1", Names @@ [conformance_suite_ref |-> Text("c")]), "k1"),
     Plain(ProtocolBody("k2", Names @@ [conformance_suite_ref |-> Null]), "k2"),
     Plain(ProtocolBody("k1", None1), "k1"),
     Plain(ProtocolBody("k1", [identifier |-> Text("d2"), version |-> Text("1")]), "k1"),
     Plain(Object([ProtocolBody("k1", Names).fields EXCEPT
                      !["media_types"] = List(<<Null, Text("m")>>)]), "k1"),
     Plain(Object([ProtocolBody("k1", Names).fields EXCEPT
                      !["media_types"] = List(<<Null>>)]), "k1"),
     Plain(Object([ProtocolBody("k1", Names).fields EXCEPT
                      !["operator"] = Operator("op-2", "k1")]), "k1")}

MechanismSubmission ==
    {Plain(MechanismBody("k1", [identifier |-> Text("d1")]), "k1"),
     Embedded(MechanismBody("k1", [identifier |-> Text("d1")] @@
                                  [trust_framework |-> Text("t"),
                                   master_list_ref |-> Null]), "k1"),
     Plain(MechanismBody("k2", [verdict_grammar_ref |-> Text("v")]), "k2"),
     Plain(MechanismBody("k1", [suite |-> Text("")]), "k1")}

MCSubmission == ServiceSubmission \cup ProtocolSubmission \cup MechanismSubmission
=============================================================================
