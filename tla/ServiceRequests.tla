-------------------------- MODULE ServiceRequests ---------------------------
(***************************************************************************)
(* Concurrent POST /services/{id}/versions requests (api.rs,                *)
(* supersede_service).  The item handler holds the store's mutex from the   *)
(* read of its target to the record; this handler takes the mutex four      *)
(* times, and between two of them other requests run:                      *)
(*                                                                         *)
(*   idle -> found -> verified -> targeted -> rechecked -> accepted         *)
(*                                                                         *)
(* with an early return (refused) at every step.  The signature check under *)
(* the keyring's mutex may refuse any request.                             *)
(***************************************************************************)
EXTENDS RegistryStore

CONSTANTS Request,   \* the requests in flight
          Ask        \* what a request may ask for

ASSUME AskAssumption ==
    \A a \in Ask : /\ a.service \in ServiceId
                   /\ a.number \in Version
                   /\ a.target \in Version \cup {None}   \* None: the current one
                   /\ a.window \in Window
                   /\ a.status \in ServiceStatus

VARIABLES pc, ask, target

rvars == <<mem, log, pc, ask, target>>

Answers == {"accepted", "refused"}

RequestsInit == /\ Init
                /\ pc = [r \in Request |-> "idle"]
                /\ ask \in [Request -> Ask]
                /\ target = [r \in Request |-> None]

Goto(r, from, to) == pc[r] = from /\ pc' = [pc EXCEPT ![r] = to]

Exists(r) == ask[r].service \in DOMAIN mem.services

(* The first lock: an unknown service is a 404 whatever the body says.      *)
Find(r) == /\ Goto(r, "idle", IF Exists(r) THEN "found" ELSE "refused")
           /\ UNCHANGED <<mem, log, ask, target>>

(* Body, window and signature, with no access to the store.                 *)
Verify(r) == /\ Goto(r, "found", "verified") \/ Goto(r, "found", "refused")
             /\ UNCHANGED <<mem, log, ask, target>>

(* A mutant that looks again when there is no current version.              *)
ChooseOrRetry(r) ==
    LET chosen == IF ask[r].target # None THEN ask[r].target
                  ELSE CurrentVersion(mem.services[ask[r].service], "active")
    IN  /\ Goto(r, "verified", IF chosen = None THEN "verified" ELSE "targeted")
        /\ target' = [target EXCEPT ![r] = chosen]
        /\ UNCHANGED <<mem, log, ask>>

(* The target: the one asked for, else the current version, read under a    *)
(* lock of its own.                                                        *)
ChooseTarget(r) ==
    LET chosen == IF ask[r].target # None THEN ask[r].target
                  ELSE CurrentVersion(mem.services[ask[r].service], "active")
    IN  /\ Goto(r, "verified", IF chosen = None THEN "refused" ELSE "targeted")
        /\ target' = [target EXCEPT ![r] = chosen]
        /\ UNCHANGED <<mem, log, ask>>

Recheck(r) == /\ Goto(r, "targeted", IF Exists(r) THEN "rechecked" ELSE "refused")
              /\ UNCHANGED <<mem, log, ask, target>>

(* The last lock: the store checks the target it is given and records.      *)
Accept(r) == /\ Goto(r, "rechecked", "accepted")
             /\ SupersedeService(ask[r].service, target[r], ask[r].number,
                                 ask[r].window, ask[r].status)
             /\ UNCHANGED <<ask, target>>

Refuse(r) == /\ Goto(r, "rechecked", "refused")
             /\ ~CanSupersedeService(mem, ask[r].service, target[r], ask[r].number,
                                     Entry(ask[r].status, ask[r].window))
             /\ UNCHANGED <<mem, log, ask, target>>

(* POST /services: one lock, served between the steps of the others.        *)
Create == CreateServices /\ UNCHANGED <<pc, ask, target>>

Step(r) == Find(r) \/ Verify(r) \/ ChooseTarget(r) \/ Recheck(r) \/ Accept(r) \/ Refuse(r)

RequestsNext == Create \/ \E r \in Request : Step(r)

(* A handler that has started is polled until it returns; no lock is held   *)
(* across a step, so nothing can keep a request from its next lock.         *)
RequestsSpec == /\ RequestsInit
                /\ [][RequestsNext]_rvars
                /\ \A r \in Request : WF_rvars(Step(r))

-----------------------------------------------------------------------------
(* The type invariant. *)
RequestsTypeOK ==
    /\ TypeOK
    /\ pc \in [Request -> {"idle", "found", "verified", "targeted", "rechecked"} \cup Answers]
    /\ ask \in [Request -> Ask]
    /\ target \in [Request -> Version \cup {None}]

(* Racing requests, some with a target read before another one's record,    *)
(* leave a history that is still one chain.                                *)
ServicesForwardUnderRaces == ServiceHistoriesForward(mem)

(* An accepted request keeps what it was told: its version is the successor *)
(* of the target it read, and no later request has taken that place.        *)
AcceptedKeepTheirPlace ==
    \A r \in Request : pc[r] = "accepted" =>
        LET vs == mem.services[ask[r].service]
        IN  /\ ask[r].number \in DOMAIN vs
            /\ vs[target[r]].next = ask[r].number

(* Every request is answered, whatever the others do to its target.         *)
EveryRequestAnswered == \A r \in Request : <>(pc[r] \in Answers)
=============================================================================
