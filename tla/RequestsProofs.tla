--------------------------- MODULE RequestsProofs ---------------------------
(***************************************************************************)
(* Racing supersession requests (ServiceRequests.tla): they implement the   *)
(* store, so what is proved of its services holds under races, and a        *)
(* request that was accepted keeps its place for ever.                      *)
(***************************************************************************)
EXTENDS ServiceRequests, RegistryStoreProofs

(* The inductive invariant: a request past its first lock asks about a       *)
(* service that is there, and what an accepted one did still stands.        *)
RequestsSeen ==
    \A r \in Request : pc[r] \notin {"idle", "refused"} => Exists(r)

PlaceKept(vs, v, number) == /\ v \in DOMAIN vs /\ number \in DOMAIN vs
                            /\ vs[v].next = number

PlacesKept ==
    \A r \in Request : pc[r] = "accepted" =>
        PlaceKept(mem.services[ask[r].service], target[r], ask[r].number)

RequestsInv == /\ RequestsTypeOK
               /\ ServicesOrdered(mem)
               /\ RequestsSeen
               /\ PlacesKept

-----------------------------------------------------------------------------
(* A step of the handlers is one of the store, or none.                     *)

LEMMA AcceptSupersedes ==
    ASSUME RequestsTypeOK, NEW r \in Request, Accept(r)
    PROVE  SupersedeServices
<1> DEFINE a == ask[r]
<1>1. /\ a.service \in ServiceId /\ a.number \in Version
      /\ a.window \in Window /\ a.status \in ServiceStatus
  BY AskAssumption DEF RequestsTypeOK
<1>2. SupersedeService(a.service, target[r], a.number, a.window, a.status)
  BY DEF Accept
<1>3. target[r] \in Version
  BY <1>2 DEF SupersedeService, CanSupersedeService, RequestsTypeOK, TypeOK, IsStore, IsHistory
<1> QED
  BY <1>1, <1>2, <1>3 DEF SupersedeServices

LEMMA StepImplements == RequestsTypeOK /\ [RequestsNext]_rvars => [Next]_vars
<1> SUFFICES ASSUME RequestsTypeOK, [RequestsNext]_rvars
             PROVE  [Next]_vars
  OBVIOUS
<1>1. CASE Create
  BY <1>1 DEF Create, Next
<1>2. ASSUME NEW r \in Request, Accept(r)
      PROVE  [Next]_vars
  BY <1>2, AcceptSupersedes DEF Next
<1>3. ASSUME NEW r \in Request,
             Find(r) \/ Verify(r) \/ ChooseTarget(r) \/ Recheck(r) \/ Refuse(r)
      PROVE  [Next]_vars
  BY <1>3 DEF Find, Verify, ChooseTarget, Recheck, Refuse, vars
<1>4. CASE UNCHANGED rvars
  BY <1>4 DEF rvars, vars
<1> QED
  BY <1>1, <1>2, <1>3, <1>4 DEF RequestsNext, Step

-----------------------------------------------------------------------------
(* Types.                                                                  *)

(* The version the handler looks up is one, for no two are active.          *)
LEMMA CurrentVersionType ==
    ASSUME NEW vs, IsHistory(vs, ServiceStatus), OneActive(vs)
    PROVE  CurrentVersion(vs, "active") \in Version \cup {None}
<1> DEFINE S == Serving(vs, "active")
<1>1. CASE S = {}
  BY <1>1 DEF CurrentVersion, LastOf
<1>2. CASE S # {}
  <2>1. PICK v \in S : S = {v}
    BY <1>2 DEF OneActive
  <2>2. CurrentVersion(vs, "active") = v
    BY <2>1 DEF CurrentVersion, LastOf
  <2> QED
    BY <2>2 DEF Serving, IsHistory
<1> QED
  BY <1>1, <1>2

LEMMA ChosenType ==
    ASSUME RequestsInv, NEW r \in Request, ChooseTarget(r)
    PROVE  target' \in [Request -> Version \cup {None}]
<1> DEFINE a == ask[r]
           current == CurrentVersion(mem.services[a.service], "active")
<1>1. a.target \in Version \cup {None}
  BY AskAssumption DEF RequestsInv, RequestsTypeOK
<1>2. a.service \in DOMAIN mem.services
  BY DEF ChooseTarget, Goto, RequestsInv, RequestsSeen, Exists
<1>3. current \in Version \cup {None}
  BY <1>2, CurrentVersionType
     DEF RequestsInv, RequestsTypeOK, TypeOK, IsStore, ServicesOrdered, ServiceHistory
<1> QED
  BY <1>1, <1>3 DEF ChooseTarget, RequestsInv, RequestsTypeOK

LEMMA TypesKept ==
    ASSUME RequestsInv, [RequestsNext]_rvars
    PROVE  RequestsTypeOK'
<1>1. TypeOK'
  BY StepImplements, TypeInductive DEF RequestsInv, RequestsTypeOK
<1>2. CASE Create \/ UNCHANGED rvars
  BY <1>1, <1>2 DEF Create, rvars, RequestsInv, RequestsTypeOK
<1>3. ASSUME NEW r \in Request, ChooseTarget(r)
      PROVE  RequestsTypeOK'
  BY <1>1, <1>3, ChosenType
     DEF ChooseTarget, Goto, RequestsInv, RequestsTypeOK, Answers
<1>4. ASSUME NEW r \in Request, Find(r) \/ Verify(r) \/ Recheck(r) \/ Accept(r) \/ Refuse(r)
      PROVE  RequestsTypeOK'
  BY <1>1, <1>4 DEF Find, Verify, Recheck, Accept, Refuse, Goto, RequestsInv,
                    RequestsTypeOK, Answers
<1> QED
  BY <1>2, <1>3, <1>4 DEF RequestsNext, Step

-----------------------------------------------------------------------------
(* What the others do to a request between its steps.                       *)

(* Services stay, and so does a link, whoever takes the step.               *)
LEMMA StoreKeeps ==
    ASSUME RequestsInv, [RequestsNext]_rvars
    PROVE  /\ ServicesOrdered(mem')
           /\ DOMAIN mem.services \subseteq DOMAIN mem'.services
           /\ \A id \in DOMAIN mem.services, v, number \in Version :
                  PlaceKept(mem.services[id], v, number)
                  => PlaceKept(mem'.services[id], v, number)
<1>1. [Next]_vars /\ TypeOK /\ ServicesOrdered(mem)
  BY StepImplements DEF RequestsInv, RequestsTypeOK
<1>2. ServicesOrdered(mem') /\ ServicesKept
  BY <1>1, OrderedInductive, StepKeepsServices
<1>3. ASSUME NEW id \in DOMAIN mem.services, NEW v \in Version, NEW number \in Version,
             PlaceKept(mem.services[id], v, number)
      PROVE  PlaceKept(mem'.services[id], v, number)
  <2>1. number # None
    BY VersionAssumption, NoneAssumption
  <2>2. KeepsHistory(mem.services[id], mem'.services[id])
    BY <1>2 DEF ServicesKept
  <2> QED
    BY <1>3, <2>1, <2>2 DEF PlaceKept, KeepsHistory
<1> QED
  BY <1>2, <1>3 DEF ServicesKept

(* The accepted request itself: its version is linked and there.            *)
LEMMA AcceptTakesPlace ==
    ASSUME RequestsInv, NEW r \in Request, Accept(r)
    PROVE  PlaceKept(mem'.services[ask[r].service], target[r], ask[r].number)
<1> DEFINE id == ask[r].service
           number == ask[r].number
           e == Entry(ask[r].status, ask[r].window)
           vs == mem.services[id]
<1>1. /\ CanSupersedeService(mem, id, target[r], number, e)
      /\ mem' = Apply(mem, SupersedeServiceOp(id, target[r], number, e))
  BY DEF Accept, SupersedeService, Record
<1>2. /\ id \in DOMAIN mem.services
      /\ target[r] \in DOMAIN vs /\ number \notin DOMAIN vs
  BY <1>1 DEF CanSupersedeService
<1> HIDE DEF e
<1>3. mem'.services = [mem.services EXCEPT ![id] = Superseded(vs, target[r], number, e)]
  BY <1>1, <1>2, SupersedeServiceEffect DEF RequestsInv, RequestsTypeOK, TypeOK
<1>4. mem'.services[id] = Superseded(vs, target[r], number, e)
  BY <1>2, <1>3
<1> DEFINE new == Superseded(vs, target[r], number, e)
<1>5. DOMAIN new = DOMAIN vs \cup {number}
  BY DEF Superseded
<1>6. new[target[r]] = Linked(vs[target[r]], number)
  BY <1>2 DEF Superseded
<1> HIDE DEF new
<1>7. PlaceKept(new, target[r], number)
  BY <1>2, <1>5, <1>6 DEF PlaceKept, Linked
<1> QED
  BY <1>4, <1>7 DEF new

(* A request starts only on a service that is there.                        *)
StartsFound(q) == pc'[q] \notin {"idle", "refused"} =>
                      /\ pc[q] # "refused"
                      /\ pc[q] = "idle" => Exists(q)

(* A step of one handler, seen from another request.                        *)
LEMMA OthersUntouched ==
    ASSUME RequestsInv, [RequestsNext]_rvars, NEW q \in Request
    PROVE  /\ ask' = ask
           /\ StartsFound(q)
           /\ pc'[q] = "accepted" =>
                  \/ pc[q] = "accepted" /\ target'[q] = target[q]
                  \/ Accept(q) /\ target'[q] = target[q]
<1>1. CASE Create \/ UNCHANGED rvars
  BY <1>1 DEF Create, rvars, StartsFound
<1>2. ASSUME NEW r \in Request, Find(r) \/ Recheck(r) \/ Verify(r) \/ Refuse(r)
      PROVE  /\ ask' = ask /\ target' = target
             /\ StartsFound(q)
             /\ pc'[q] = "accepted" => pc[q] = "accepted"
  BY <1>2 DEF Find, Recheck, Verify, Refuse, Goto, RequestsInv, RequestsTypeOK, StartsFound
<1>3. ASSUME NEW r \in Request, ChooseTarget(r)
      PROVE  /\ ask' = ask
             /\ StartsFound(q)
             /\ pc'[q] = "accepted" => pc[q] = "accepted" /\ target'[q] = target[q]
  BY <1>3 DEF ChooseTarget, Goto, RequestsInv, RequestsTypeOK, StartsFound
<1>4. ASSUME NEW r \in Request, Accept(r)
      PROVE  /\ ask' = ask /\ target' = target
             /\ StartsFound(q)
             /\ pc'[q] = "accepted" => pc[q] = "accepted" \/ Accept(q)
  <2>1. CASE q = r
    BY <1>4, <2>1 DEF Accept, Goto, RequestsInv, RequestsTypeOK, StartsFound
  <2>2. CASE q # r
    BY <1>4, <2>2 DEF Accept, Goto, RequestsInv, RequestsTypeOK, StartsFound
  <2> QED
    BY <2>1, <2>2
<1> QED
  BY <1>1, <1>2, <1>3, <1>4 DEF RequestsNext, Step

LEMMA RequestsInductive == RequestsInv /\ [RequestsNext]_rvars => RequestsInv'
<1> SUFFICES ASSUME RequestsInv, [RequestsNext]_rvars
             PROVE  RequestsInv'
  OBVIOUS
<1>1. RequestsTypeOK' /\ ServicesOrdered(mem)'
  BY TypesKept, StoreKeeps
<1>2. ASSUME NEW q \in Request, pc'[q] \notin {"idle", "refused"}
      PROVE  ask[q].service \in DOMAIN mem.services /\ Exists(q)'
  <2>1. Exists(q)
    BY <1>2, OthersUntouched DEF RequestsInv, RequestsSeen, StartsFound
  <2> QED
    BY <2>1, StoreKeeps, OthersUntouched DEF Exists
<1>3. ASSUME NEW q \in Request, pc'[q] = "accepted"
      PROVE  PlaceKept(mem'.services[ask'[q].service], target'[q], ask'[q].number)
  <2>1. ask' = ask /\ target'[q] = target[q]
    BY <1>3, OthersUntouched
  <2>2. CASE Accept(q)
    BY <2>1, <2>2, AcceptTakesPlace
  <2>3. CASE pc[q] = "accepted"
    <3>1. PlaceKept(mem.services[ask[q].service], target[q], ask[q].number)
      BY <2>3 DEF RequestsInv, PlacesKept
    <3>2. ask[q].service \in DOMAIN mem.services
      BY <1>2, <1>3
    <3>3. target[q] \in Version /\ ask[q].number \in Version
      BY <3>1, <3>2 DEF PlaceKept, RequestsInv, RequestsTypeOK, TypeOK, IsStore, IsHistory
    <3> QED
      BY <2>1, <3>1, <3>2, <3>3, StoreKeeps
  <2> QED
    BY <1>3, <2>2, <2>3, OthersUntouched
<1> QED
  BY <1>1, <1>2, <1>3 DEF RequestsInv, RequestsSeen, PlacesKept

LEMMA RequestsInvariant == RequestsSpec => []RequestsInv
<1>1. RequestsInit => RequestsInv
  BY InitType DEF RequestsInit, Init, EmptyStore, RequestsInv, RequestsTypeOK,
                  ServicesOrdered, RequestsSeen, PlacesKept, Answers
<1> QED
  BY <1>1, RequestsInductive, PTL DEF RequestsSpec

-----------------------------------------------------------------------------
(* The handlers take the store's mutex four times, and every behaviour of    *)
(* theirs is still one of the store with one step for each operation.       *)
THEOREM RequestsImplementStore == RequestsSpec => Spec
<1>1. RequestsInit => Init
  BY DEF RequestsInit
<1>2. RequestsInv /\ [RequestsNext]_rvars => [Next]_vars
  BY StepImplements DEF RequestsInv
<1> QED
  BY <1>1, <1>2, RequestsInvariant, PTL DEF RequestsSpec, Spec

(* The type invariant: in particular, the target a handler looks up under a  *)
(* lock of its own is a version or none.                                   *)
THEOREM RequestsTyped == RequestsSpec => []RequestsTypeOK
<1>1. RequestsInv => RequestsTypeOK
  BY DEF RequestsInv
<1> QED
  BY <1>1, RequestsInvariant, PTL

(* Whatever number of requests race, with targets read before the records of *)
(* others (supersede_service), a service's history stays one chain.         *)
THEOREM ForwardUnderRaces == RequestsSpec => []ServicesForwardUnderRaces
<1>1. RequestsInv => ServicesForwardUnderRaces
  BY OrderedIsForward DEF RequestsInv, ServicesForwardUnderRaces
<1> QED
  BY <1>1, RequestsInvariant, PTL

(* The answer a client got stays true: the version it published is, for      *)
(* ever, the successor of the target its handler read.                      *)
THEOREM AcceptedKeepPlace == RequestsSpec => []AcceptedKeepTheirPlace
<1>1. RequestsInv => AcceptedKeepTheirPlace
  BY DEF RequestsInv, PlacesKept, PlaceKept, AcceptedKeepTheirPlace
<1> QED
  BY <1>1, RequestsInvariant, PTL
=============================================================================
