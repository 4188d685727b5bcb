-------------------------- MODULE StoreProperties ---------------------------
(***************************************************************************)
(* What a store must satisfy, as predicates of a store value: the store in  *)
(* memory, the store a restart rebuilds and the store a race leaves behind  *)
(* are all judged by them.                                                 *)
(***************************************************************************)
EXTENDS StoreTransitions

(* One version of a history serves, and no version names two successors or  *)
(* is the successor of two: the serving version is the only one without a   *)
(* link, every link leads to a registered, later-starting version, and two  *)
(* versions never share a successor.                                       *)
OneServing(vs, status) == \E v \in DOMAIN vs : Serving(vs, status) = {v}

ServingIsUnlinked(vs, status) ==
    \A v \in DOMAIN vs : vs[v].status = status <=> vs[v].next = None

LinksForward(vs) ==
    \A v \in DOMAIN vs : vs[v].next # None =>
        /\ vs[v].next \in DOMAIN vs \ {v}
        /\ vs[v].from <= vs[vs[v].next].from

LinksInjective(vs) ==
    \A v, w \in DOMAIN vs :
        vs[v].next # None /\ vs[v].next = vs[w].next => v = w

LinearHistory(vs, status) == /\ OneServing(vs, status)
                             /\ ServingIsUnlinked(vs, status)
                             /\ LinksForward(vs)
                             /\ LinksInjective(vs)

(* supersession_chain succeeds from every version and ends at the current   *)
(* version: no link is broken and none closes a cycle.                     *)
ChainsEndAtCurrent(vs, status) ==
    \A v \in DOMAIN vs :
        LET chain == SupersessionChain(vs, v)
        IN  chain # None /\ chain[Len(chain)] = CurrentVersion(vs, status)

(* When no version states an explicit end, the derived windows partition    *)
(* the time since the first start: at each start instant exactly one window *)
(* is open, the read in_force_at returns that version, and from the latest  *)
(* start on it returns the current version.  (Windows change only at start  *)
(* instants, so these are all the instants there are to look at.)           *)
DerivedWindowsPartition(vs, status) ==
    (\A v \in DOMAIN vs : vs[v].until = None) =>
        \A t \in {vs[v].from : v \in DOMAIN vs} :
            /\ {v \in DOMAIN vs : Covers(vs[v].from, WindowUntil(vs, v), t)}
                   = {ItemInForceAt(vs, t)}
            /\ (\A v \in DOMAIN vs : vs[v].from <= t) =>
                   ItemInForceAt(vs, t) = CurrentVersion(vs, status)

-----------------------------------------------------------------------------
ItemHistoriesLinear(st) ==
    \A id \in DOMAIN st.items : LinearHistory(st.items[id].versions, "valid")

ItemChainsEndAtCurrent(st) ==
    \A id \in DOMAIN st.items : ChainsEndAtCurrent(st.items[id].versions, "valid")

ItemWindowsPartition(st) ==
    \A id \in DOMAIN st.items : DerivedWindowsPartition(st.items[id].versions, "valid")

(* A binding id names one binding, and the counter is past every id given.  *)
BindingIdsFresh(st) ==
    /\ \A i, j \in DOMAIN st.bindings :
           st.bindings[i].id = st.bindings[j].id => i = j
    /\ \A i \in DOMAIN st.bindings : st.bindings[i].id < st.nextBindingId

(* Seam S4: a binding refers to a registered profile, and its pin and the   *)
(* pin of a manifest to a registered version.                              *)
PinsResolve(st) ==
    /\ \A i \in DOMAIN st.bindings :
           LET b == st.bindings[i]
           IN  /\ b.profile \in DOMAIN st.items
               /\ st.items[b.profile].class = "profile"
               /\ b.pin # None => b.pin \in DOMAIN st.items[b.profile].versions
    /\ \A id \in DOMAIN st.items :
           LET m == st.items[id].manifest
           IN  m # None /\ m.pin # None => m.pin \in DOMAIN st.items[id].versions

(* A service history: at most one active version, at most one link into a   *)
(* version, and every link leads forward.  (Operators may publish a version *)
(* that is not active, so there may be no active one.)                      *)
ServiceHistoriesForward(st) ==
    \A id \in DOMAIN st.services :
        LET vs == st.services[id]
        IN  /\ LinksForward(vs)
            /\ LinksInjective(vs)
            /\ Cardinality(Serving(vs, "active")) <= 1
            /\ \A v \in Serving(vs, "active") : vs[v].next = None
=============================================================================
