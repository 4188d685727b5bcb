--------------------------- MODULE VersionHistory ---------------------------
(***************************************************************************)
(* The version bookkeeping shared by registry items (model.rs, Item) and   *)
(* C3 service descriptors (discovery.rs, ServiceDescriptor), as pure        *)
(* operators on a version history: a function from the registered version  *)
(* numbers to records                                                      *)
(*                                                                         *)
(*     [status, from, until, next]                                         *)
(*                                                                         *)
(* `from' and `until' are effective_from and effective_until (None: open),  *)
(* `next' is superseded_by_version (None: no successor).  Version numbers   *)
(* are strings in the code and are only compared for equality and sorted:  *)
(* here a number is its position in the lexicographic order of the strings *)
(* ("10" is below "9").  The vector keeps its insertion order in the code,  *)
(* but every read sorts it by (effective_from, version), a total order      *)
(* because numbers are unique, so a function loses nothing.                 *)
(***************************************************************************)
EXTENDS Integers, Sequences, FiniteSets

CONSTANT None            \* the absent option: no end, no successor, no pin

(* The option that is absent is no number, and a broken chain is no chain.  *)
ASSUME NoneAssumption == None \notin Nat
ASSUME NoChainAssumption == None \notin Seq(Nat)

Serving(vs, status) == {v \in DOMAIN vs : vs[v].status = status}

(* The sort key of ordered_versions. *)
Precedes(vs, v, w) == \/ vs[v].from < vs[w].from
                      \/ vs[v].from = vs[w].from /\ v < w

(* The last of the numbers S in ordered_versions. *)
LastOf(vs, S) ==
    IF S = {} THEN None
    ELSE CHOOSE v \in S : \A w \in S \ {v} : Precedes(vs, w, v)

(* current_version: the latest version with the serving status.  The       *)
(* code's or_else branch calls find again on the same iterator, which the  *)
(* first find has run to its end: it never yields a version.               *)
CurrentVersion(vs, status) == LastOf(vs, Serving(vs, status))

(* window_until: the explicit end, else the successor's start, else open. *)
WindowUntil(vs, v) ==
    IF vs[v].until # None THEN vs[v].until
    ELSE IF vs[v].next \in DOMAIN vs THEN vs[vs[v].next].from
    ELSE None

Covers(from, until, t) == from <= t /\ (until = None \/ t < until)

(* Item::in_force_at: the window end is the resolved one. *)
ItemInForceAt(vs, t) ==
    LastOf(vs, {v \in DOMAIN vs : Covers(vs[v].from, WindowUntil(vs, v), t)})

(* ServiceDescriptor::in_force_at: only the explicit end counts. *)
ServiceInForceAt(vs, t) ==
    LastOf(vs, {v \in DOMAIN vs : Covers(vs[v].from, vs[v].until, t)})

(* supersession_chain: follow the links from v; a link to an unregistered  *)
(* version and a cycle are errors, reported here as None.                  *)
SupersessionChain(vs, v) ==
    LET follow[n \in 0 .. Cardinality(DOMAIN vs)] ==
            IF n = 0 THEN <<v>>
            ELSE LET chain == follow[n - 1]
                     next  == IF chain = None THEN None ELSE vs[chain[Len(chain)]].next
                 IN  IF next = None THEN chain
                     ELSE IF \/ next \notin DOMAIN vs
                             \/ \E i \in 1 .. Len(chain) : chain[i] = next
                     THEN None
                     ELSE Append(chain, next)
    IN  follow[Cardinality(DOMAIN vs)]

(* The effect of a recorded supersession: the old version, when it is      *)
(* there, becomes superseded and is linked; the successor is pushed.       *)
LinkedAsRetired(entry, number) == [status |-> "retired", from |-> entry.from,   \* mutant
                                   until |-> entry.until, next |-> number]

Unlinked(entry, number) == [status |-> "superseded", from |-> entry.from,       \* mutant
                            until |-> entry.until, next |-> None]

Linked(entry, number) == [status |-> "superseded", from |-> entry.from,
                          until |-> entry.until, next |-> number]

Superseded(vs, target, number, successor) ==
    [v \in DOMAIN vs \cup {number} |->
        IF v = number THEN successor
        ELSE IF v = target THEN Linked(vs[v], number)
        ELSE vs[v]]
=============================================================================
