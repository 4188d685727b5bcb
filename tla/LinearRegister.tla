--------------------------- MODULE LinearRegister ---------------------------
(***************************************************************************)
(* What a register promises its readers, whatever it stores: an entry is a  *)
(* history of distinct version numbers, the last of which is current.  A    *)
(* step starts one history or extends one by a number at its end.  Nothing  *)
(* is ever dropped, renamed or inserted in the middle.                      *)
(***************************************************************************)
EXTENDS Naturals, Sequences

CONSTANTS Key, Number

VARIABLE history

Init == history = << >>

Start(key, number) ==
    /\ key \notin DOMAIN history
    /\ history' = [k \in DOMAIN history \cup {key} |->
                       IF k = key THEN <<number>> ELSE history[k]]

Extend(key, number) ==
    /\ key \in DOMAIN history
    /\ \A i \in DOMAIN history[key] : history[key][i] # number
    /\ history' = [history EXCEPT ![key] = Append(@, number)]

Next == \E key \in Key, number \in Number : Start(key, number) \/ Extend(key, number)

Spec == Init /\ [][Next]_history
=============================================================================
