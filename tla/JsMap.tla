------------------------------- MODULE JsMap -------------------------------
(***************************************************************************)
(* A JavaScript Map: a function from its keys to their values and the      *)
(* order in which the keys were inserted, which `values().next()` follows. *)
(* The order is kept as a relation, so that deleting a key or overwriting  *)
(* a value never renumbers the others.                                     *)
(***************************************************************************)

EmptyMap == [val |-> [k \in {} |-> k], before |-> {}]

Keys(m) == DOMAIN m.val

\* Map.prototype.set keeps the place of a key that is already there.
MapSet(m, k, v) ==
    [val    |-> [x \in Keys(m) \cup {k} |-> IF x = k THEN v ELSE m.val[x]],
     before |-> IF k \in Keys(m) THEN m.before
                ELSE m.before \cup (Keys(m) \X {k})]

\* Map.prototype.delete; deleting an absent key changes nothing.
MapDelete(m, k) ==
    [val    |-> [x \in Keys(m) \ {k} |-> m.val[x]],
     before |-> {p \in m.before : k \notin {p[1], p[2]}}]

\* k is the key of map.values().next().
IsFirst(m, k) ==
    /\ k \in Keys(m)
    /\ \A x \in Keys(m) \ {k} : <<k, x>> \in m.before

IsMap(m, K, V) ==
    /\ m = [val |-> m.val, before |-> m.before]
    /\ Keys(m) \subseteq K
    /\ m.val \in [Keys(m) -> V]
    /\ m.before \subseteq K \X K
=============================================================================
