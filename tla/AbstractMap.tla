---------------------------- MODULE AbstractMap -----------------------------
(* What an associative container promises: a finite map, and the result of the *)
(* last call.  HashMap and RbTree implement it.                                *)
EXTENDS TLC

CONSTANTS Keys, Values

VARIABLES m, ret

Put(k, v) == (k :> v) @@ m
Without(k) == [x \in DOMAIN m \ {k} |-> m[x]]

Init == m = <<>> /\ ret = <<"none">>

\* An existing entry is kept.
Insert(k, v) ==
  /\ m' = IF k \in DOMAIN m THEN m ELSE Put(k, v)
  /\ ret' = <<"insert", k, k \notin DOMAIN m>>

Assign(k, v) == m' = Put(k, v) /\ ret' = <<"assign", k>>

Erase(k) == m' = Without(k) /\ ret' = <<"erase", k, k \in DOMAIN m>>

Clear == m' = <<>> /\ ret' = <<"clear">>

\* A reorganisation changes nothing the caller can see.
Reorganise == m' = m /\ ret' = <<"reorganise">>

Next ==
  \/ \E k \in Keys : Erase(k) \/ \E v \in Values : Insert(k, v) \/ Assign(k, v)
  \/ Clear \/ Reorganise

vars == <<m, ret>>
Spec == Init /\ [][Next]_vars
=============================================================================
