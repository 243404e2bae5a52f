----------------------------- MODULE AbstractVM -----------------------------
(* What VirtualMemory promises: address spaces, each a map from virtual pages  *)
(* to page-table entries, and the result of the last call.                     *)
EXTENDS TLC

CONSTANTS Spaces, VirtualPages, Ptes

VARIABLES map, ret

Init == (\E s \in Spaces : map = (s :> <<>>)) /\ ret = <<"none">>

\* A call that fails changes no mapping.
MapPage(s, v, ok) ==
  /\ ret' = <<"map", s, v, ok>>
  /\ IF ok THEN \E x \in Ptes : map' = [map EXCEPT ![s] = (v :> x) @@ @] ELSE map' = map

UnmapPage(s, v, mapped) ==
  /\ ret' = <<"unmap", s, v, mapped>>
  /\ mapped = (v \in DOMAIN map[s])
  /\ map' = [map EXCEPT ![s] = [u \in DOMAIN @ \ {v} |-> @[u]]]

Clone(s) ==
  /\ ret' = <<"clone", s, TRUE>>
  /\ \E n \in Spaces \ DOMAIN map, m \in {map[s], <<>>} : map' = map @@ (n :> m)

CloneFails(s) == ret' = <<"clone", s, FALSE>> /\ map' = map

Destroy(s) ==
  /\ ret' = <<"destroy", s>>
  /\ map' = [t \in DOMAIN map \ {s} |-> map[t]]

Next ==
  \E s \in Spaces :
    /\ s \in DOMAIN map
    /\ \/ \E v \in VirtualPages, b \in BOOLEAN : MapPage(s, v, b) \/ UnmapPage(s, v, b)
       \/ Clone(s) \/ CloneFails(s) \/ Destroy(s)

vars == <<map, ret>>
Spec == Init /\ [][Next]_vars
=============================================================================
