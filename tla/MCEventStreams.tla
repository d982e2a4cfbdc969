--------------------------- MODULE MCEventStreams ---------------------------
(* Two pods: keys that are closed while their streams are admitted, changes  *)
(* of permission from both pods, and one slow client of a busy event.        *)
EXTENDS EventStreams

CONSTANTS p1, p2, c1, c2, k1, k2, grant, revoke, e1, e2

PodOf   == [c \in Conns |-> IF c = c1 THEN p2 ELSE p1]
KeyOf   == [c \in Conns |-> k1]
ReachOf == [x \in Changes |-> IF x = grant THEN Conns ELSE {c1}]
CallAt  == [m \in Messages |-> IF m \in {revoke, e2} THEN p2 ELSE p1]
Cases   == {[some |-> {k1, k2}, faults |-> 3],
            [some |-> {c1, k1}, faults |-> 2],
            [some |-> {c1, grant, revoke}, faults |-> 1],
            [some |-> {c2, grant, revoke}, faults |-> 1],
            [some |-> {c1, revoke, e1, e2}, faults |-> 1]}
=============================================================================
