---------------------------- MODULE MCTopology ----------------------------
(* Instances of ClusterTopology: two shards; with a replica there are three pods. *)
EXTENDS ClusterTopology

CONSTANTS p1, p2, p3, s1, s2

ThreePods == {p1, p2, p3}
TwoPods   == {p1, p2}
TwoSlots  == {s1, s2}
TwoHomes  == [s \in TwoSlots |-> IF s = s1 THEN p1 ELSE p2]

OneHome   == [s \in TwoSlots |-> p1]

AnyStart  == {"fresh", "retained", "stale"}
AllFaults == {"crash", "disk", "evict", "deaf", "api", "lag"}
===========================================================================
