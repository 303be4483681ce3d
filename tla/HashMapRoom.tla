----------------------------- MODULE HashMapRoom -----------------------------
(***************************************************************************)
(* Maps in which every key has room: the windows its probe looks at have   *)
(* more slots than the map has keys when one is placed.  The windows of a  *)
(* probe begin at every multiple of Width from its first one, and the one  *)
(* that meets the end of the map is cut there: they have all but Width - 1 *)
(* slots at least.  The map of an aggregation has this room from degree 8  *)
(* on (a tenth of the map stays free), one of a join from degree 6 on.     *)
(***************************************************************************)
EXTENDS BaseHashMap

Degrees == Degree .. MaxDegree

\* The slots a probe may look at.
Reach(k, d) == UNION {Window(k, d, j) : j \in Windows(d)}

\* The keys that may be in the map when another one is placed.
Crowd(d) == IF Growing THEN Threshold(d) ELSE MaxKeys

ASSUME DegreeAssumption == Degree <= MaxDegree

ASSUME CapacityAssumption == \A d \in Degrees : Capacity(d) \in Nat \ {0}

ASSUME RoomAssumption ==
  /\ \A d \in Degrees, k \in Keys : Cardinality(Reach(k, d)) > Crowd(d)
  /\ \A d \in Degrees : GrowSize(d) \in Degrees => Threshold(d) < Threshold(GrowSize(d))
=============================================================================
