------------------------- MODULE MCUpdatePriority -------------------------
(* Model-checking instance of UpdatePriority: three pods, pods of one or  *)
(* two containers, one resource, requests and bounds 1..2 milli.  A     *)
(* MinChangePriority of 1/4 is reached exactly by a 4 -> 3 change, so the  *)
(* threshold's boundary case occurs; the ages straddle the 12h lifetime.  *)
EXTENDS UpdatePriority

MCContainerSets == {{"c1"}, {"c1", "c2"}}
MCMinChangePriority == [num |-> 1, den |-> 4]
MCAges == {NoStartTime, 11, 12}

(* The pods are interchangeable model values. *)
PodSymmetry == Permutations(Pods)
====
