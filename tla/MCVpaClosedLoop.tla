--------------------------- MODULE MCVpaClosedLoop ---------------------------
(* Two replicas of a template with container "c".  While the VPA still    *)
(* has an aggregate for a removed "sidecar", r1 lists two entries, in     *)
(* either order; r2 is computed after that aggregate was collected.  The  *)
(* template's request 1 is outside the policy [2, 3] of "c".  r1 gives     *)
(* "c" [2, 2, 3]; r2 computes target 4, capped to [3, 3, 3].  r1's target *)
(* 2 is outside r2's range, so a pod patched from a stale lister is        *)
(* evicted again; r2's target 3 is inside r1's range but 1/3 away from     *)
(* r1's target, past MinChangePriority 1/4, so only long-lived pods are    *)
(* evicted for it.                                                         *)
EXTENDS VpaClosedLoop

MCSidecar == [lowerBound |-> 1, target |-> 1, upperBound |-> 1]
MCComputed == {[c |-> [lowerBound |-> 2, target |-> 2, upperBound |-> 3], sidecar |-> MCSidecar],
               [c |-> [lowerBound |-> 3, target |-> 4, upperBound |-> 4]]}
MCPolicy == [c |-> [mode |-> "Auto", minAllowed |-> 2, maxAllowed |-> 3],
             sidecar |-> [mode |-> "Auto", minAllowed |-> 1, maxAllowed |-> 4]]
MCEvictionTolerance == [num |-> 1, den |-> 2]
MCMinChangePriority == [num |-> 1, den |-> 4]
=============================================================================
