------------------------- MODULE CappedRecommendation -------------------------
(***************************************************************************)
(* getCappedRecommendation (recommender/routines/recommender.go) and the  *)
(* policy it applies.  A per-container recommendation of one resource is  *)
(* a record [lowerBound, target, upperBound]; GetRecommendedPodResources'  *)
(* result is a function from container names to such records (a Go map).  *)
(* The status's recommendation is a sequence of entries                    *)
(* [containerName, lowerBound, target, upperBound, uncappedTarget] in the  *)
(* order the map range yields them, which Go leaves unspecified: the      *)
(* operator returns the set of all the lists it may build.                *)
(*                                                                         *)
(* ApplyVPAPolicy is not under src/; it is modelled from spec 4.4 steps   *)
(* 1-2 (containers in mode Off are dropped, the three values are clamped  *)
(* to [minAllowed, maxAllowed], an upper bound below the lower bound is   *)
(* raised to it).  It never fails, so the fallback to the uncapped       *)
(* recommendation after a logged error is not reachable.                  *)
(***************************************************************************)
EXTENDS Naturals, SequencesExt

Clamp(x, lo, hi) == IF x < lo THEN lo ELSE IF x > hi THEN hi ELSE x

\* Step 2 of the capping pipeline for one container under its policy.
CapContainer(e, pol) ==
    LET lower == Clamp(e.lowerBound, pol.minAllowed, pol.maxAllowed)
        upper == Clamp(e.upperBound, pol.minAllowed, pol.maxAllowed)
    IN [e EXCEPT !.lowerBound = lower,
                 !.target = Clamp(e.target, pol.minAllowed, pol.maxAllowed),
                 !.upperBound = IF upper < lower THEN lower ELSE upper]

\* ApplyVPAPolicy: keeps the list's order, drops containers in mode Off.
ApplyVPAPolicy(list, policy) ==
    LET kept == SelectSeq(list, LAMBDA e : policy[e.containerName].mode # "Off")
    IN [i \in DOMAIN kept |-> CapContainer(kept[i], policy[kept[i].containerName])]

\* The entry the range loop appends for container c: UncappedTarget is
\* the computed target.
Entry(c, res) ==
    [containerName |-> c, lowerBound |-> res.lowerBound, target |-> res.target,
     upperBound |-> res.upperBound, uncappedTarget |-> res.target]

\* The lists the range loop may build, one per iteration order.
RecommendationLists(resources) ==
    {[i \in DOMAIN order |-> Entry(order[i], resources[order[i]])] :
        order \in SetToSeqs(DOMAIN resources)}

\* getCappedRecommendation: every recommendation it may return for the
\* computed resources under the VPA's resource policy.
getCappedRecommendation(resources, policy) ==
    {ApplyVPAPolicy(list, policy) : list \in RecommendationLists(resources)}

\* The entry of container c in a status's recommendation list.
EntryOf(list, c) == list[CHOOSE i \in DOMAIN list : list[i].containerName = c]

\* The entries of a list, whatever their order.
Content(list) == {list[i] : i \in DOMAIN list}
=============================================================================
