--------------------------- MODULE UpdatePriority ---------------------------
(***************************************************************************)
(* The Updater's UpdatePriorityCalculator (pkg/updater/priority/           *)
(* update_priority_calculator.go) for one VPA in one Updater tick: the     *)
(* Updater offers every pod matching the VPA with AddPod, which keeps the  *)
(* pods allowed to be updated together with their podPriority, and then    *)
(* asks GetSortedPods for the eviction candidates, highest priority first, *)
(* filtered through a PodEvictionAdmission.                                *)
(*                                                                         *)
(* Quantities are milli-values (MilliValue()), small integers here.  The   *)
(* float64 resourceDiff is kept as an exact fraction [num, den], den > 0.  *)
(* Pod ages are in hours, container run times in minutes.                  *)
(*                                                                         *)
(* Next to the calculator's state the module keeps a history variable,     *)
(* verdict, holding what spec.md section 4.8 says of each offered pod      *)
(* (eligible, scaleUp, resourceDiff), computed by an independent           *)
(* definition; the properties compare the calculator's output with it.     *)
(***************************************************************************)
EXTENDS Integers, FiniteSets, Sequences, SequencesExt, FiniteSetsExt

CONSTANTS
    Pods,                       \* pods matching the VPA in this tick
    ContainerSets,              \* possible sets of container names of a pod
    Resources,                  \* resource names (cpu, memory)
    RequestValues,              \* declared requests (milli), may hold NoRequest
    BoundValues,                \* values of lowerBound / target / upperBound
    Ages,                       \* now - pod.Status.StartTime in hours, or NoStartTime
    RanForValues,               \* FinishedAt - StartedAt of the last termination, minutes
    NoRequest, NoRecommendation, NoStartTime, NoTermination, NotSorted, NotOffered,
    MinChangePriority,          \* UpdateConfig.MinChangePriority as [num, den]
    PodLifetimeUpdateThreshold, \* podLifetimeUpdateThreshold, hours (12)
    EvictAfterOOMThreshold      \* flag evict-after-oom-threshold, minutes (10)

ASSUME MinChangePriority.den > 0

VARIABLES
    pending,    \* pods the Updater has not offered to AddPod yet
    calcPods,   \* calc.pods: the accepted podPriority records, in order
    admitted,   \* pods the PodEvictionAdmission admits (nil admits all)
    result,     \* the list returned by GetSortedPods, or NotSorted
    verdict     \* history: spec.md's verdict on each offered pod

vars == <<pending, calcPods, admitted, result, verdict>>

-----------------------------------------------------------------------------
(* Exact arithmetic on the float64 resourceDiff.                           *)
(* A fraction is kept in lowest terms, so equal values are equal records. *)
Divides(g, n) == n % g = 0
Frac(n, d) ==
    LET g == CHOOSE g \in 1..d : /\ Divides(g, n) /\ Divides(g, d)
                                 /\ \A h \in 1..d : (Divides(h, n) /\ Divides(h, d)) => h <= g
    IN [num |-> n \div g, den |-> d \div g]
FracAdd(a, b) == Frac(a.num * b.den + b.num * a.den, a.den * b.den)
FracLess(a, b) == a.num * b.den < b.num * a.den
(* Sum of the fractions f[r], r \in DOMAIN f: the terms are not collected *)
(* into a set, where two equal terms would collapse into one.             *)
FracSum(f) ==
    MapThenFoldSet(FracAdd, Frac(0, 1), LAMBDA r : f[r],
                   LAMBDA s : CHOOSE x \in s : TRUE, DOMAIN f)

\* Mutant: math.Abs left out of the difference.
SignedDiff(a, b) == b - a

AbsDiff(a, b) == IF a >= b THEN a - b ELSE b - a
MaxOne(x) == IF x >= 1 THEN x ELSE 1

(* The inputs: a pod as the calculator sees it after the                   *)
(* RecommendationProcessor, i.e. with its processed recommendation.       *)
Bounds == {b \in [lowerBound : BoundValues, target : BoundValues,
                  upperBound : BoundValues] :
              b.lowerBound <= b.target /\ b.target <= b.upperBound}
Terminations == {NoTermination} \cup
                [reason : {"OOMKilled", "Error"}, ranFor : RanForValues]
PodSpecs ==
    UNION { [containers     : {cs},
             requests       : [cs -> [Resources -> RequestValues]],
             recommendation : [cs -> {NoRecommendation} \cup [Resources -> Bounds]],
             age            : Ages,
             lastTermination : Terminations] : cs \in ContainerSets }

\* resourceDiff, a sum of |request - recommended| / request, is non-negative.
PodPriority == [pod : Pods, outsideRecommendedRange : BOOLEAN,
                scaleUp : BOOLEAN, resourceDiff : [num : Nat, den : Nat \ {0}]]

-----------------------------------------------------------------------------
(* getUpdatePriority: one pass over the containers that have a            *)
(* recommendation, summing requests and targets per resource; a missing   *)
(* request makes the pod scale-up and outside the range.                  *)
Recommended(spec) ==
    {c \in spec.containers : spec.recommendation[c] # NoRecommendation}

HasRequest(spec, c, r) == spec.requests[c][r] # NoRequest

getUpdatePriority(p, spec) ==
    LET rc == Recommended(spec)
        outside == \E c \in rc, r \in Resources :
                     LET b == spec.recommendation[c][r] IN
                     \/ ~HasRequest(spec, c, r)
                     \/ spec.requests[c][r] < b.lowerBound
                     \/ spec.requests[c][r] > b.upperBound
        up == \E c \in rc, r \in Resources :
                 \/ ~HasRequest(spec, c, r)
                 \/ spec.recommendation[c][r].target > spec.requests[c][r]
        totalRecommended(r) ==
            MapThenSumSet(LAMBDA c : spec.recommendation[c][r].target, rc)
        totalRequest(r) ==
            MaxOne(MapThenSumSet(LAMBDA c : spec.requests[c][r],
                                 {c \in rc : HasRequest(spec, c, r)}))
        \* range over totalRecommendedPerResource: its keys are the resources
        \* of some container's target
        keys == IF rc = {} THEN {} ELSE Resources
        diff == FracSum([r \in keys |-> Frac(AbsDiff(totalRequest(r), totalRecommended(r)),
                                              totalRequest(r))])
    IN [pod |-> p, outsideRecommendedRange |-> outside,
        scaleUp |-> up, resourceDiff |-> diff]

(* Mutant: the OOM window compared with <=, an off-by-one at the boundary. *)
quickOOMInclusive(spec) ==
    /\ Cardinality(spec.containers) = 1
    /\ spec.lastTermination # NoTermination
    /\ spec.lastTermination.reason = "OOMKilled"
    /\ spec.lastTermination.ranFor <= EvictAfterOOMThreshold

(* AddPod: a single container whose last run ended in OOMKilled sooner    *)
(* than evictAfterOOMThreshold.                                            *)
quickOOM(spec) ==
    /\ Cardinality(spec.containers) = 1
    /\ spec.lastTermination # NoTermination
    /\ spec.lastTermination.reason = "OOMKilled"
    /\ spec.lastTermination.ranFor < EvictAfterOOMThreshold

(* AddPod's early returns for a pod inside its recommended range.         *)
UpdateAllowed(spec, prio) ==
    \/ prio.outsideRecommendedRange
    \/ quickOOM(spec)
    \/ /\ spec.age # NoStartTime
       /\ spec.age >= PodLifetimeUpdateThreshold
       /\ ~FracLess(prio.resourceDiff, MinChangePriority)

(* Mutant: Less comparing resourceDiff the wrong way round.               *)
byPriorityLessAscending(a, b) ==
    IF a.scaleUp # b.scaleUp THEN a.scaleUp
    ELSE FracLess(a.resourceDiff, b.resourceDiff)

(* byPriority.Less: scale-up first, then larger resourceDiff first.       *)
byPriorityLess(a, b) ==
    IF a.scaleUp # b.scaleUp THEN a.scaleUp
    ELSE FracLess(b.resourceDiff, a.resourceDiff)

-----------------------------------------------------------------------------
(* spec.md 4.8, written from its text: requests and targets summed per    *)
(* resource over the containers the recommendation names, a missing       *)
(* request counting as 0.                                                  *)
SpecRequest(spec, c, r) == IF HasRequest(spec, c, r) THEN spec.requests[c][r] ELSE 0

SpecVerdict(spec, err) ==
    LET rc == Recommended(spec)
        reqTotal(r) == MapThenSumSet(LAMBDA c : SpecRequest(spec, c, r), rc)
        recTotal(r) == MapThenSumSet(LAMBDA c : spec.recommendation[c][r].target, rc)
        diff == IF rc = {} THEN Frac(0, 1)
                ELSE FracSum([r \in Resources |-> Frac(AbsDiff(reqTotal(r), recTotal(r)),
                                                        MaxOne(reqTotal(r)))])
        outside == \E c \in rc, r \in Resources :
                     SpecRequest(spec, c, r) \notin
                        spec.recommendation[c][r].lowerBound
                            .. spec.recommendation[c][r].upperBound
        up == \E c \in rc, r \in Resources :
                 spec.recommendation[c][r].target > SpecRequest(spec, c, r)
        oom == /\ Cardinality(spec.containers) = 1
               /\ spec.lastTermination \in [reason : {"OOMKilled"}, ranFor : Int]
               /\ spec.lastTermination.ranFor < EvictAfterOOMThreshold
        old == spec.age \in Int /\ spec.age >= PodLifetimeUpdateThreshold
    IN [eligible |-> ~err /\ (outside \/ oom \/ (old /\ ~FracLess(diff, MinChangePriority))),
        scaleUp |-> up, resourceDiff |-> diff]

-----------------------------------------------------------------------------
TypeOK ==
    /\ pending \subseteq Pods
    /\ calcPods \in Seq(PodPriority)
    /\ admitted \subseteq Pods
    /\ result = NotSorted \/ result \in Seq(Pods)
    /\ verdict \in [Pods -> {NotOffered} \cup
                    [eligible : BOOLEAN, scaleUp : BOOLEAN,
                     resourceDiff : [num : Int, den : Int]]]

Init ==
    /\ pending = Pods
    /\ calcPods = <<>>
    /\ admitted = Pods
    /\ result = NotSorted
    /\ verdict = [p \in Pods |-> NotOffered]

(* AddPod(pod, recommendation, now).  err is the RecommendationProcessor   *)
(* failing, after which the pod is dropped.                               *)
AddPod(p, spec, err) ==
    /\ p \in pending
    /\ result = NotSorted
    /\ pending' = pending \ {p}
    /\ LET prio == getUpdatePriority(p, spec) IN
       calcPods' = IF ~err /\ UpdateAllowed(spec, prio)
                   THEN Append(calcPods, prio) ELSE calcPods
    /\ verdict' = [verdict EXCEPT ![p] = SpecVerdict(spec, err)]
    /\ UNCHANGED <<admitted, result>>

(* GetSortedPods(admission): sort.Sort(byPriority(calc.pods)) in place,   *)
(* then keep the pods the admission admits.  sort.Sort is not stable: any *)
(* order in which no later element is Less than an earlier one.  The      *)
(* Updater calls it once, after offering every pod (spec.md 4.9).          *)
GetSortedPods(adm) ==
    /\ pending = {}
    /\ result = NotSorted
    /\ \E order \in SetToSeqs(Range(calcPods)) :
          /\ \A i, j \in 1..Len(order) : i < j => ~byPriorityLess(order[j], order[i])
          /\ calcPods' = order
          /\ result' = [i \in 1..Len(SelectSeq(order, LAMBDA x : x.pod \in adm)) |->
                          SelectSeq(order, LAMBDA x : x.pod \in adm)[i].pod]
    /\ admitted' = adm
    /\ UNCHANGED <<pending, verdict>>

Next ==
    \/ \E p \in Pods, spec \in PodSpecs, err \in BOOLEAN : AddPod(p, spec, err)
    \/ \E adm \in SUBSET Pods : GetSortedPods(adm)

Spec == Init /\ [][Next]_vars

-----------------------------------------------------------------------------
(* Priority ordering (spec.md 8), on what the spec says of each pod: in   *)
(* the list GetSortedPods returns every scale-up pod precedes every       *)
(* scale-down pod, and within each kind resourceDiff does not increase.   *)
(* It covers getUpdatePriority's sums and byPriority.Less together.       *)
PriorityOrder ==
    result # NotSorted =>
        \A i, j \in 1..Len(result) : i < j =>
            LET a == verdict[result[i]]
                b == verdict[result[j]]
            IN /\ b.scaleUp => a.scaleUp
               /\ a.scaleUp = b.scaleUp => ~FracLess(a.resourceDiff, b.resourceDiff)

(* The eviction candidates of a tick are exactly the admitted pods spec.md *)
(* 4.8 calls eligible, each once: AddPod's early returns, quickOOM and the *)
(* lifetime/MinChangePriority rule drop no eligible pod and keep no other. *)
CandidatesAreEligible ==
    result # NotSorted =>
        /\ Len(result) = Cardinality(Range(result))
        /\ Range(result) = {p \in admitted : verdict[p] # NotOffered
                                             /\ verdict[p].eligible}

====
