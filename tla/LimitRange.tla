----------------------------- MODULE LimitRange -----------------------------
(***************************************************************************)
(* limitsChecker.getLimitRangeItem (admission-controller limitrange        *)
(* calculator): merge the namespace's LimitRange items of one type into a  *)
(* single item "that has the same effect as all limit range items present  *)
(* in the cluster".                                                        *)
(*                                                                         *)
(* The lister's List returns the LimitRange objects in cache order, which  *)
(* Go does not fix: Init takes the list in any order.  One step is one     *)
(* iteration of the inner loop over lr.Spec.Limits.  A ResourceList is a   *)
(* function from resource names to quantities, or Nil.                     *)
(***************************************************************************)
EXTENDS Integers, FiniteSets, Sequences, SequencesExt

CONSTANTS
    Resources,      \* resource names; "cpu" and "memory" among them
    ResourceLists,  \* the Max, Min and Default lists an item may carry
    LimitTypes,     \* "Container", "Pod"
    MaxRanges,      \* LimitRange objects in the namespace
    MaxItems,       \* items per LimitRange
    Nil

ASSUME {"cpu", "memory"} \subseteq Resources

VARIABLES
    limitRanges,    \* what the lister returns, in its order
    limitType,      \* the type asked for
    listErr,        \* whether List fails
    pending,        \* items the loop has still to visit
    result,         \* the LimitRangeItem being built
    returned,       \* the value returned: an item, Nil, or ListError
    status          \* "listing", "merging", "done"

vars == <<limitRanges, limitType, listErr, pending, result, returned, status>>

Items == [type : LimitTypes, max : ResourceLists, min : ResourceLists,
          default : ResourceLists]
LimitRangeObjects == UNION {[1..m -> Items] : m \in 1..MaxItems}
RangeLists == UNION {[1..n -> LimitRangeObjects] : n \in 0..MaxRanges}
ListError == [error |-> "error loading limit ranges"]
\* Mutant: the result item is created without its Type.
EmptyItemUntyped(t) == [type |-> "", max |-> Nil, min |-> Nil, default |-> Nil]

EmptyItem(t) == [type |-> t, max |-> Nil, min |-> Nil, default |-> Nil]

-----------------------------------------------------------------------------
(* The two pickers and updatedResult. *)
\* Mutant: the Max picker keeps the higher quantity.
pickLowerMaxSwapped(q1, q2) == IF q1 > q2 THEN q1 ELSE q2

pickLowerMax(q1, q2) == IF q1 < q2 THEN q1 ELSE q2

chooseHigherMin(q1, q2) == IF q1 > q2 THEN q1 ELSE q2

Pick(picker, q1, q2) ==
    IF picker = "pickLowerMax" THEN pickLowerMax(q1, q2) ELSE chooseHigherMin(q1, q2)

updatedResult(res, lrItem, resourceName, picker) ==
    IF lrItem = Nil THEN res
    ELSE IF res = Nil THEN lrItem
    ELSE IF resourceName \notin DOMAIN lrItem THEN res
    ELSE [r \in DOMAIN res \cup {resourceName} |->
            IF r # resourceName THEN res[r]
            ELSE IF r \notin DOMAIN res THEN lrItem[r]
            ELSE Pick(picker, res[r], lrItem[r])]

(* One pass of the loop body on item lri. *)
MergeInto(res, lri) ==
    IF lri.type = res.type /\ (lri.max # Nil \/ lri.default # Nil \/ lri.min # Nil)
    THEN LET max1 == updatedResult(res.max, lri.max, "cpu", "pickLowerMax")
             min1 == updatedResult(res.min, lri.min, "cpu", "chooseHigherMin")
         IN [res EXCEPT
               !.default = IF lri.default # Nil THEN lri.default ELSE @,
               !.max = updatedResult(max1, lri.max, "memory", "pickLowerMax"),
               !.min = updatedResult(min1, lri.min, "memory", "chooseHigherMin")]
    ELSE res

-----------------------------------------------------------------------------
IsResourceList(l) == l = Nil \/ (DOMAIN l \subseteq Resources /\ \A r \in DOMAIN l : l[r] \in Nat)

TypeOK ==
    /\ limitRanges \in RangeLists
    /\ limitType \in LimitTypes
    /\ listErr \in BOOLEAN
    /\ pending \in Seq(Items)
    /\ result = Nil \/ /\ result.type = limitType
                        /\ IsResourceList(result.max) /\ IsResourceList(result.min)
                        /\ result.default \in ResourceLists
    /\ status \in {"listing", "merging", "done"}

Init ==
    /\ limitRanges \in RangeLists
    /\ limitType \in LimitTypes
    /\ listErr \in BOOLEAN
    /\ pending = <<>>
    /\ result = Nil
    /\ returned = Nil
    /\ status = "listing"

(* LimitRanges(namespace).List: an error ends the call. *)
List ==
    /\ status = "listing"
    /\ IF listErr
       THEN /\ returned' = ListError
            /\ status' = "done"
            /\ UNCHANGED <<pending, result>>
       ELSE /\ pending' = FlattenSeq(limitRanges)
            /\ result' = EmptyItem(limitType)
            /\ status' = "merging"
            /\ UNCHANGED returned
    /\ UNCHANGED <<limitRanges, limitType, listErr>>

MergeItem ==
    /\ status = "merging"
    /\ pending # <<>>
    /\ result' = MergeInto(result, Head(pending))
    /\ pending' = Tail(pending)
    /\ UNCHANGED <<limitRanges, limitType, listErr, returned, status>>

(* The result is returned only when one of its lists is set. *)
Return ==
    /\ status = "merging"
    /\ pending = <<>>
    /\ returned' = IF result.min # Nil \/ result.max # Nil \/ result.default # Nil
                   THEN result ELSE Nil
    /\ status' = "done"
    /\ UNCHANGED <<limitRanges, limitType, listErr, pending, result>>

Next == List \/ MergeItem \/ Return

Spec == Init /\ [][Next]_vars

-----------------------------------------------------------------------------
(* Properties.  The reference is the set of matching items, whatever the  *)
(* order the lister returned them in.                                      *)
MatchingItems ==
    {lri \in Range(FlattenSeq(limitRanges)) :
        lri.type = limitType /\ (lri.max # Nil \/ lri.default # Nil \/ lri.min # Nil)}

Bound(l, r) == IF l # Nil /\ r \in DOMAIN l THEN {l[r]} ELSE {}

(* Resource r of the merged list equals the tightest bound among the      *)
(* matching items' lists (Tightest: Min for Max, Max for Min), and is     *)
(* absent when no item bounds it.                                         *)
HasEffectOf(merged, lists, r, Tightest(_)) ==
    LET B == UNION {Bound(l, r) : l \in lists} IN
    IF B = {} THEN merged = Nil \/ r \notin DOMAIN merged
    ELSE merged # Nil /\ r \in DOMAIN merged /\ merged[r] = Tightest(B)

SameEffectFor(R) ==
    status = "done" /\ returned # ListError =>
        /\ returned = Nil <=> MatchingItems = {}
        /\ returned # Nil =>
              \A r \in R :
                 /\ HasEffectOf(returned.max, {lri.max : lri \in MatchingItems}, r, Min)
                 /\ HasEffectOf(returned.min, {lri.min : lri \in MatchingItems}, r, Max)

(* For cpu and memory the merged item bounds a container (or pod) exactly *)
(* as all the namespace's items of that type together do, whichever order *)
(* the lister returns the LimitRanges in: the lowest Max and the highest  *)
(* Min win, and nothing is returned only when no item applies.            *)
CpuMemoryBoundsTightest == SameEffectFor({"cpu", "memory"})

(* The LimitRangeCalculator's contract (its doc comment): the merged item *)
(* "has the same effect as all limit range items", for every resource the *)
(* items bound, not only cpu and memory.                                  *)
SameEffectAsAllItems == SameEffectFor(Resources)

====
