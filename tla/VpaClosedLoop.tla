---------------------------- MODULE VpaClosedLoop ----------------------------
(***************************************************************************)
(* The three VPA processes around one VPA and the pods of its workload.    *)
(* The recommender writes the VPA's status (VpaStatusUpdate); the Updater  *)
(* reads it through its own VPA lister, asks the UpdatePriorityCalculator  *)
(* which pods to update, and evicts some of them; the workload controller  *)
(* recreates an evicted pod, and the admission controller sets its request *)
(* from the recommendation it reads through a third lister.  Each lister   *)
(* copies the server's status at some later time; a watch that delivers   *)
(* several patches at once is one copy.                                     *)
(*                                                                         *)
(* A status is the list getCappedRecommendation builds from one of the    *)
(* results Computed of GetRecommendedPodResources, in any map order, under *)
(* the VPA's Policy; UpdateVpaStatusIfNeeded compares lists, order         *)
(* included.  The VPA recommends for the pods' container "c" and for      *)
(* containers the template no longer has whose aggregates still hold      *)
(* samples (spec 4.3).  A pod has container "c" and one resource.  Pods   *)
(* live shorter or longer than podLifetimeUpdateThreshold; none OOMs.     *)
(* Updater.RunOnce and its eviction restriction are not under src/ and     *)
(* are modelled from spec 4.9; the recommendation provider the admission   *)
(* controller asks is modelled from spec 4.10.                             *)
(***************************************************************************)
EXTENDS Naturals, FiniteSets, CappedRecommendation

CONSTANTS
    Pods,               \* the pods of the VPA's workload (its replicas)
    Containers,         \* containers the VPA has aggregates for, "c" among them
    Computed,           \* results GetRecommendedPodResources may return
    Policy,             \* Policy[c]: the VPA's container policy [mode, minAllowed, maxAllowed]
    Requests,           \* request values (milli)
    TemplateRequest,    \* the request of the workload's pod template
    MinReplicas,        \* --min-replicas
    EvictionTolerance,  \* --eviction-tolerance as [num, den]
    MinChangePriority,  \* UpdateConfig.MinChangePriority as [num, den]
    MaxWatch, MaxFailures, Nil

VARIABLES
    pc, server, watch, lister, observed, recommended, failures,
    updLister,          \* the status in the Updater's VPA lister
    admLister,          \* the status in the admission controller's VPA lister
    request,            \* request[p]: pod p's request
    running,            \* running[p]: pod p runs (FALSE: evicted, not yet recreated)
    old                 \* old[p]: pod p has lived podLifetimeUpdateThreshold

recVars == <<pc, server, watch, lister, observed, recommended, failures>>
podVars == <<request, running, old>>
vars == <<recVars, updLister, admLister, podVars>>

\* The statuses UpdateVPAs may compute: every list getCappedRecommendation
\* may return.
Statuses == UNION {getCappedRecommendation(r, Policy) : r \in Computed}

\* The recommendation a status carries for the pods' container.
Rec(s) == LET e == EntryOf(s, "c")
          IN [lowerBound |-> e.lowerBound, target |-> e.target, upperBound |-> e.upperBound]

\* The recommender's status write-back, with its own lister.
VS == INSTANCE VpaStatusUpdate

\* The calculator's getUpdatePriority and AddPod decision, for pods of one
\* container "c" and one resource "cpu"; its per-tick state is not used.
UP == INSTANCE UpdatePriority WITH
        ContainerSets <- {{"c"}}, Resources <- {"cpu"},
        RequestValues <- Requests, BoundValues <- Requests, Ages <- {0, 12},
        RanForValues <- {}, NoRequest <- Nil, NoRecommendation <- Nil,
        NoStartTime <- Nil, NoTermination <- Nil, NotSorted <- Nil, NotOffered <- Nil,
        PodLifetimeUpdateThreshold <- 12, EvictAfterOOMThreshold <- 10,
        pending <- {}, calcPods <- <<>>, admitted <- {}, result <- Nil, verdict <- Nil

\* A pod with request r and age past the threshold or not, as AddPod sees
\* it with the recommendation of status s.
PodSpec(r, s, isOld) ==
    [containers |-> {"c"}, requests |-> [c |-> [cpu |-> r]],
     recommendation |-> [c |-> [cpu |-> Rec(s)]],
     age |-> IF isOld THEN 12 ELSE 0, lastTermination |-> Nil]

\* AddPod's decision to keep such a pod, tabulated once for all inputs.
UpdateAllowedTable ==
    [r \in Requests, s \in Statuses, isOld \in BOOLEAN |->
        LET spec == PodSpec(r, s, isOld)
        IN UP!UpdateAllowed(spec, UP!getUpdatePriority(CHOOSE p \in Pods : TRUE, spec))]

\* AddPod keeps pod p: it is a candidate for eviction under status s.
Eligible(p, s) == UpdateAllowedTable[request[p], s, old[p]]

Running == {p \in Pods : running[p]}

\* The eviction restriction (spec 4.9): at most max(1, floor(tolerance*|G|))
\* pods per tick, never fewer than max(1, minReplicas) left running.
Allowance == LET k == (EvictionTolerance.num * Cardinality(Pods)) \div EvictionTolerance.den
             IN IF k > 1 THEN k ELSE 1

MinRunning == IF MinReplicas > 1 THEN MinReplicas ELSE 1

TypeOK ==
    /\ VS!TypeOK
    /\ {updLister, admLister} \subseteq Statuses \cup {Nil}
    /\ request \in [Pods -> Requests]
    /\ running \in [Pods -> BOOLEAN]
    /\ old \in [Pods -> BOOLEAN]

\* A new VPA without status; the pods run with the template's request.
Init ==
    /\ VS!Init
    /\ updLister = Nil /\ admLister = Nil
    /\ request = [p \in Pods |-> TemplateRequest]
    /\ running = [p \in Pods |-> TRUE]
    /\ old \in [Pods -> BOOLEAN]

\* The recommender's steps.
LoadVPAs == VS!LoadVPAs /\ UNCHANGED <<updLister, admLister, podVars>>

UpdateVPAs(s, ok) == VS!UpdateVPAs(s, ok) /\ UNCHANGED <<updLister, admLister, podVars>>

Deliver == VS!Deliver /\ UNCHANGED <<updLister, admLister, podVars>>

\* The Updater's and the admission controller's informers catch up.
SyncUpdater ==
    /\ updLister # server
    /\ updLister' = server
    /\ UNCHANGED <<recVars, admLister, podVars>>

SyncAdmission ==
    /\ admLister # server
    /\ admLister' = server
    /\ UNCHANGED <<recVars, updLister, podVars>>

\* One Updater tick for the VPA: the VPA has a recommendation, every
\* running pod goes through AddPod, and the pods S taken from the head of
\* GetSortedPods are evicted as far as the restriction lets them.
UpdaterRunOnce(S) ==
    /\ updLister # Nil
    /\ S # {}
    /\ S \subseteq {p \in Running : Eligible(p, updLister)}
    /\ Cardinality(S) <= Allowance
    /\ Cardinality(Running) - Cardinality(S) >= MinRunning
    /\ running' = [p \in Pods |-> running[p] /\ p \notin S]
    /\ UNCHANGED <<recVars, updLister, admLister, request, old>>

\* Mutant: a recommendation is applied only to a pod without a request.
AdmitOnlyMissing(s) == TemplateRequest

\* Mutant: without a recommendation the patch clears the request.
AdmitClearsRequest(s) == IF s = Nil THEN Nil ELSE Rec(s).target

\* Mutant: the pod's first container takes the list's first entry.
AdmitByPosition(s) == IF s = Nil THEN TemplateRequest ELSE s[1].target

\* The request admission gives a pod created from the template: the
\* recommendation provider's target for the container, or no patch when
\* the VPA it reads has no recommendation.
Admit(s) == IF s = Nil THEN TemplateRequest ELSE Rec(s).target

\* The controller recreates an evicted pod; the admission webhook patches it.
Recreate(p) ==
    /\ ~running[p]
    /\ running' = [running EXCEPT ![p] = TRUE]
    /\ request' = [request EXCEPT ![p] = Admit(admLister)]
    /\ old' = [old EXCEPT ![p] = FALSE]
    /\ UNCHANGED <<recVars, updLister, admLister>>

\* podLifetimeUpdateThreshold passes for a running pod.
Age(p) ==
    /\ running[p] /\ ~old[p]
    /\ old' = [old EXCEPT ![p] = TRUE]
    /\ UNCHANGED <<recVars, updLister, admLister, request, running>>

Next ==
    \/ LoadVPAs \/ \E s \in Statuses, ok \in BOOLEAN : UpdateVPAs(s, ok) \/ Deliver
    \/ SyncUpdater \/ SyncAdmission
    \/ \E S \in SUBSET Pods : UpdaterRunOnce(S)
    \/ \E p \in Pods : Recreate(p) \/ Age(p)

\* The three loops keep running, the informers deliver, controllers
\* recreate evicted pods, and time passes.
Fairness ==
    /\ WF_vars(LoadVPAs) /\ WF_vars(\E s \in Statuses, ok \in BOOLEAN : UpdateVPAs(s, ok))
    /\ WF_vars(Deliver) /\ WF_vars(SyncUpdater) /\ WF_vars(SyncAdmission)
    /\ WF_vars(\E S \in SUBSET Pods : UpdaterRunOnce(S))
    /\ \A p \in Pods : WF_vars(Recreate(p)) /\ WF_vars(Age(p))

Spec == Init /\ [][Next]_vars /\ Fairness

-----------------------------------------------------------------------------
(* Properties. *)

\* A status the recommender computes reaches the API server unless a later
\* run replaces it (VpaStatusUpdate's property, in the closed loop).
StatusEventuallyWritten == VS!StatusEventuallyWritten

\* No eviction loop: once the content of the VPA's status stops changing,
\* eventually no pod is a candidate for eviction any more and every pod
\* runs.  The recommender may keep rewriting the same recommendation in
\* another container order; a pod the admission controller patched from
\* its stale lister, or one the Updater evicted on a stale recommendation,
\* is evicted again and recreated only until both listers have caught up.
EvictionsStop ==
    \A s \in Statuses :
        <>[](server # Nil /\ Content(server) = Content(s))
            => <>[](\A p \in Pods : running[p] /\ ~Eligible(p, s))
=============================================================================
