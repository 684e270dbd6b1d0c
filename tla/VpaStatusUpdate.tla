---------------------------- MODULE VpaStatusUpdate ----------------------------
(***************************************************************************)
(* The status write-back of the recommender's UpdateVPAs                   *)
(* (routines/recommender.go) for one VPA, across RunOnce iterations.       *)
(* LoadVPAs copies the VPA from the lister into ObservedVpas; UpdateVPAs   *)
(* then computes a new status (recommendation and conditions) and calls   *)
(* UpdateVpaStatusIfNeeded, which patches the API server only when the new *)
(* status differs from observedVpa.Status.  The lister learns of each      *)
(* patch through the watch, in order and later.  A patch may fail; the    *)
(* error is only logged.  The recommendation itself (GetRecommendedPod-   *)
(* Resources, the capping) is a choice from Statuses.                      *)
(***************************************************************************)
EXTENDS Naturals, Sequences

CONSTANTS
    Statuses,       \* statuses UpdateVPAs may compute
    MaxWatch,       \* bound on watch events not yet seen by the lister
    MaxFailures,    \* bound on failed status patches
    Nil

VARIABLES
    pc,             \* the next phase of RunOnce that touches the VPA
    server,         \* the VPA's status on the API server
    watch,          \* status patches the lister has not seen yet
    lister,         \* the VPA's status in the lister
    observed,       \* ObservedVpas: the status LoadVPAs copied
    recommended,    \* the status the last UpdateVPAs computed
    failures        \* failed patches so far

vars == <<pc, server, watch, lister, observed, recommended, failures>>

TypeOK ==
    /\ pc \in {"LoadVPAs", "UpdateVPAs"}
    /\ {server, lister, observed, recommended} \subseteq Statuses \cup {Nil}
    /\ watch \in Seq(Statuses) /\ Len(watch) <= MaxWatch
    /\ failures \in 0..MaxFailures

\* A new VPA without status, known to the lister; nothing computed yet.
Init ==
    /\ pc = "LoadVPAs"
    /\ server = Nil /\ lister = Nil /\ observed = Nil /\ recommended = Nil
    /\ watch = <<>>
    /\ failures = 0

\* The feeder's LoadVPAs: ObservedVpas is the lister's list.
LoadVPAs ==
    /\ pc = "LoadVPAs"
    /\ observed' = lister
    /\ pc' = "UpdateVPAs"
    /\ UNCHANGED <<server, watch, lister, recommended, failures>>

\* Mutant: the status is written only when the VPA had no recommendation.
NeededOnlyWithoutStatus(new) == observed = Nil

\* UpdateVpaStatusIfNeeded: patch unless the new status equals the
\* observed one.
Needed(new) == new # observed

\* The loop body of UpdateVPAs for this VPA: compute the status, compare
\* it with observedVpa.Status, patch the server (or fail and log).
UpdateVPAs(new, ok) ==
    /\ pc = "UpdateVPAs"
    /\ recommended' = new
    /\ IF Needed(new) /\ ok
       THEN /\ Len(watch) < MaxWatch
            /\ server' = new
            /\ watch' = Append(watch, new)
            /\ UNCHANGED failures
       ELSE /\ ~ok => Needed(new) /\ failures < MaxFailures
            /\ failures' = IF ok THEN failures ELSE failures + 1
            /\ UNCHANGED <<server, watch>>
    /\ pc' = "LoadVPAs"
    /\ UNCHANGED <<lister, observed>>

\* The lister's watch delivers the oldest patch.
Deliver ==
    /\ watch # <<>>
    /\ lister' = Head(watch)
    /\ watch' = Tail(watch)
    /\ UNCHANGED <<pc, server, observed, recommended, failures>>

Next ==
    \/ LoadVPAs
    \/ \E s \in Statuses, ok \in BOOLEAN : UpdateVPAs(s, ok)
    \/ Deliver

\* The recommender loop keeps running (the Recommender module checks its
\* ticker) and the informer keeps delivering watch events.
Spec == Init /\ [][Next]_vars /\ WF_vars(LoadVPAs)
          /\ WF_vars(\E s \in Statuses, ok \in BOOLEAN : UpdateVPAs(s, ok))
          /\ WF_vars(Deliver)

-----------------------------------------------------------------------------
(* Properties. *)

(* Every status UpdateVPAs computes reaches the API server unless a later  *)
(* run computes another: a patch skipped because the lister's copy was    *)
(* stale, or a failed patch, is made good once the lister catches up.      *)
StatusEventuallyWritten ==
    \A s \in Statuses : recommended = s ~> (server = s \/ recommended # s)
=============================================================================
