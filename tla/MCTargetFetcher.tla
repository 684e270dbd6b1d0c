--------------------------- MODULE MCTargetFetcher ---------------------------
(* Two well-known kinds (Deployment, whose selector may not be empty, and   *)
(* CronJob, whose selector is built from its template labels, which may be  *)
(* empty) and one custom kind with two versions.                            *)
EXTENDS TargetFetcher

MCWellKnown == {"Deployment", "CronJob"}

MCMappings == [k \in {"Scalable"} |-> <<"v1", "v1beta1">>]

MCTargetRefs ==
    {Nil} \cup {[kind |-> k, gvOK |-> TRUE] : k \in {"Deployment", "CronJob", "Scalable"}}
          \cup {[kind |-> "Scalable", gvOK |-> FALSE]}

=============================================================================
