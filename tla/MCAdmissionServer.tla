------------------------- MODULE MCAdmissionServer -------------------------
(* AdmissionServer with two resources, pods of one or two containers and *)
(* provider answers that exercise every nil/non-nil combination of a      *)
(* container's requests and limits.                                       *)
EXTENDS AdmissionServer

MCPodResourceLists == {Nil, [r \in {"cpu"} |-> 1]}
\* the provider's lists: empty, one resource, two resources
MCRecResourceLists == {[r \in {} |-> 0], [r \in {"cpu"} |-> 2],
                       [r \in {"cpu", "memory"} |-> 3]}
MCPolicyBounds == {[r \in {} |-> 0], [r \in {"cpu"} |-> 1], [r \in {"cpu"} |-> 2]}
=============================================================================
