---------------------------- MODULE MCLimitRange ----------------------------
(* LimitRange with three resources, one of them neither cpu nor memory,   *)
(* and lists that overlap on every pair of resources.                     *)
EXTENDS LimitRange

MCResourceLists == {Nil, [r \in {"cpu"} |-> 1], [r \in {"cpu", "storage"} |-> 2],
                    [r \in {"memory", "storage"} |-> 1]}
=============================================================================
