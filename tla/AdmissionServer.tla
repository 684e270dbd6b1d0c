--------------------------- MODULE AdmissionServer ---------------------------
(***************************************************************************)
(* The admission webhook's request handling (pkg/admission-controller/     *)
(* logic/server.go): Serve -> admit -> getPatchesForPodResourceRequest or  *)
(* getPatchesForVPADefaults, and the JSON patch it answers with.           *)
(*                                                                         *)
(* The apiserver sends one AdmissionReview, `request`; the webhook serves  *)
(* it up to MaxServes times (handlers run in parallel and share nothing,   *)
(* so repeated and concurrent calls are the same thing).  Go map iteration *)
(* order is unspecified, so each call picks an order for every ResourceList *)
(* it ranges over.  A JSON patch is a sequence of "add" operations with    *)
(* paths as tuples; ApplyPatch gives RFC 6902 "add" its meaning on the pod *)
(* the apiserver holds, so the properties speak of the patched pod.        *)
(*                                                                         *)
(* The RecommendationProvider, the pod and VPA pre-processors and the      *)
(* limit-range calculator lie outside this file: the provider's answer     *)
(* (per-container requests and limits, or an error) is part of the input. *)
(***************************************************************************)
EXTENDS Integers, FiniteSets, Sequences, SequencesExt

CONSTANTS
    Resources,          \* resource names
    PodResourceLists,   \* a pod container's requests or limits: Nil or a non-empty map
    RecResourceLists,   \* the provider's requests or limits for a container (maps)
    MaxContainers,      \* containers per pod
    UpdateModes,        \* updateMode values a client may send (valid or not)
    ScalingModes,       \* container scaling mode values a client may send
    PolicyBounds,       \* minAllowed / maxAllowed maps of a container policy
    MaxServes,          \* times the webhook serves the request
    Nil, NoResponse

VARIABLES
    request,    \* the AdmissionReview the apiserver sends
    responses   \* the responses the webhook has written, in order

vars == <<request, responses>>

-----------------------------------------------------------------------------
(* Inputs. *)
PodContainers == [requests : PodResourceLists, limits : PodResourceLists]
ContainerResources == [Requests : RecResourceLists, Limits : RecResourceLists]
Pods == [containers : UNION {[1..n -> PodContainers] : n \in 1..MaxContainers},
         annotations : {Nil, "present"}]
ContainerPolicies == [containerName : {"", "c1"}, mode : {Nil} \cup ScalingModes,
                      minAllowed : PolicyBounds, maxAllowed : PolicyBounds]
Vpas == [updatePolicy : {Nil} \cup [updateMode : {Nil} \cup UpdateModes],
         containerPolicies : UNION {[1..n -> ContainerPolicies] : n \in 0..1},
         targetRef : BOOLEAN]

PodReviews ==
    UNION { [kind : {"pod"}, pod : {p},
             recommendation : [DOMAIN p.containers -> ContainerResources],
             providerErr : BOOLEAN] : p \in Pods }
VpaReviews == [kind : {"vpa"}, operation : {"CREATE", "UPDATE"}, vpa : Vpas,
               parseErr : BOOLEAN]
AdmissionReviews ==
    PodReviews \cup VpaReviews \cup [kind : {"other", "unparsable", "badContentType"}]

-----------------------------------------------------------------------------
(* Patches.  Container i of the pod is index i - 1 in a path.             *)
ContainerPath(i) == <<"spec", "containers", i - 1, "resources">>
getPatchInitializingEmptyResources(i) ==
    [op |-> "add", path |-> ContainerPath(i), value |-> "ResourceRequirements{}"]
getPatchInitializingEmptyResourcesSubfield(i, kind) ==
    [op |-> "add", path |-> ContainerPath(i) \o <<kind>>, value |-> "ResourceList{}"]
getAddResourceRequirementValuePatch(i, kind, resource, quantity) ==
    [op |-> "add", path |-> ContainerPath(i) \o <<kind, resource>>, value |-> quantity]

(* Mutant: the sub-field is not initialised when the pod has none.        *)
appendPatchesAndAnnotationsNoInit(patches, annotations, current, i, resources, order, fieldName, resourceName) ==
    << patches \o [k \in 1..Len(order) |->
                    getAddResourceRequirementValuePatch(i, fieldName, order[k],
                                                        resources[order[k]])],
       annotations \o [k \in 1..Len(order) |-> <<order[k], resourceName>>] >>

(* order: the order in which `range resources` visits the map's keys.     *)
appendPatchesAndAnnotations(patches, annotations, current, i, resources, order, fieldName, resourceName) ==
    LET init == IF current = Nil /\ DOMAIN resources # {}
                THEN <<getPatchInitializingEmptyResourcesSubfield(i, fieldName)>>
                ELSE <<>>
    IN << patches \o init \o
            [k \in 1..Len(order) |->
                getAddResourceRequirementValuePatch(i, fieldName, order[k],
                                                    resources[order[k]])],
          annotations \o [k \in 1..Len(order) |-> <<order[k], resourceName>>] >>

(* Mutant: the limits call is handed the recommended Requests.            *)
getContainerPatchLimitsFromRequests(pod, i, cr, ord) ==
    LET c == pod.containers[i]
        init == IF c.limits = Nil /\ c.requests = Nil
                THEN <<getPatchInitializingEmptyResources(i)>> ELSE <<>>
        req == appendPatchesAndAnnotations(init, <<>>, c.requests, i, cr.Requests,
                                           ord.Requests, "requests", "request")
        lim == appendPatchesAndAnnotations(req[1], req[2], c.limits, i, cr.Requests,
                                           ord.Requests, "limits", "limit")
    IN [patches |-> lim[1], annotation |-> <<i - 1, lim[2]>>]

(* annotationsPerContainer from the provider are taken to be empty.        *)
getContainerPatch(pod, i, cr, ord) ==
    LET c == pod.containers[i]
        init == IF c.limits = Nil /\ c.requests = Nil
                THEN <<getPatchInitializingEmptyResources(i)>> ELSE <<>>
        req == appendPatchesAndAnnotations(init, <<>>, c.requests, i, cr.Requests,
                                           ord.Requests, "requests", "request")
        lim == appendPatchesAndAnnotations(req[1], req[2], c.limits, i, cr.Limits,
                                           ord.Limits, "limits", "limit")
    IN [patches |-> lim[1], annotation |-> <<i - 1, lim[2]>>]

(* Result [err, patches]; ord[i] holds the key orders for container i.     *)
getPatchesForPodResourceRequest(rv, ord) ==
    IF rv.providerErr THEN [err |-> TRUE, patches |-> <<>>]
    ELSE
    LET n == Len(rv.pod.containers)
        parts == [i \in 1..n |-> getContainerPatch(rv.pod, i, rv.recommendation[i], ord[i])]
        patches == FoldLeft(LAMBDA acc, p : acc \o p.patches, <<>>, parts)
        updatesAnnotation == [i \in 1..n |-> parts[i].annotation]
        value == <<"vpaName", updatesAnnotation>>
        annotationPatch ==
            IF n = 0 THEN <<>>
            ELSE IF rv.pod.annotations = Nil
            THEN <<[op |-> "add", path |-> <<"metadata", "annotations">>,
                    value |-> <<"vpaUpdates", value>>]>>
            ELSE <<[op |-> "add", path |-> <<"metadata", "annotations", "vpaUpdates">>,
                    value |-> value]>>
    IN [err |-> FALSE, patches |-> patches \o annotationPatch]

-----------------------------------------------------------------------------
(* The VPA path: validateVPA returns the first rule the object breaks.     *)
possibleUpdateModes == {"Off", "Initial", "Recreate", "Auto"}
possibleScalingModes == {"Auto", "Off"}

PolicyError(policy) ==
    IF policy.containerName = ""
    THEN "ContainerPolicies.ContainerName is required"
    ELSE IF policy.mode # Nil /\ policy.mode \notin possibleScalingModes
    THEN "unexpected Mode value"
    ELSE IF \E r \in DOMAIN policy.minAllowed :
                r \in DOMAIN policy.maxAllowed /\ policy.maxAllowed[r] < policy.minAllowed[r]
    THEN "max resource is lower than min"
    ELSE Nil

(* Mutant: TargetRef demanded on update as well as on create.             *)
validateVPATargetRefAlways(vpa, isCreate) ==
    LET failing == {k \in DOMAIN vpa.containerPolicies :
                        PolicyError(vpa.containerPolicies[k]) # Nil}
    IN
    IF vpa.updatePolicy # Nil /\ vpa.updatePolicy.updateMode = Nil
    THEN "UpdateMode is required if UpdatePolicy is used"
    ELSE IF vpa.updatePolicy # Nil /\ vpa.updatePolicy.updateMode \notin possibleUpdateModes
    THEN "unexpected UpdateMode value"
    ELSE IF failing # {}
    THEN PolicyError(vpa.containerPolicies[CHOOSE k \in failing :
                                              \A j \in failing : k <= j])
    ELSE IF ~vpa.targetRef
    THEN "TargetRef is required"
    ELSE Nil

validateVPA(vpa, isCreate) ==
    LET failing == {k \in DOMAIN vpa.containerPolicies :
                        PolicyError(vpa.containerPolicies[k]) # Nil}
    IN
    IF vpa.updatePolicy # Nil /\ vpa.updatePolicy.updateMode = Nil
    THEN "UpdateMode is required if UpdatePolicy is used"
    ELSE IF vpa.updatePolicy # Nil /\ vpa.updatePolicy.updateMode \notin possibleUpdateModes
    THEN "unexpected UpdateMode value"
    ELSE IF failing # {}
    THEN PolicyError(vpa.containerPolicies[CHOOSE k \in failing :
                                              \A j \in failing : k <= j])
    ELSE IF isCreate /\ ~vpa.targetRef
    THEN "TargetRef is required"
    ELSE Nil

(* Mutant: the default update policy is patched in with "replace".       *)
getPatchesForVPADefaultsReplace(rv) ==
    LET e == IF rv.parseErr THEN "cannot unmarshal"
             ELSE validateVPA(rv.vpa, rv.operation = "CREATE")
    IN IF e # Nil THEN [err |-> e, patches |-> <<>>]
       ELSE [err |-> Nil,
             patches |-> IF rv.vpa.updatePolicy = Nil
                         THEN <<[op |-> "replace", path |-> <<"spec", "updatePolicy">>,
                                 value |-> [updateMode |-> "Auto"]]>>
                         ELSE <<>>]

getPatchesForVPADefaults(rv) ==
    LET e == IF rv.parseErr THEN "cannot unmarshal"
             ELSE validateVPA(rv.vpa, rv.operation = "CREATE")
    IN IF e # Nil THEN [err |-> e, patches |-> <<>>]
       ELSE [err |-> Nil,
             patches |-> IF rv.vpa.updatePolicy = Nil
                         THEN <<[op |-> "add", path |-> <<"spec", "updatePolicy">>,
                                 value |-> [updateMode |-> "Auto"]]>>
                         ELSE <<>>]

(* admit: allowed unless a VPA object is rejected; errors on pods and on  *)
(* unknown or unparsable reviews leave the request allowed and unpatched. *)
Response(allowed, patch, message) ==
    [allowed |-> allowed, patch |-> patch, result |-> message]

admit(rv, ord) ==
    CASE rv.kind = "pod" ->
            LET r == getPatchesForPodResourceRequest(rv, ord) IN
            Response(TRUE, IF r.err THEN <<>> ELSE r.patches, Nil)
      [] rv.kind = "vpa" ->
            LET r == getPatchesForVPADefaults(rv) IN
            IF r.err # Nil THEN Response(FALSE, <<>>, r.err)
            ELSE Response(TRUE, r.patches, Nil)
      [] OTHER -> Response(TRUE, <<>>, Nil)

(* Serve: a request whose Content-Type is not application/json gets no    *)
(* response body at all.                                                   *)
ServeResponse(rv, ord) ==
    IF rv.kind = "badContentType" THEN NoResponse ELSE admit(rv, ord)

(* The key orders `range` may take over the provider's ResourceLists.      *)
KeyOrders(rv) ==
    IF rv.kind # "pod" THEN {<<>>}
    ELSE LET D == DOMAIN rv.recommendation
             AllOrders == UNION {SetToSeqs(S) : S \in SUBSET Resources}
         IN {ord \in [D -> [Requests : AllOrders, Limits : AllOrders]] :
               \A i \in D : /\ Range(ord[i].Requests) = DOMAIN rv.recommendation[i].Requests
                            /\ Range(ord[i].Limits) = DOMAIN rv.recommendation[i].Limits}

-----------------------------------------------------------------------------
(* RFC 6902 "add" on the pod as the apiserver holds it: a container's     *)
(* resources object is always there, requests and limits only when        *)
(* non-empty; adding a member whose parent is missing fails the patch.    *)
Failed == [failed |-> TRUE]
Put(f, k, v) == [x \in DOMAIN f \cup {k} |-> IF x = k THEN v ELSE f[x]]
EmptyList == [r \in {} |-> 0]

PodDocument(pod) ==
    [containers |-> pod.containers,
     annotations |-> IF pod.annotations = Nil THEN Nil ELSE ("other" :> "present")]

ApplyOp(doc, op) ==
    LET p == op.path
        i == p[3] + 1
    IN
    CASE p = <<"metadata", "annotations">> ->
            [doc EXCEPT !.annotations = (op.value[1] :> op.value[2])]
      [] p = <<"metadata", "annotations", "vpaUpdates">> ->
            IF doc.annotations = Nil THEN Failed
            ELSE [doc EXCEPT !.annotations = Put(@, "vpaUpdates", op.value)]
      [] i \notin DOMAIN doc.containers -> Failed
      [] Len(p) = 4 ->
            [doc EXCEPT !.containers[i] = [requests |-> Nil, limits |-> Nil]]
      [] Len(p) = 5 ->
            [doc EXCEPT !.containers[i][p[5]] = EmptyList]
      [] OTHER ->
            IF doc.containers[i][p[5]] = Nil THEN Failed
            ELSE [doc EXCEPT !.containers[i][p[5]] = Put(@, p[6], op.value)]

ApplyPatch(doc, patch) ==
    FoldLeft(LAMBDA d, op : IF d = Failed THEN Failed ELSE ApplyOp(d, op), doc, patch)

-----------------------------------------------------------------------------
TypeOK ==
    /\ request \in AdmissionReviews
    /\ responses \in Seq({NoResponse} \cup
                         [allowed : BOOLEAN, patch : Seq([op : {"add"}, path : Seq(Any), value : Any]),
                          result : {Nil} \cup STRING])
    /\ Len(responses) <= MaxServes

Init ==
    /\ request \in AdmissionReviews
    /\ responses = <<>>

(* One call of Serve on the request, with the map orders of this call.    *)
Serve ==
    /\ Len(responses) < MaxServes
    /\ \E ord \in KeyOrders(request) :
          responses' = Append(responses, ServeResponse(request, ord))
    /\ UNCHANGED request

Next == Serve

Spec == Init /\ [][Next]_vars

-----------------------------------------------------------------------------
(* Properties. *)
Written == {k \in DOMAIN responses : responses[k] # NoResponse}

(* A pod is never blocked by the webhook: every response to a pod review  *)
(* (parsable or not) allows it, and its patch applies to the pod as the    *)
(* apiserver holds it (every "add" finds its parent).  Failure-policy      *)
(* Ignore and the nil-initialising patches of getContainerPatch and        *)
(* appendPatchesAndAnnotations are what this rests on.                     *)
PodCreationNeverBlocked ==
    request.kind \in {"pod", "unparsable", "other"} =>
        \A k \in Written :
            /\ responses[k].allowed
            /\ request.kind = "pod" =>
                  ApplyPatch(PodDocument(request.pod), responses[k].patch) # Failed

(* When the provider answers, the patched pod carries exactly the         *)
(* recommended requests and limits on top of its own, and the vpaUpdates  *)
(* annotation; when the provider fails the pod is left untouched.          *)
Installed(own, rec) ==
    IF own = Nil /\ DOMAIN rec = {} THEN Nil
    ELSE [r \in (IF own = Nil THEN {} ELSE DOMAIN own) \cup DOMAIN rec |->
            IF r \in DOMAIN rec THEN rec[r] ELSE own[r]]

PatchInstallsRecommendation ==
    request.kind = "pod" =>
        \A k \in Written :
            LET pod == PodDocument(request.pod)
                doc == ApplyPatch(pod, responses[k].patch)
            IN IF request.providerErr THEN doc = pod
               ELSE /\ doc # Failed
                    /\ \A i \in DOMAIN pod.containers :
                          /\ doc.containers[i].requests =
                               Installed(pod.containers[i].requests,
                                         request.recommendation[i].Requests)
                          /\ doc.containers[i].limits =
                               Installed(pod.containers[i].limits,
                                         request.recommendation[i].Limits)
                    /\ doc.annotations # Nil
                    /\ "vpaUpdates" \in DOMAIN doc.annotations

(* spec 4.10: a VPA object is admitted iff its update mode and every      *)
(* container scaling mode are in the allowed enumerations, min <= max for *)
(* every resource bounded on both sides, and it names a target when it is *)
(* created; an admitted VPA without an update policy is defaulted to Auto *)
(* and nothing else is patched.  Checked against validateVPA and          *)
(* getPatchesForVPADefaults.                                               *)
SpecValidVpa(rv) ==
    LET vpa == rv.vpa IN
    /\ ~rv.parseErr
    /\ vpa.updatePolicy # Nil => vpa.updatePolicy.updateMode \in possibleUpdateModes
    /\ \A k \in DOMAIN vpa.containerPolicies :
          LET cp == vpa.containerPolicies[k] IN
          /\ cp.containerName # ""    \* a required field of the API type
          /\ cp.mode \in {Nil} \cup possibleScalingModes
          /\ \A r \in DOMAIN cp.minAllowed \cap DOMAIN cp.maxAllowed :
                cp.minAllowed[r] <= cp.maxAllowed[r]
    /\ rv.operation = "CREATE" => rv.vpa.targetRef

VpaAdmittedIffValid ==
    request.kind = "vpa" =>
        \A k \in Written :
            /\ responses[k].allowed <=> SpecValidVpa(request)
            /\ responses[k].allowed =>
                  (responses[k].patch # <<>> <=> request.vpa.updatePolicy = Nil)

(* spec 8, admission purity: serving the same request again yields a      *)
(* byte-identical response.  Serve ranges over Go maps to build both the   *)
(* patch list and the vpaUpdates annotation.                              *)
AdmissionPurity ==
    \A j, k \in Written : responses[j] = responses[k]

====
