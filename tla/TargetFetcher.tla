---------------------------- MODULE TargetFetcher ----------------------------
(***************************************************************************)
(* vpaTargetSelectorFetcher (pkg/target/fetcher.go).  Fetch turns a VPA's  *)
(* targetRef into a label selector: for the seven well-known kinds from    *)
(* the kind's informer store, for any other kind through the REST mapper   *)
(* and the scale subresource.  The informer stores lag the API server, the *)
(* mapper caches discovery until a goroutine resets it, and a scale Get    *)
(* may fail transiently (a bounded number of times, the fault model).      *)
(* A workload is abstracted to the label set its selector is built from.   *)
(***************************************************************************)
EXTENDS Naturals, Sequences, FiniteSets, Functions

CONSTANTS
    WellKnown,      \* the kinds of informersMap
    CustomKinds,    \* kinds only the scale subresource reaches
    TemplateKinds,  \* kinds whose selector is SetAsLabelSelector(template labels)
    LabelSets,      \* label sets a workload's pods may carry
    Served,         \* well-known kinds whose list/watch the API server serves
    Mappings,       \* Mappings[k]: the versions RESTMappings lists for kind k
    ScaleOutcomes,  \* non-transient answers of Scales().Get
    TargetRefs,     \* the VPAs' targetRefs: Nil or [kind, gvOK]
    MaxFaults,      \* bound on transient scale Get failures
    Nil, Nothing

ASSUME \A k \in CustomKinds : Len(Mappings[k]) > 0

VARIABLES
    api,        \* api[k]: the target object of kind k on the API server
    store,      \* store[k]: informersMap[k]'s store
    discovery,  \* the custom kinds the API server serves
    mapper,     \* the DeferredDiscoveryRESTMapper's cache: Nil after Reset
    scale,      \* scale[k]: what Scales().Get answers for kind k
    faults,     \* transient scale Get failures so far
    started,    \* NewVpaTargetSelectorFetcher has returned
    fetched     \* fetched[ref]: the last Fetch result for ref

vars == <<api, store, discovery, mapper, scale, faults, started, fetched>>

\* The cache-free specification; the caches store, mapper and faults are
\* hidden and the last answers are its selectors.
Abs == INSTANCE TargetSelector WITH selectors <- fetched

Kinds == Abs!Kinds

Sel(s) == Abs!Sel(s)

Err(e) == Abs!Err(e)

TypeOK ==
    /\ api \in [Kinds -> LabelSets \cup {Nil}]
    /\ store \in [WellKnown -> LabelSets \cup {Nil}]
    /\ discovery \subseteq CustomKinds
    /\ mapper \in SUBSET CustomKinds \cup {Nil}
    /\ scale \in [CustomKinds -> Abs!ScaleAnswers]
    /\ faults \in 0..MaxFaults
    /\ started \in BOOLEAN
    /\ fetched \in [TargetRefs -> Abs!Results]

\* getLabelSelector: GetByKey on the kind's store, then the selector.
getLabelSelector(k) ==
    IF store[k] = Nil THEN Err("NotExist") ELSE Sel(Abs!AsSelector(k, store[k]))

\* The loop over mappings.  All mappings of one GroupKind share its
\* GroupResource, so each pass repeats the same Get; the first `fails`
\* passes fail transiently.  A Get without error returns (the parse error
\* included); otherwise the last pass's error is returned.
getLabelSelectorFromResourceNoLastError(k, snap, fails) ==
    LET n == Len(Mappings[k])
        answer == IF api[k] = Nil THEN "NotFound" ELSE scale[k]
    IN  IF k \notin snap THEN Err("NoKindMatch")
        ELSE IF fails < n /\ answer = "ok" THEN Sel(api[k])
        ELSE IF fails < n /\ answer = "Unparsable" THEN Err("ParseSelector")
        ELSE Sel(Nil)

getLabelSelectorFromResourceIgnoringParse(k, snap, fails) ==
    LET n == Len(Mappings[k])
        answer == IF api[k] = Nil THEN "NotFound" ELSE scale[k]
    IN  IF k \notin snap THEN Err("NoKindMatch")
        ELSE IF fails < n /\ answer \in {"ok", "Unparsable"} THEN Sel(api[k])
        ELSE Err(IF fails < n THEN answer ELSE "transient")

\* Mutant: an unparsable selector is returned together with its error.
getLabelSelectorFromResourceKeepsSelector(k, snap, fails) ==
    LET n == Len(Mappings[k])
        answer == IF api[k] = Nil THEN "NotFound" ELSE scale[k]
    IN  IF k \notin snap THEN Err("NoKindMatch")
        ELSE IF fails < n /\ answer = "ok" THEN Sel(api[k])
        ELSE IF fails < n /\ answer = "Unparsable" THEN [sel |-> api[k], err |-> "ParseSelector"]
        ELSE Err(IF fails < n THEN answer ELSE "transient")

getLabelSelectorFromResource(k, snap, fails) ==
    LET n == Len(Mappings[k])
        answer == IF api[k] = Nil THEN "NotFound" ELSE scale[k]
    IN  IF k \notin snap THEN Err("NoKindMatch")
        ELSE IF fails < n /\ answer = "ok" THEN Sel(api[k])
        ELSE IF fails < n /\ answer = "Unparsable" THEN Err("ParseSelector")
        ELSE Err(IF fails < n THEN answer ELSE "transient")

\* Fetch: no targetRef, a well-known kind, an unparsable apiVersion, or
\* the scale subresource path.
Fetch(ref, snap, fails) ==
    CASE ref = Nil               -> Err("NoTargetRef")
      [] ref.kind \in WellKnown  -> getLabelSelector(ref.kind)
      [] ~ref.gvOK               -> Err("ParseGV")
      [] OTHER                   -> getLabelSelectorFromResource(ref.kind, snap, fails)

UsesMapper(ref) == ref # Nil /\ ref.kind \in CustomKinds /\ ref.gvOK

Init ==
    /\ Abs!Init
    /\ store = [k \in WellKnown |-> Nil]
    /\ mapper = Nil
    /\ faults = 0
    /\ started = FALSE

\* NewVpaTargetSelectorFetcher: WaitForCacheSync on each informer blocks
\* until its first list arrives; its stop channel is never closed.
NewFetcher ==
    /\ ~started
    /\ WellKnown \subseteq Served
    /\ store' = [k \in WellKnown |-> api[k]]
    /\ started' = TRUE
    /\ UNCHANGED <<api, discovery, mapper, scale, faults, fetched>>

\* A user creates the target workload; a CRD is installed.
CreateTarget(k, l) == Abs!CreateTarget(k, l) /\ UNCHANGED <<store, mapper, faults, started>>

InstallCRD(k) == Abs!InstallCRD(k) /\ UNCHANGED <<store, mapper, faults, started>>

\* An informer delivers the watch event for its kind.
InformerSync(k) ==
    /\ started
    /\ store[k] # api[k]
    /\ store' = [store EXCEPT ![k] = api[k]]
    /\ UNCHANGED <<api, discovery, mapper, scale, faults, started, fetched>>

\* The goroutine: wait.Until(mapper.Reset, discoveryResetPeriod).
ResetMapperKeepsCache ==
    /\ mapper # Nil
    /\ UNCHANGED vars

ResetMapper ==
    /\ mapper # Nil
    /\ mapper' = Nil
    /\ UNCHANGED <<api, store, discovery, scale, faults, started, fetched>>

\* One call of Fetch.  RESTMappings loads discovery into an empty mapper.
FetchTarget(ref, fails) ==
    LET snap == IF mapper = Nil THEN discovery ELSE mapper
        retries == UsesMapper(ref) /\ ref.kind \in snap
        used == IF retries THEN fails ELSE 0
    IN  /\ started
        /\ IF retries THEN fails <= Len(Mappings[ref.kind]) ELSE fails = 0
        /\ faults + used <= MaxFaults
        /\ fetched' = [fetched EXCEPT ![ref] = Fetch(ref, snap, fails)]
        /\ mapper' = IF UsesMapper(ref) THEN snap ELSE mapper
        /\ faults' = faults + used
        /\ UNCHANGED <<api, store, discovery, scale, started>>

Next ==
    \/ NewFetcher
    \/ \E k \in Kinds, l \in LabelSets : CreateTarget(k, l)
    \/ \E k \in CustomKinds : InstallCRD(k)
    \/ \E k \in WellKnown : InformerSync(k)
    \/ ResetMapper
    \/ \E ref \in TargetRefs, f \in 0..MaxFaults : FetchTarget(ref, f)

\* Each informer, the reset goroutine and the callers of Fetch (every
\* recommender and updater iteration) keep running.
Fairness ==
    /\ WF_vars(NewFetcher)
    /\ \A k \in WellKnown : WF_vars(InformerSync(k))
    /\ WF_vars(ResetMapper)
    /\ \A ref \in TargetRefs : WF_vars(\E f \in 0..MaxFaults : FetchTarget(ref, f))

Spec == Init /\ [][Next]_vars /\ Fairness

(***************************************************************************)
(* Properties.                                                             *)
(***************************************************************************)

\* The interface contract of VpaTargetSelectorFetcher.Fetch (fetcher.go:53):
\* when the error is nil the selector is not nil, and an error comes
\* without a selector.  The loop over mappings must keep its lastError.
FetchContract ==
    \A ref \in TargetRefs :
        fetched[ref] # Abs!Unfetched => ((fetched[ref].err = Nil) <=> (fetched[ref].sel # Nil))

\* Refinement: with its caches hidden, the fetcher implements TargetSelector:
\* every Fetch answers the target's current selector or an error, so a
\* stale store or mapper, a retry or a parse failure never yields a wrong
\* selector.
AbstractSpec == Abs!Spec

\* What a fresh fetcher would resolve: the target exists, and it is a
\* well-known kind, or its CRD is served and its scale subresource answers.
Resolves(ref) ==
    /\ ref # Nil
    /\ api[ref.kind] # Nil
    /\ \/ ref.kind \in WellKnown
       \/ ref.gvOK /\ ref.kind \in discovery /\ scale[ref.kind] = "ok"

\* Once the cluster stops changing, every VPA whose target resolves is
\* eventually, and from then on, given that target's selector: the
\* informers catch up, the reset goroutine drops stale discovery, and the
\* bounded transient Get failures run out.
EventuallyResolves ==
    \A ref \in TargetRefs :
        <>[](Resolves(ref) => fetched[ref] = Sel(Abs!AsSelector(ref.kind, api[ref.kind])))

\* NewVpaTargetSelectorFetcher either returns or exits through the
\* klog.Fatalf on an unsynced cache (fetcher.go:121).
NewFetcherReturns == <>started
=============================================================================
