---------------------------- MODULE TargetSelector ----------------------------
(***************************************************************************)
(* What VpaTargetSelectorFetcher.Fetch promises, stated without its        *)
(* caches: every answer is either the selector of the target as the API    *)
(* server holds it now, or an error.  Stale informer stores, a stale REST  *)
(* mapper and failed scale Gets may only make Fetch fail, never make it    *)
(* answer with a wrong selector.  TargetFetcher implements this module.    *)
(***************************************************************************)
EXTENDS Naturals

CONSTANTS WellKnown, CustomKinds, TemplateKinds, LabelSets, ScaleOutcomes, TargetRefs, Nil,
          Nothing \* labels.Nothing(): the selector that selects no pod

VARIABLES
    api,        \* api[k]: the label set of the target of kind k, or Nil
    discovery,  \* the custom kinds the API server serves
    scale,      \* scale[k]: what the scale subresource of kind k answers
    selectors   \* selectors[ref]: the last answer for targetRef ref

Kinds == WellKnown \cup CustomKinds

\* API validation: a well-known kind's own selector may not be empty.  A
\* template's labels may be empty, and so may the selector string a custom
\* kind's scale subresource reports (it parses to labels.Everything()).
Objects(k) == IF k \in WellKnown \ TemplateKinds THEN LabelSets \ {{}} ELSE LabelSets

\* LabelSelectorAsSelector(SetAsLabelSelector(l)) for a template kind: empty
\* template labels reach the informer as a nil map, SetAsLabelSelector(nil)
\* is nil and LabelSelectorAsSelector(nil) is labels.Nothing().  Any other
\* label set selects the pods carrying all of its labels.
AsSelector(k, l) == IF k \in TemplateKinds /\ l = {} THEN Nothing ELSE l

\* A Fetch result: a selector (a label set) or Nil, and an error or Nil.
Sel(s) == [sel |-> s, err |-> Nil]

Err(e) == [sel |-> Nil, err |-> e]

Unfetched == [sel |-> Nil, err |-> "unfetched"]

ErrorCodes == ScaleOutcomes \cup {"transient", "NoTargetRef", "NotExist", "ParseGV", "NoKindMatch", "ParseSelector"}

Results == {Sel(s) : s \in LabelSets \cup {Nil, Nothing}} \cup {Unfetched} \cup {Err(e) : e \in ErrorCodes}

ScaleAnswers == ScaleOutcomes \cup {"ok", "Unparsable"}

\* The selector a lookup against the API server itself gives, or Nil.
Current(ref) ==
    IF ref = Nil \/ api[ref.kind] = Nil THEN Nil
    ELSE IF ref.kind \in WellKnown \/ (ref.gvOK /\ ref.kind \in discovery /\ scale[ref.kind] = "ok")
         THEN AsSelector(ref.kind, api[ref.kind])
         ELSE Nil

Init ==
    /\ api \in [Kinds -> LabelSets \cup {Nil}]
    /\ \A k \in Kinds : api[k] \in Objects(k) \cup {Nil}
    /\ discovery \in SUBSET CustomKinds
    /\ scale \in [CustomKinds -> ScaleAnswers]
    /\ selectors = [r \in TargetRefs |-> Unfetched]

\* A user creates the target workload.
CreateTarget(k, l) ==
    /\ api[k] = Nil
    /\ l \in Objects(k)
    /\ api' = [api EXCEPT ![k] = l]
    /\ UNCHANGED <<discovery, scale, selectors>>

\* A CRD is installed and discovery starts serving its kind.
InstallCRD(k) ==
    /\ k \notin discovery
    /\ discovery' = discovery \cup {k}
    /\ UNCHANGED <<api, scale, selectors>>

\* Fetch answers one targetRef: its current selector, or an error.
Answer(ref) ==
    /\ \/ Current(ref) # Nil /\ selectors' = [selectors EXCEPT ![ref] = Sel(Current(ref))]
       \/ \E e \in ErrorCodes : selectors' = [selectors EXCEPT ![ref] = Err(e)]
    /\ UNCHANGED <<api, discovery, scale>>

Next ==
    \/ \E k \in Kinds, l \in LabelSets : CreateTarget(k, l)
    \/ \E k \in CustomKinds : InstallCRD(k)
    \/ \E ref \in TargetRefs : Answer(ref)

Spec == Init /\ [][Next]_<<api, discovery, scale, selectors>>
=============================================================================
