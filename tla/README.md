# TLA+ models of the Vertical Pod Autoscaler

This directory holds TLA+ models of the Vertical Pod Autoscaler (VPA) in this
repository, and the TLC configurations that check them. The VPA has three
processes that meet only through the API server:

* The **Recommender** (`pkg/recommender/routines/recommender.go`, and its
  `main.go`, which is appended to the same file) runs `RunOnce` on a ticker.
  Each run loads the VPAs, pods and metrics into an in-memory cluster model,
  writes recommendations to each VPA's status, checkpoints the aggregated
  histograms, and garbage-collects stale aggregates.
* The **Updater** (`pkg/updater/main.go`, `pkg/updater/priority/`) runs once
  per tick. For every VPA it offers the matching pods to an
  `UpdatePriorityCalculator`. The calculator keeps the pods worth updating and
  sorts them by priority. The Updater then evicts the pods at the head of the
  list, within the eviction tolerance.
* The **Admission controller** (`src/unnamed/part_000`, its `main` and the
  LimitRange calculator in `src/unnamed/part_001`) is a mutating webhook.
  * It patches every new pod with the current recommendation.
  * It validates and defaults VPA objects.
  * It reads LimitRanges through the calculator. The Updater's capping
    processor uses the same calculator.

A recommendation flows from the Recommender (VPA status) to the Updater, which
evicts pods, and then to the Admission controller, which sets the requests of
the recreated pod. Each link goes through an informer cache, so each one can be
stale.

## Inventory

| Component | Source | State | Operations | Hard behaviour |
|---|---|---|---|---|
| Update-priority calculator | `updater/priority/update_priority_calculator.go` | `calc.pods`, the config | `AddPod`, `GetSortedPods`, `getUpdatePriority`, `byPriority.Less` | Missing requests; the 12h and quick-OOM boundaries; float diff; unstable sort |
| Admission webhook | `unnamed/part_000` | none; each request stands alone | `Serve`, `admit`, pod patching, `validateVPA`, VPA defaults | Patch parents before children; map order; error policy per path; bad content type |
| LimitRange calculator | `unnamed/part_001` (lines 229-364) | the lister cache | `getLimitRangeItem` (container / pod) | Lister order; a partial merge; `Default` is last-wins |
| Recommender loop | `recommender/routines/recommender.go` | `lastAggregateContainerStateGC`, `lastCheckpointGC`, the ticker | `RunOnce`, `MaintainCheckpoints`, `GarbageCollect`, `Make`, `main` | Dropped ticks; the deadline spans the loads; strict `>` timers |
| Recommender status write-back | `recommender/routines/recommender.go` | `ObservedVpas`, the VPA lister | `UpdateVPAs`, `getCappedRecommendation` | The observed status is the lister's stale copy; failed patches are only logged; the status list follows Go map order |
| Updater loop | `updater/main.go` | the ticker, the health check | start-up, ticker loop calling `Updater.RunOnce` under a deadline | The health clock starts before the blocking start-up; `defer cancel()` inside the loop; the rate limiter is disabled when ≤ 0 |
| Target selector fetcher | `target/fetcher.go` | informer stores, the REST mapper | `NewVpaTargetSelectorFetcher`, `Fetch`, `getLabelSelector`, `getLabelSelectorFromResource` | Informer syncs that never finish; the mapper is reset every 5 minutes; the mapping loop retries one Get; a CronJob template without labels selects no pod |
| Generated clientset | `client/clientset/versioned/clientset.go` | none | none | none; not modelled |
| Bootstrap (both `main`s) | `unnamed/part_001`, `updater/main.go` | flags | setup | I/O only; not modelled |

Code that the spec describes but that is not under `src/` is modelled only
where a model of `src/` needs it, and is marked `spec_modelled` in
`PROJECT.json`. This covers the cluster model, the decaying histograms, the
checkpoint writer, the feeder, `Updater.RunOnce` and the eviction restriction.

## Modules

Each module is checked through an `MC<Module>.tla` instance and one or more
`.cfg` files.

### `UpdatePriority`: the priority calculator, per VPA per tick

* **State.**
  * `pending`: the pods not yet offered.
  * `calcPods`: `calc.pods`.
  * `admitted`: the admission filter.
  * `result`: the list `GetSortedPods` returns.
  * `verdict`: a history variable holding what spec 4.8 says of each pod.
* **`AddPod(p, spec, err)`** is the whole of `AddPod`. The pod (containers,
  requests, recommendation, age and last termination) is chosen from small
  sets. `err` is the recommendation processor failing.
* **`GetSortedPods(adm)`** models `sort.Sort` followed by the admission filter.
  The sort may return any permutation with no inversion under
  `byPriority.Less`.
* **`resourceDiff`** is an exact fraction. The model does not reproduce
  float64 rounding; that hazard is listed without a property.
* **The lifetime threshold.** `podLifetimeUpdateThreshold` is 12h in the code
  (line 36) and in spec 4.8, and `Age` is checked against 12h at the 11/12
  boundary. The comment above the eviction rules (lines 106 and 111) still
  says 24h; it is stale, and the model follows the code and the spec.

### `AdmissionServer`: the webhook

* **State.**
  * `request`: one AdmissionReview, chosen in `Init`. It is a pod with the
    provider's answer, a VPA create or update, another kind, an unparsable
    review, or a wrong content type.
  * `responses`: what each call of `Serve` wrote.
* **`Serve`** picks the iteration order of every Go map it ranges over.
* **`ApplyPatch`** gives RFC 6902 `add` its meaning on the pod as the API
  server holds it. The properties therefore speak of the patched pod, not of
  the patch text.

### `LimitRange`: `getLimitRangeItem`

* `Init` chooses the lister's list in any order, the limit type, and whether
  `List` fails.
* `List` flattens the list into `pending`.
* `MergeItem` runs one pass of the loop body.
* `Return` applies the nil rule.

### `Recommender`: the main loop

* **Clock.** Time is a discrete clock (`Advance`). The clock readings the code
  keeps are stored as saturating ages.
* **Start-up.** `Make` sets both GC times. The history load
  (`InitFromCheckpoints`, or `InitFromHistoryProvider` with Prometheus storage)
  then takes up to `MaxStartup` before `StartLoop` creates the ticker. The GC
  timers keep the age they reached during the load, so after a long start-up
  the first `RunOnce` collects at once.
* **Ticker.** The ticker's channel holds one tick and drops the rest.
* **`RunOnce`** takes the checkpoint deadline. The phases `LoadVPAs`,
  `LoadPods`, `LoadRealTimeMetrics`, `UpdateVPAs`, `WriteCheckpoint` /
  `MaintainCheckpoints` and `GarbageCollect` then follow in the code's order.
* **Checkpoint writer.** It is not under `src/`, so it is modelled from spec
  4.6:
  * it writes the least recently written dirty aggregate first;
  * it writes at least `minCheckpointsPerRun` aggregates;
  * it stops at the deadline, or when no aggregate is dirty.
* **`UpdateVPAs`** is only the call in `RunOnce` that takes time here and
  hands on to `MaintainCheckpoints`. Its status write-back is the module
  `VpaStatusUpdate`.

### `VpaStatusUpdate`: `UpdateVPAs`' status write-back, for one VPA

* **State.**
  * `server`: the VPA's status on the API server.
  * `watch`: the patches the lister has not seen yet, in order.
  * `lister`: the status the lister holds.
  * `observed`: the copy `LoadVPAs` put into `ObservedVpas`.
  * `recommended`: what the last `UpdateVPAs` computed.
* **`LoadVPAs`** (the feeder, spec 4.5) copies the lister.
* **`UpdateVPAs(new, ok)`** is the loop body for this VPA. It computes a
  status (any of `Statuses`: the recommendation and the conditions), patches
  only when it differs from `observed` (`UpdateVpaStatusIfNeeded`), and the
  patch may fail and be logged (`ok = FALSE`, at most `MaxFailures` times).
* **`Deliver`**: the watch delivers the oldest patch to the lister.

### `TargetFetcher` and `TargetSelector`: the target selector fetcher

* **State.**
  * `api`: each kind's target on the API server, as the label set its
    selector is built from.
  * `store`: the informer stores of the well-known kinds.
  * `discovery` and `mapper`: the served custom kinds, and the REST mapper's
    cached copy (`Nil` after `Reset`).
  * `scale`: what the scale subresource of each custom kind answers.
  * `faults`: transient scale `Get` failures so far (at most `MaxFaults`).
  * `fetched`: the last `Fetch` result for each targetRef.
* **`NewFetcher`**: the constructor returns once every informer has synced.
  `WaitForCacheSync` never returns false, because its stop channel is never
  closed, so a kind the API server does not serve blocks it for ever.
* **`FetchTarget(ref, fails)`** is one call of `Fetch`, loading discovery into
  an empty mapper. All mappings of a kind share one `GroupResource`, so the
  loop over mappings repeats one `Get`. `fails` of those passes fail
  transiently.
* **`InformerSync`**, **`ResetMapper`** (the `wait.Until` goroutine),
  **`CreateTarget`** and **`InstallCRD`** are the other steps.
* **`TargetSelector`** is the specification without caches. Each answer is the
  target's current selector or an error. `TargetFetcher` instantiates it with
  `selectors <- fetched` and checks `Abs!Spec` as a property (`AbstractSpec`),
  with `store`, `mapper` and `faults` hidden.
* **Selectors.** A selector is the label set it matches. A CronJob whose
  job template has no labels reaches the informer as a nil map;
  `SetAsLabelSelector(nil)` is nil and `LabelSelectorAsSelector(nil)` is
  `labels.Nothing()`, the model value `Nothing` (`AsSelector`). A custom
  kind's empty scale `status.selector` parses to `labels.Everything()`, the
  empty label set.

### `UpdaterMain`: the updater process

* **Start-up.** The health check is created first (`main.go:76`), then the
  start-up blocks on informer syncs for up to `MaxStartup`. `ConfigFails` is
  `InClusterConfig`'s `Fatalf`.
* **Loop.** `time.Tick` buffers one tick. `RunOnce` creates a context whose
  deadline is one interval. `RunDone` reports activity to the health check.
* **`Updater.RunOnce`** is not under `src/`; it is modelled from spec 4.9 and 5:
  * a bounded listing phase;
  * `Listed(n)` chooses how many pods to evict;
  * `Evict` takes a token from the bucket;
  * `DeadlineExceeded` is `Wait(ctx)` failing because the next token comes
    after the deadline.

### `CappedRecommendation`: `getCappedRecommendation`

* **Pure operators**, with no state. `GetRecommendedPodResources`' result is a
  function from container names to `[lowerBound, target, upperBound]`. That
  function is a Go map.
* **`RecommendationLists`** is the range loop. It gives every list the loop
  may build, one for each order `SetToSeqs` allows. Each `Entry` copies the
  target into `uncappedTarget`.
* **`ApplyVPAPolicy`** is modelled from spec 4.4, steps 1 and 2, because it
  is not under `src/`:
  * a container in mode `Off` is dropped;
  * the three values are clamped to `[minAllowed, maxAllowed]`;
  * an upper bound below the lower bound is raised to it.
* **`getCappedRecommendation`** is the set of the capped lists. The fallback
  to the uncapped list is left out, because `ApplyVPAPolicy` never fails.

### `VpaClosedLoop`: the three processes around one VPA

* **Composition.** It INSTANCEs `VpaStatusUpdate` for the recommender's side,
  with its variables shared. It INSTANCEs `UpdatePriority` for the Updater's
  `AddPod` decision, with only its pure operators used. Pods have one
  container, `"c"`, and one resource.
* **Statuses.** The statuses are the lists `getCappedRecommendation` may
  return for the results in `Computed` under `Policy`.
  * The VPA may still recommend for a container the template no longer has,
    as long as that container's aggregate has samples (spec 4.3). The status
    then lists two entries, in either order.
  * `UpdateVpaStatusIfNeeded` compares lists, order included. So the
    recommender may rewrite an unchanged recommendation, and the listers
    then see a new status.
  * Admission and `AddPod` read the entry for `"c"` by name (`Rec`).
  * Spec 4.7 says the status is written "only if it differs from the
    observed status". A reordered list with the same entries is written
    again. This is listed as an ordering hazard in `PROJECT.json`.
    `EvictionsStop` shows that these rewrites cause no eviction loop.
* **Listers.** The Updater (`updLister`) and the admission controller
  (`admLister`) each copy the server's status at some later step
  (`SyncUpdater`, `SyncAdmission`).
* **`UpdaterRunOnce(S)`** evicts a set of pods that `AddPod` would keep under
  the Updater's lister. The set is bounded by the eviction restriction of
  spec 4.9: at most `max(1, ⌊tolerance·|G|⌋)`, leaving `max(1, minReplicas)`
  running. Which eligible pods go first is left open.
* **`Recreate(p)`**: the controller recreates an evicted pod, and admission
  sets its request to the target in `admLister`. With no recommendation there
  is no patch, so the template's request stays.
* **`Age(p)`**: a pod passes the 12h lifetime threshold.
* **Performance.** `AddPod`'s decision is tabulated once over (request,
  status, age), because TLC would otherwise re-evaluate the instantiated
  calculator inside every fairness condition.

## Runs

Every property of a passing run has a mutant in `PROJECT.json`: a plausible
bug in the mapped code that TLC catches.

| Run | Checks | Shows |
|---|---|---|
| `updatepriority` | `TypeOK`, `PriorityOrder`, `CandidatesAreEligible` | The candidates are exactly the admitted eligible pods, each once, in spec order (scale-up first, then larger diff). |
| `updatepriority_norequest` (violation) | `CandidatesAreEligible` | A container with no request counts as outside its range even when the range starts at 0. The code's own comment and spec 4.8 say a missing request counts as 0. |
| `updatepriority_zerorequest` (violation) | `CandidatesAreEligible` | An old pod whose request 0 equals its recommendation 0 gets resourceDiff 1, not spec 4.8's 0, and is kept as a candidate: `max(totalRequest, 1)` replaces the request inside the difference as well as in the divisor. |
| `admission` | `TypeOK`, `PodCreationNeverBlocked`, `PatchInstallsRecommendation`, `VpaAdmittedIffValid` | Pods are always allowed, with a patch that applies and installs exactly the recommendation plus the annotation. A VPA is admitted exactly when spec 4.10's rules hold, and is defaulted to `Auto` when it has no update policy. |
| `admission_purity` (violation) | `AdmissionPurity` | Two servings of one pod review give differently ordered patches, so spec 8's "byte-identical patches" does not hold. |
| `limitrange` | `TypeOK`, `CpuMemoryBoundsTightest` | For cpu and memory, the merged item has the lowest Max and the highest Min of the matching items, whatever the lister's order. |
| `limitrange_all_resources` (violation) | `SameEffectAsAllItems` | For any other resource, only the first matching item's bound survives. The calculator's doc comment promises "the same effect as all items". |
| `recommender` | `TypeOK`, `GCNeverOverdue`, `DirtyEventuallyCheckpointed` | Once the loop runs, both GC timers fire within one loop iteration of their interval, after a start-up longer than either interval too (the bound is tight). Every dirty aggregate is eventually checkpointed, even when every run's loads use up the deadline. |
| `closedloop` | `TypeOK`, `StatusEventuallyWritten`, `EvictionsStop` | A computed status reaches the API server unless a later run replaces it, even when a stale observed status makes `UpdateVPAs` skip the patch, or the patch fails. Once the status's content stops changing, evictions stop and every pod runs. This holds even while the recommender keeps rewriting the same recommendation in another container order. A pod recreated from the admission controller's stale lister is eligible again under the new status (this state is reachable) and is evicted again, but only until the listers catch up. |
| `targetfetcher` | `TypeOK`, `FetchContract`, `AbstractSpec`, `EventuallyResolves` | A nil error always comes with a selector. The fetcher refines `TargetSelector`: no stale cache, retry or parse failure yields a wrong selector. Once the cluster stops changing, each resolvable target is eventually fetched. |
| `targetfetcher_unserved` (violation) | `NewFetcherReturns` | If one informer's kind is not served, `NewVpaTargetSelectorFetcher` never returns and never reaches its `Fatalf`. |
| `updatermain` | `TypeOK`, `HealthyWhileRunning` | The health check never times out while the updater runs. The deadline of one interval cuts rate-limited evictions short, and the bound is tight: a 3.5-interval start-up passes, a 4-interval start-up fails. |

## Bounds

| Model | Bounds | Why they are enough |
|---|---|---|
| `UpdatePriority` | 3 pods (symmetric model values); 1 or 2 containers; 1 resource; requests and bounds in {1, 2}; ages {none, 11, 12} h; OOM run times {9, 10} min; MinChangePriority 1/4 | Sums over two containers reach 1/4 exactly. The ages straddle the 12h boundary and the run times straddle the 10 min boundary. Three pods give every mix of scale-up and scale-down. The violation runs use 1 pod, with 0 among the bounds, and either no-request or 0 among the requests. |
| `AdmissionServer` | 1–2 containers; 2 resources; pod lists {nil, cpu}; provider lists of 0, 1 and 2 resources; update modes with one invalid value; policy bounds with min > max; 2 servings | Every combination of nil and non-nil requests and limits, and of existing or missing annotations, occurs. Two-key maps give two iteration orders. |
| `LimitRange` | 3 resources (cpu, memory, storage); up to 2 LimitRanges of 1 item; lists that overlap pairwise; 2 limit types | Two items are enough to show both the merge and the dependence on order. |
| `VpaClosedLoop` | 2 replicas; containers `"c"` and a removed `"sidecar"`; policy [2, 3] for `"c"`; 2 computed results. r1 gives `"c"` [2, 2, 3] plus the sidecar, so it has 2 list orders. r2 gives `"c"` [3, 4, 4], capped to [3, 3, 3], with no sidecar. Template request 1; tolerance 1/2; `minReplicas` 1; MinChangePriority 1/4; 1 undelivered watch event; 1 failed patch | The template is outside both ranges. s1's target is outside s2's range, so a stale patch is evicted again. s2's target is inside s1's range but past MinChangePriority, so only old pods are evicted for it. A status can flip back while a lister still shows the old one. |
| `TargetFetcher` | Deployment (non-empty selector), CronJob (template labels may be empty, which converts to `labels.Nothing()`), one custom kind with 2 versions; label sets {∅, {app}}; 5 targetRefs (nil, each kind, a bad apiVersion); 2 transient failures | A CRD can appear after the mapper loaded discovery, a target after the informer listed, and both loop passes can fail. |
| `UpdaterMain` | Interval 2 (half-minute units), health timeout 10; one token per 3 units, burst 1; up to 4 evictions; start-up up to 7 | One run's evictions outlast its deadline, and the start-up sits at the largest value that passes. |
| `Recommender` | The clock is in minutes. The ticker interval and the checkpoint timeout are stretched to 2, so ticks drop and the deadline can pass. The GC intervals (10 min and 1 h) are scaled down to 3 and 4. The start-up takes up to 5, longer than both. Each phase takes 0 or 1 unit. 2 aggregates; min-checkpoints 1. | Runs are longer than the interval, GC fires, and writing exactly the floor each run, under starvation pressure, all occur. |

## Fairness

`Recommender`, `VpaClosedLoop` and `TargetFetcher` check liveness. Each
assumes weak fairness of the steps below and nothing else. The environment
(users creating targets, CRDs, the recommendation chosen) gets no fairness.

* `VpaClosedLoop`: the recommender loop and the Updater's ticker keep
  running, the three informers deliver watch events, the workload controller
  recreates evicted pods, and time passes (`Age`). `EvictionsStop` assumes
  that the status's content eventually stops changing, as its premise: the
  recommender may change it for ever, and may reorder it for ever even when
  the content is stable.
* `TargetFetcher`: the constructor, each informer, the reset goroutine (a
  `wait.Until` period) and the callers of `Fetch` keep running. Every
  recommender and updater iteration calls `Fetch` for each VPA. Transient
  failures are bounded by `MaxFaults`, which is the fault model.

`Recommender` assumes weak fairness of every step of the loop and of the clock:

* `RunOnce` is a single goroutine that nothing else blocks.
* Each phase finishes: the model bounds it by `MaxPhaseDuration`.
* The clock keeps running.

`UpdaterMain` checks only safety. Its run says `CHECK_DEADLOCK FALSE`
because the process really stops at `Fatalf`. The other modules also check
only safety, on behaviours that end. One calculator
serves one VPA per tick, one webhook call answers one request, and one
`getLimitRangeItem` call returns. Their runs therefore say
`CHECK_DEADLOCK FALSE`. The Recommender run checks for deadlock.

## Not modelled, and why

* **Generated clientset, both `main` bootstraps, certificates and flags.**
  They are pure I/O or setup.
* **`UpdateVPAs`' recommendation arithmetic.** Its inputs (the cluster model
  and the recommender logic) are outside `src/`, so the computed result is a
  choice from `Computed`. `getCappedRecommendation` is modelled. The capping
  pipeline's LimitRange steps (spec 4.4, steps 3 and 4) run in the
  admission controller's provider, which is not under `src/`.
  * `getCappedRecommendation` falls back to the uncapped recommendation when
    `ApplyVPAPolicy` fails. That library function never returns an error, so
    the branch is not modelled.
  * The skip of VPAs missing from `Vpas` is not modelled either: `LoadVPAs`
    fills `Vpas` and `ObservedVpas` from one list.
* **The Updater's `RunOnce` in detail.** It is outside `src/`. `UpdaterMain`
  only counts evictions. `VpaClosedLoop` models its decision from spec 4.9:
  which candidates `AddPod` keeps, and the tolerance and `minReplicas` limits.
  It leaves out the per-controller grouping and the eviction rate limiter.
* **The unmapped lines of the measured files.** They are imports, flag and
  constant declarations, interface and struct types, and two getters. Some
  README text is appended inside `recommender.go` and
  `update_priority_calculator.go`. The whole of the generated `clientset.go` is
  unmapped. None of these changes state. The model reaches a flag's value only
  as a CONSTANT, such as `MinReplicas` or `CheckpointsWriteTimeout`.
* **`defer cancel()` in the updater loop.** It leaks memory only. No modelled
  state tells a leaked context apart.
* **The recommender's health check and `createKubeConfig`'s `Fatalf`.** The
  health check is created before the history load, and `RunOnce` has no
  overall deadline: only the checkpoint writes have one. Whether the 5-interval health timeout holds
  depends only on how long the loads take, and no code bounds that.
* **Target deletion and label edits.** Informer stores then return outdated
  selectors, which is the informers' documented eventual consistency;
  `TargetSelector` would need a history of selectors to allow them.
* **`VpaClosedLoop`'s simplifications.**
  * A lister jumps to the server's current status. It does not step through
    the intermediate patches.
  * There are no OOMs. Pods have one container and one resource.
  * The eviction API and its disruption budgets never refuse.
* **Float64 rounding in `resourceDiff`.** It is listed as a hazard. The
  model sums exact fractions. A model with a shorter mantissa would round at
  different places than float64, so its verdicts would not be the code's.
* **`LimitRange.Default`.** No property fixes what it must be: its consumer is
  outside `src/`.

## Plan

The order follows what matters most for the system's correctness.

1. **Done:** `UpdatePriority`, `AdmissionServer`,
   `LimitRange`, `Recommender`, `VpaStatusUpdate`, `TargetFetcher` with its
   refinement `TargetSelector`, `UpdaterMain`, `CappedRecommendation`, and
   the composition `VpaClosedLoop`.
2. **`DecayingHistogram`** (spec_modelled). Bucketing and decay as operators,
   checked against a reference over small inputs.
