----------------------------- MODULE UpdaterMain -----------------------------
(***************************************************************************)
(* The updater process (updater/main.go): the health check is created,    *)
(* the start-up blocks on the informer syncs of the target fetcher and the *)
(* LimitRange calculator, and then a time.Tick loop runs Updater.RunOnce   *)
(* under a context whose deadline is one updater interval, reporting       *)
(* activity to the health check after each run.                            *)
(*                                                                         *)
(* Updater.RunOnce is not under src/; it is modelled from spec 4.9 and 5:  *)
(* it lists VPAs and pods and ranks them (bounded I/O), then evicts the    *)
(* chosen pods one by one behind the global token bucket, whose Wait(ctx)  *)
(* fails at once when the next token would come after the deadline; the   *)
(* run then returns.  Time is a discrete clock; ages saturate at AgeCap.   *)
(***************************************************************************)
EXTENDS Naturals

CONSTANTS
    UpdaterInterval,    \* --updater-interval
    EvictionRateLimit,  \* --eviction-rate-limit, as tokens per TokenPeriod
    EvictionRateBurst,  \* --eviction-rate-burst
    TokenPeriod,        \* time for one token when the limiter is enabled
    MaxStartup,         \* longest the informer syncs of the start-up take
    MaxListing,         \* longest RunOnce's listing and ranking take
    MaxEvictions        \* most pods one RunOnce sets out to evict

ASSUME UpdaterInterval > 0 /\ TokenPeriod > 0 /\ EvictionRateBurst > 0

\* metrics.NewHealthCheck(*updaterInterval*5, true)
HealthTimeout == 5 * UpdaterInterval

\* A rate limit of 0 or -1 disables the limiter (the flag's help text).
RateLimited == EvictionRateLimit > 0

AgeCap == HealthTimeout + 1

Older(x) == IF x < AgeCap THEN x + 1 ELSE AgeCap

VARIABLES
    phase,          \* "starting", "idle", "listing", "evicting" or "exited"
    phaseAge,       \* time spent in the current start-up or listing phase
    sinceTick,      \* time since the ticker's last period boundary
    tickBuffered,   \* the ticker channel holds a tick
    sinceRunStart,  \* time since RunOnce's context was created
    toEvict,        \* pods RunOnce still means to evict
    tokens,         \* tokens in the bucket
    sinceToken,     \* time towards the next token
    sinceActivity   \* time since the health check's last activity

vars == <<phase, phaseAge, sinceTick, tickBuffered, sinceRunStart, toEvict,
          tokens, sinceToken, sinceActivity>>

TypeOK ==
    /\ phase \in {"starting", "idle", "listing", "evicting", "exited"}
    /\ phaseAge \in 0..MaxStartup
    /\ sinceTick \in 0..(UpdaterInterval - 1)
    /\ tickBuffered \in BOOLEAN
    /\ {sinceRunStart, sinceActivity} \subseteq 0..AgeCap
    /\ toEvict \in 0..MaxEvictions
    /\ tokens \in 0..EvictionRateBurst
    /\ sinceToken \in 0..(TokenPeriod - 1)

\* The health check is created with its last activity set to now, before
\* the start-up; the token bucket starts full.
Init ==
    /\ phase = "starting"
    /\ phaseAge = 0 /\ sinceTick = 0 /\ tickBuffered = FALSE
    /\ sinceRunStart = 0 /\ toEvict = 0
    /\ tokens = EvictionRateBurst /\ sinceToken = 0
    /\ sinceActivity = 0

\* Mutant: Wait blocks for the token whatever the context's deadline.
DeadlineExceededIgnored == FALSE

\* Wait(ctx) fails: the next token would come after the deadline.
DeadlineExceeded ==
    /\ RateLimited /\ tokens = 0
    /\ sinceRunStart + (TokenPeriod - sinceToken) > UpdaterInterval

\* Time passes: the ticker runs once the loop has started, the bucket
\* refills, a start-up or listing phase takes at most its bound, and an
\* eviction waits only for a token that comes before the deadline.
Advance ==
    /\ phase \notin {"exited"}
    /\ phase = "starting" => phaseAge < MaxStartup
    /\ phase = "listing" => phaseAge < MaxListing
    /\ phase = "idle" => ~tickBuffered
    /\ phase = "evicting" => toEvict > 0 /\ tokens = 0 /\ ~DeadlineExceeded
    /\ phaseAge' = IF phase \in {"starting", "listing"} THEN phaseAge + 1 ELSE 0
    /\ sinceTick' = IF phase = "starting" THEN 0 ELSE (sinceTick + 1) % UpdaterInterval
    /\ tickBuffered' = (tickBuffered \/ (phase # "starting" /\ sinceTick' = 0))
    /\ sinceRunStart' = IF phase \in {"listing", "evicting"} THEN Older(sinceRunStart) ELSE 0
    /\ sinceToken' = IF tokens < EvictionRateBurst THEN (sinceToken + 1) % TokenPeriod ELSE 0
    /\ tokens' = IF tokens < EvictionRateBurst /\ sinceToken + 1 = TokenPeriod
                 THEN tokens + 1 ELSE tokens
    /\ sinceActivity' = Older(sinceActivity)
    /\ UNCHANGED <<phase, toEvict>>

\* InClusterConfig fails: klog.Fatalf ends the process.
ConfigFails ==
    /\ phase = "starting" /\ phaseAge = 0
    /\ phase' = "exited"
    /\ UNCHANGED <<phaseAge, sinceTick, tickBuffered, sinceRunStart, toEvict,
                   tokens, sinceToken, sinceActivity>>

\* NewVpaTargetSelectorFetcher and NewLimitsRangeCalculator have synced,
\* NewUpdater has returned, and time.Tick starts.
Started ==
    /\ phase = "starting"
    /\ phase' = "idle"
    /\ phaseAge' = 0
    /\ UNCHANGED <<sinceTick, tickBuffered, sinceRunStart, toEvict, tokens,
                   sinceToken, sinceActivity>>

\* `for range ticker`: context.WithTimeout(..., *updaterInterval), then
\* RunOnce.
RunOnce ==
    /\ phase = "idle" /\ tickBuffered
    /\ phase' = "listing"
    /\ tickBuffered' = FALSE
    /\ sinceRunStart' = 0
    /\ UNCHANGED <<phaseAge, sinceTick, toEvict, tokens, sinceToken, sinceActivity>>

\* RunOnce has ranked the pods and chooses how many to evict.
Listed(n) ==
    /\ phase = "listing"
    /\ phase' = "evicting"
    /\ toEvict' = n
    /\ phaseAge' = 0
    /\ UNCHANGED <<sinceTick, tickBuffered, sinceRunStart, tokens, sinceToken, sinceActivity>>

\* Mutant: the pod is evicted without taking a token.
EvictWithoutToken ==
    /\ phase = "evicting" /\ toEvict > 0
    /\ toEvict' = toEvict - 1
    /\ tokens' = IF RateLimited THEN tokens - 1 ELSE tokens
    /\ UNCHANGED <<phase, phaseAge, sinceTick, tickBuffered, sinceRunStart, sinceToken, sinceActivity>>

\* evictionRateLimiter.Wait(ctx) returns at once with a token, and the pod
\* is evicted.
Evict ==
    /\ phase = "evicting" /\ toEvict > 0
    /\ ~RateLimited \/ tokens > 0
    /\ toEvict' = toEvict - 1
    /\ tokens' = IF RateLimited THEN tokens - 1 ELSE tokens
    /\ UNCHANGED <<phase, phaseAge, sinceTick, tickBuffered, sinceRunStart, sinceToken, sinceActivity>>

\* RunOnce returns (nothing left to evict, or Wait failed); the loop calls
\* healthCheck.UpdateLastActivity().  The deferred cancel never runs.
RunDone ==
    /\ phase = "evicting"
    /\ toEvict = 0 \/ DeadlineExceeded
    /\ phase' = "idle"
    /\ toEvict' = 0
    /\ sinceActivity' = 0
    /\ sinceRunStart' = 0
    /\ UNCHANGED <<phaseAge, sinceTick, tickBuffered, tokens, sinceToken>>

Next ==
    \/ Advance \/ ConfigFails \/ Started \/ RunOnce
    \/ \E n \in 0..MaxEvictions : Listed(n)
    \/ Evict \/ RunDone

Spec == Init /\ [][Next]_vars

-----------------------------------------------------------------------------
(* The health check never reports the running updater as unhealthy: the  *)
(* start-up, the wait for the first tick and every RunOnce fit in          *)
(* 5 * updaterInterval between two activity reports.  It rests on the      *)
(* context deadline of main.go cutting the rate-limited evictions short.   *)
HealthyWhileRunning == phase # "exited" => sinceActivity <= HealthTimeout
=============================================================================
