----------------------------- MODULE Recommender -----------------------------
(***************************************************************************)
(* The recommender's main loop (recommender/main.go and routines/          *)
(* recommender.go): a time.Tick ticker drives RunOnce, whose phases run in *)
(* order -- LoadVPAs, LoadPods, LoadRealTimeMetrics, UpdateVPAs,           *)
(* MaintainCheckpoints, GarbageCollect -- under a checkpoint-write         *)
(* deadline taken when RunOnce starts.                                     *)
(*                                                                         *)
(* Time is a discrete clock (Advance).  Clock readings the code keeps      *)
(* (lastAggregateContainerStateGC, lastCheckpointGC, the RunOnce deadline, *)
(* the `now` of MaintainCheckpoints) are kept as ages, saturated at a bound *)
(* past every threshold they are compared with; ages nothing reads any     *)
(* more are reset.  A phase takes at most MaxPhaseDuration; the GC calls   *)
(* themselves take no time.  The ticker's channel holds one tick and drops *)
(* the others.                                                             *)
(*                                                                         *)
(* The checkpoint writer and the feeder's metric loading are not under     *)
(* src/: they are modelled from spec 4.5-4.6 (an aggregate becomes dirty   *)
(* when it gets samples; StoreCheckpoints writes dirty aggregates, least   *)
(* recently written first, at least minCheckpointsPerRun of them, until    *)
(* the deadline or until none is dirty).                                   *)
(***************************************************************************)
EXTENDS Naturals, Sequences, SequencesExt

CONSTANTS
    Aggregates,                         \* aggregate container states
    RecommenderInterval,                \* --recommender-interval
    CheckpointsWriteTimeout,            \* --checkpoints-timeout
    MinCheckpointsPerRun,               \* --min-checkpoints
    CheckpointsGCInterval,              \* --checkpoints-gc-interval
    AggregateContainerStateGCInterval,
    UseCheckpoints,                     \* --storage != "prometheus"
    MaxPhaseDuration,                   \* longest a phase of RunOnce takes
    MaxStartup                          \* longest the start-up's history load takes

ASSUME /\ RecommenderInterval > 0 /\ MinCheckpointsPerRun > 0
       /\ UseCheckpoints \in BOOLEAN

VARIABLES
    pc,             \* "Starting", the phase RunOnce is in, or "idle"
    sinceTick,      \* clock time since the ticker's last period boundary
    tickBuffered,   \* the ticker channel holds a tick
    phaseAge,       \* time spent in the current phase
    sinceRunStart,  \* time since RunOnce took its deadline
    sinceMaintain,  \* time since MaintainCheckpoints read `now`
    sinceAggGC,     \* time since lastAggregateContainerStateGC
    sinceCkptGC,    \* time since lastCheckpointGC
    dirty,          \* aggregates with samples not yet checkpointed
    writeOrder,     \* aggregates, least recently checkpointed first
    written,        \* checkpoints written by this StoreCheckpoints call
    sinceCollected, \* history: time since aggregates were last collected
    sinceCkptCollected \* history: time since checkpoints were last collected

vars == <<pc, sinceTick, tickBuffered, phaseAge, sinceRunStart, sinceMaintain,
          sinceAggGC, sinceCkptGC, dirty, writeOrder, written, sinceCollected,
          sinceCkptCollected>>

Phases == <<"LoadVPAs", "LoadPods", "LoadRealTimeMetrics", "UpdateVPAs",
            "StoreCheckpoints", "GarbageCollect">>
\* The longest a RunOnce takes: every phase but GarbageCollect is timed.
RunDuration == 5 * MaxPhaseDuration
\* Ages saturate past the largest threshold or bound they are compared with.
AgeCap == AggregateContainerStateGCInterval + CheckpointsGCInterval
          + RecommenderInterval + RunDuration + 1
Older(x) == IF x < AgeCap THEN x + 1 ELSE AgeCap
Expired == sinceRunStart >= CheckpointsWriteTimeout

-----------------------------------------------------------------------------
(* The checkpoint writer (spec 4.6). *)

\* Mutant: the most recently checkpointed dirty aggregate is written first.
NextToWriteNewestFirst ==
    LET ks == {k \in DOMAIN writeOrder : dirty[writeOrder[k]]}
    IN writeOrder[CHOOSE k \in ks : \A j \in ks : j <= k]

NextToWrite ==
    LET ks == {k \in DOMAIN writeOrder : dirty[writeOrder[k]]}
    IN writeOrder[CHOOSE k \in ks : \A j \in ks : k <= j]

\* Mutant: the written aggregate is appended without being removed.
MoveToBackKeepingOld(order, a) == order \o <<a>>

\* The written aggregate becomes the most recently checkpointed one.
MoveToBack(order, a) == SelectSeq(order, LAMBDA b : b # a) \o <<a>>

CanWrite ==
    /\ \E a \in Aggregates : dirty[a]
    /\ written < MinCheckpointsPerRun \/ ~Expired

-----------------------------------------------------------------------------
TypeOK ==
    /\ pc \in {"Starting", "idle"} \cup Range(Phases)
    /\ sinceTick \in 0..(RecommenderInterval - 1)
    /\ tickBuffered \in BOOLEAN
    /\ phaseAge \in 0..(MaxPhaseDuration + MaxStartup)
    /\ {sinceRunStart, sinceMaintain, sinceAggGC, sinceCkptGC, sinceCollected,
        sinceCkptCollected}
          \subseteq 0..AgeCap
    /\ dirty \in [Aggregates -> BOOLEAN]
    /\ writeOrder \in SetToSeqs(Aggregates)
    /\ written \in 0..MinCheckpointsPerRun

(* main: the health check is created, then NewRecommender, whose Make     *)
(* sets both GC times to time.Now(); the history load has not returned and *)
(* the ticker does not exist yet.                                          *)
Init ==
    /\ pc = "Starting"
    /\ sinceTick = 0
    /\ tickBuffered = FALSE
    /\ phaseAge = 0
    /\ sinceRunStart = 0
    /\ sinceMaintain = 0
    /\ sinceAggGC = 0
    /\ sinceCkptGC = 0
    /\ dirty = [a \in Aggregates |-> FALSE]
    /\ writeOrder \in SetToSeqs(Aggregates)
    /\ written = 0
    /\ sinceCollected = 0
    /\ sinceCkptCollected = 0

(* One unit of time passes.  The ticker runs once it is created.  An idle *)
(* loop receives a buffered tick at once; the start-up cannot outlast     *)
(* MaxStartup, nor a phase MaxPhaseDuration.                               *)
Advance ==
    /\ pc = "idle" => ~tickBuffered
    /\ pc = "Starting" => phaseAge < MaxStartup
    /\ pc \notin {"idle", "Starting"} => phaseAge < MaxPhaseDuration /\ pc # "GarbageCollect"
    /\ sinceTick' = IF pc = "Starting" THEN 0 ELSE (sinceTick + 1) % RecommenderInterval
    /\ tickBuffered' = (tickBuffered \/ (pc # "Starting" /\ sinceTick' = 0))
    /\ phaseAge' = IF pc = "idle" THEN 0 ELSE phaseAge + 1
    /\ sinceRunStart' = IF pc \in {"idle", "Starting"} THEN 0 ELSE Older(sinceRunStart)
    /\ sinceMaintain' = IF pc = "StoreCheckpoints" THEN Older(sinceMaintain) ELSE 0
    /\ sinceAggGC' = Older(sinceAggGC)
    /\ sinceCkptGC' = Older(sinceCkptGC)
    /\ sinceCollected' = Older(sinceCollected)
    /\ sinceCkptCollected' = Older(sinceCkptCollected)
    /\ UNCHANGED <<pc, dirty, writeOrder, written>>

(* InitFromCheckpoints (the aggregates it loads are clean) or, with       *)
(* Prometheus storage, InitFromHistoryProvider returns; time.Tick creates  *)
(* the ticker.  The GC times keep the age they reached during the load.    *)
(* The history of collections is measured from here.                      *)
StartLoop ==
    /\ pc = "Starting"
    /\ pc' = "idle"
    /\ phaseAge' = 0
    /\ sinceCollected' = 0
    /\ sinceCkptCollected' = 0
    /\ UNCHANGED <<sinceTick, tickBuffered, sinceRunStart, sinceMaintain,
                   sinceAggGC, sinceCkptGC, dirty, writeOrder, written>>

(* `for range ticker { recommender.RunOnce() }`: RunOnce takes its        *)
(* deadline, time.Now() + checkpointsWriteTimeout, before anything else.  *)
RunOnce ==
    /\ pc = "idle"
    /\ tickBuffered
    /\ tickBuffered' = FALSE
    /\ pc' = "LoadVPAs"
    /\ phaseAge' = 0
    /\ sinceRunStart' = 0
    /\ UNCHANGED <<sinceTick, sinceMaintain, sinceAggGC, sinceCkptGC, dirty,
                   writeOrder, written, sinceCollected, sinceCkptCollected>>

(* A phase whose effect on the modelled state is only to end. *)
EndPhase(from, to) ==
    /\ pc = from
    /\ pc' = to
    /\ phaseAge' = 0
    /\ UNCHANGED <<sinceTick, tickBuffered, sinceRunStart, sinceMaintain,
                   sinceAggGC, sinceCkptGC, dirty, writeOrder, written, sinceCollected, sinceCkptCollected>>

LoadVPAs == EndPhase("LoadVPAs", "LoadPods")
LoadPods == EndPhase("LoadPods", "LoadRealTimeMetrics")

(* New samples make some aggregates dirty. *)
LoadRealTimeMetrics ==
    /\ pc = "LoadRealTimeMetrics"
    /\ \E S \in SUBSET Aggregates :
          dirty' = [a \in Aggregates |-> dirty[a] \/ a \in S]
    /\ pc' = "UpdateVPAs"
    /\ phaseAge' = 0
    /\ UNCHANGED <<sinceTick, tickBuffered, sinceRunStart, sinceMaintain,
                   sinceAggGC, sinceCkptGC, writeOrder, written, sinceCollected, sinceCkptCollected>>

(* UpdateVPAs returns and MaintainCheckpoints reads `now` at once; without *)
(* checkpoints it goes straight on to GarbageCollect.                      *)
UpdateVPAs ==
    /\ pc = "UpdateVPAs"
    /\ pc' = IF UseCheckpoints THEN "StoreCheckpoints" ELSE "GarbageCollect"
    /\ sinceMaintain' = 0
    /\ phaseAge' = 0
    /\ UNCHANGED <<sinceTick, tickBuffered, sinceRunStart, sinceAggGC, sinceCkptGC,
                   dirty, writeOrder, written, sinceCollected, sinceCkptCollected>>

WriteCheckpoint ==
    /\ pc = "StoreCheckpoints"
    /\ CanWrite
    /\ LET a == NextToWrite IN
         /\ dirty' = [dirty EXCEPT ![a] = FALSE]
         /\ writeOrder' = MoveToBack(writeOrder, a)
    /\ written' = IF written < MinCheckpointsPerRun THEN written + 1 ELSE written
    /\ UNCHANGED <<pc, sinceTick, tickBuffered, phaseAge, sinceRunStart,
                   sinceMaintain, sinceAggGC, sinceCkptGC, sinceCollected, sinceCkptCollected>>

(* StoreCheckpoints returns; `time.Now().Sub(lastCheckpointGC) >          *)
(* checkpointsGCInterval` then sets lastCheckpointGC to the `now` read    *)
(* before the store, and GarbageCollectCheckpoints runs.                   *)
MaintainCheckpoints ==
    /\ pc = "StoreCheckpoints"
    /\ ~CanWrite
    /\ sinceCkptGC' = IF sinceCkptGC > CheckpointsGCInterval
                      THEN sinceMaintain ELSE sinceCkptGC
    /\ sinceCkptCollected' = IF sinceCkptGC > CheckpointsGCInterval
                             THEN sinceMaintain ELSE sinceCkptCollected
    /\ pc' = "GarbageCollect"
    /\ phaseAge' = 0
    /\ sinceMaintain' = 0
    /\ written' = 0
    /\ UNCHANGED <<sinceTick, tickBuffered, sinceRunStart, sinceAggGC, dirty,
                   writeOrder, sinceCollected>>

Collects(age) == age > AggregateContainerStateGCInterval

\* Mutant: lastAggregateContainerStateGC is reset on every call.
GCAgeAlwaysReset(age) == 0

GCAge(age) == IF Collects(age) THEN 0 ELSE age

(* GarbageCollect: gcTime := time.Now(); collect and move                 *)
(* lastAggregateContainerStateGC only when more than the interval passed. *)
(* RunOnce then returns.                                                   *)
GarbageCollect ==
    /\ pc = "GarbageCollect"
    /\ sinceAggGC' = GCAge(sinceAggGC)
    /\ sinceCollected' = IF Collects(sinceAggGC) THEN 0 ELSE sinceCollected
    /\ pc' = "idle"
    /\ phaseAge' = 0
    /\ sinceRunStart' = 0
    /\ UNCHANGED <<sinceTick, tickBuffered, sinceMaintain, sinceCkptGC, dirty,
                   writeOrder, written, sinceCkptCollected>>

Next ==
    \/ Advance
    \/ StartLoop
    \/ RunOnce
    \/ LoadVPAs \/ LoadPods \/ LoadRealTimeMetrics \/ UpdateVPAs
    \/ WriteCheckpoint \/ MaintainCheckpoints \/ GarbageCollect

(* The loop is one goroutine that is never starved, and the clock runs.   *)
Fairness ==
    /\ WF_vars(Advance) /\ WF_vars(StartLoop) /\ WF_vars(RunOnce)
    /\ WF_vars(LoadVPAs) /\ WF_vars(LoadPods) /\ WF_vars(LoadRealTimeMetrics)
    /\ WF_vars(UpdateVPAs) /\ WF_vars(WriteCheckpoint)
    /\ WF_vars(MaintainCheckpoints) /\ WF_vars(GarbageCollect)

Spec == Init /\ [][Next]_vars /\ Fairness

-----------------------------------------------------------------------------
(* Properties. *)

(* Once the loop runs, garbage collection is never overdue by more than   *)
(* one loop iteration, however long the start-up took:                    *)
(* aggregates are collected at most AggregateContainerStateGCInterval +   *)
(* RecommenderInterval + RunDuration after the previous collection, and   *)
(* lastCheckpointGC is never older than its interval by more than that.   *)
(* It rests on GarbageCollect and MaintainCheckpoints being reached on    *)
(* every RunOnce, whatever ticks the ticker drops, and on both timers     *)
(* being moved only when they fire.                                       *)
GCNeverOverdue ==
    /\ sinceCollected <= AggregateContainerStateGCInterval + RecommenderInterval + RunDuration
    /\ UseCheckpoints =>
          sinceCkptCollected <= CheckpointsGCInterval + RecommenderInterval + RunDuration

(* spec 4.6 / 5: an aggregate with unsaved samples is eventually          *)
(* checkpointed, even when the loads of every RunOnce use up the deadline *)
(* before MaintainCheckpoints starts: the minCheckpointsPerRun floor and   *)
(* the least-recently-written-first order give every aggregate its turn.  *)
DirtyEventuallyCheckpointed == \A a \in Aggregates : dirty[a] ~> ~dirty[a]

====
