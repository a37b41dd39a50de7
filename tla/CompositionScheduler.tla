----------------------- MODULE CompositionScheduler -----------------------
(***************************************************************************)
(* The data plane's composition scheduler                                  *)
(* (go-service/internal/compositionscheduler): one goroutine that, every   *)
(* few seconds, reconciles the compositions that should be on air with the *)
(* jobs of the compositor service, over HTTP, handing viewers over from    *)
(* one generation to the next through the Generations registry.            *)
(*                                                                         *)
(* A Tick is cut at each of its HTTP calls: between two of them the        *)
(* configuration, the sources and the compositor's jobs change.  A call    *)
(* succeeds, is lost before it takes effect, or takes effect and is        *)
(* answered with an error.  The data plane and the compositor service may  *)
(* restart at any point.                                                   *)
(*                                                                         *)
(* Tick reads the clock once, so only differences between the clocks of    *)
(* two Ticks ever matter: every time stamp is kept as its age at the       *)
(* current Tick, capped where no comparison can tell ages apart, and       *)
(* stopAt as the time left until it.                                       *)
(***************************************************************************)
EXTENDS Naturals, FiniteSets

CONSTANTS
    Comps,          \* the logical ids <channelId>/<orientation>
    Sigs,           \* signatures: sources and options of a composition
    Unwanted,       \* not enabled, no channel, or no live source
    Stabilize, MaxStabilize, Drain, \* Config.Composition...Ms, in clock units
    MaxJobs,        \* the compositor's MaxCompositorJobs; 0 means no cap
    \* bounds
    MaxGap,         \* the longest time between the clocks of two Ticks
    MaxGen,         \* the highest generation number
    MaxChanges,     \* changes of what is wanted
    MaxFaults,      \* HTTP calls that fail
    MaxCrashes      \* encoder crashes, service and data plane restarts

ASSUME SigAssumption == Unwanted \notin Sigs
ASSUME TimeAssumption ==
    /\ Stabilize \in Nat \ {0} /\ Drain \in Nat \ {0}
    /\ MaxStabilize \in Nat /\ MaxStabilize >= Stabilize
ASSUME BoundAssumption ==
    /\ MaxJobs \in Nat /\ MaxGap \in Nat \ {0} /\ MaxGen \in Nat
    /\ MaxChanges \in Nat /\ MaxFaults \in Nat /\ MaxCrashes \in Nat

VARIABLES
    want,           \* what the store and MediaMTX say now
    jobs,           \* the compositor service: the state of job <<composition, generation>>
    currentGenID,   \* s.running / s.currentGenID: the live generation, 0 when not running
    signatures,     \* s.signatures
    generationNum,  \* s.generationNum
    lastObservedSig, sigChangedAt, pendingSince,    \* the debounce entries
    warming,        \* s.warming: at most one generation per composition
    draining,       \* s.draining
    gens,           \* the Generations registry, shared with the proxy and the relays
    pc, snap, todo, due,    \* the Tick in progress
    sinceStart, faults, crashes, changes    \* history and bounds

debounce == <<lastObservedSig, sigChangedAt, pendingSince>>
live == <<currentGenID, signatures>>
bounds == <<faults, crashes, changes>>
vars == <<want, jobs, live, generationNum, debounce, warming, draining, gens,
          pc, snap, todo, due, sinceStart, bounds>>

Gens == 1..MaxGen
JobIds == Comps \X Gens
SigsOrNone == Sigs \cup {Unwanted}
Warming == [gen : Gens, sig : Sigs]
NoWarm == [gen |-> 0, sig |-> Unwanted]
JobStates == {"off", "starting", "live", "retrying", "lost"}
Faults == {"none", "lost", "late"}

AgeCap == MaxStabilize
Older(age, d) == IF age + d > AgeCap THEN AgeCap ELSE age + d
Left(t, d) == IF t > d THEN t - d ELSE 0

TypeOK ==
    /\ want \in [Comps -> SigsOrNone]
    /\ jobs \in [JobIds -> JobStates]
    /\ currentGenID \in [Comps -> 0..MaxGen]
    /\ signatures \in [Comps -> SigsOrNone]
    /\ generationNum \in [Comps -> 0..MaxGen]
    /\ lastObservedSig \in [Comps -> SigsOrNone]
    /\ sigChangedAt \in [Comps -> 0..AgeCap]
    /\ pendingSince \in [Comps -> 0..AgeCap]
    /\ warming \in [Comps -> Warming \cup {NoWarm}]
    /\ draining \in SUBSET [comp : Comps, gen : Gens, stopAt : 0..Drain]
    /\ gens \in [Comps -> 0..MaxGen]
    /\ pc \in {"idle", "reconcile", "drain", "cancel", "stop"}
    /\ snap \in [Comps -> SigsOrNone]
    /\ todo \in SUBSET Comps
    /\ due \in SUBSET JobIds
    /\ sinceStart \in [Comps -> 0..AgeCap]
    /\ faults \in 0..MaxFaults
    /\ crashes \in 0..MaxCrashes
    /\ changes \in 0..MaxChanges

Init ==
    /\ want = [c \in Comps |-> Unwanted]
    /\ jobs = [j \in JobIds |-> "off"]
    /\ currentGenID = [c \in Comps |-> 0]
    /\ signatures = [c \in Comps |-> Unwanted]
    /\ generationNum = [c \in Comps |-> 0]
    /\ lastObservedSig = [c \in Comps |-> Unwanted]
    /\ sigChangedAt = [c \in Comps |-> 0]
    /\ pendingSince = [c \in Comps |-> 0]
    /\ warming = [c \in Comps |-> NoWarm]
    /\ draining = {}
    /\ gens = [c \in Comps |-> 0]
    /\ pc = "idle"
    /\ snap = [c \in Comps |-> Unwanted]
    /\ todo = {}
    /\ due = {}
    /\ sinceStart = [c \in Comps |-> AgeCap]
    /\ faults = 0
    /\ crashes = 0
    /\ changes = 0

running(c) == currentGenID[c] # 0

----------------------------------------------------------------------------
(* The compositor's job API, as this package uses it. *)

Encoding == {j \in JobIds : jobs[j] \in {"starting", "live"}}

\* An HTTP call that fails is counted, so that a run can bound or forbid it.
Fails(fault) ==
    /\ faults' = IF fault = "none" THEN faults ELSE faults + 1
    /\ fault # "none" => faults < MaxFaults
    /\ UNCHANGED <<crashes, changes>>

\* stopJob: DELETE /jobs/{id}; true iff it returned no error.
stopJob(j, fault) ==
    /\ Fails(fault)
    /\ jobs' = IF fault = "lost" THEN jobs ELSE [jobs EXCEPT ![j] = "off"]

\* startJob: POST /jobs.  503 when the cap is reached and the id is a new one.
Refused(j) == MaxJobs > 0 /\ j \notin Encoding /\ Cardinality(Encoding) >= MaxJobs

startJob(j, fault) ==
    /\ Fails(fault)
    /\ IF fault = "lost" \/ Refused(j)
         THEN jobs' = jobs
         ELSE jobs' = [jobs EXCEPT ![j] = "starting"]

----------------------------------------------------------------------------
(* The environment: configuration and sources, and the encoders. *)

Change(c, s) ==
    /\ changes < MaxChanges
    /\ s # want[c]
    /\ want' = [want EXCEPT ![c] = s]
    /\ changes' = changes + 1
    /\ UNCHANGED <<jobs, live, generationNum, debounce, warming, draining, gens,
                   pc, snap, todo, due, sinceStart, faults, crashes>>

GoLive(j) ==
    /\ jobs[j] = "starting"
    /\ jobs' = [jobs EXCEPT ![j] = "live"]
    /\ UNCHANGED <<want, live, generationNum, debounce, warming, draining, gens,
                   pc, snap, todo, due, sinceStart, bounds>>

\* ffmpeg dies; the compositor reports "retrying" from then on and never restarts it.
EncoderDies(j) ==
    /\ crashes < MaxCrashes
    /\ j \in Encoding
    /\ jobs' = [jobs EXCEPT ![j] = "retrying"]
    /\ crashes' = crashes + 1
    /\ UNCHANGED <<want, live, generationNum, debounce, warming, draining, gens,
                   pc, snap, todo, due, sinceStart, faults, changes>>

\* The compositor container restarts: no job survives, and none was told to stop.
CompositorRestarts ==
    /\ crashes < MaxCrashes
    /\ jobs' = [j \in JobIds |-> IF jobs[j] = "off" THEN "off" ELSE "lost"]
    /\ crashes' = crashes + 1
    /\ UNCHANGED <<want, live, generationNum, debounce, warming, draining, gens,
                   pc, snap, todo, due, sinceStart, faults, changes>>

----------------------------------------------------------------------------
(* Tick: what it reads before it starts to reconcile. *)

Tick(d) ==
    /\ pc = "idle"
    /\ pc' = "reconcile"
    /\ snap' = want
    /\ todo' = {c \in Comps : want[c] # Unwanted}
    /\ sigChangedAt' = [c \in Comps |->
            IF lastObservedSig[c] = Unwanted THEN 0 ELSE Older(sigChangedAt[c], d)]
    /\ pendingSince' = [c \in Comps |->
            IF lastObservedSig[c] = Unwanted THEN 0 ELSE Older(pendingSince[c], d)]
    /\ draining' = {[e EXCEPT !.stopAt = Left(@, d)] : e \in draining}
    /\ sinceStart' = [c \in Comps |-> Older(sinceStart[c], d)]
    /\ UNCHANGED <<want, jobs, live, generationNum, lastObservedSig, warming, gens, due, bounds>>

Done(c) == todo' = todo \ {c}

ClearDebounce(cs) ==
    /\ lastObservedSig' = [c \in Comps |-> IF c \in cs THEN Unwanted ELSE lastObservedSig[c]]
    /\ sigChangedAt' = [c \in Comps |-> IF c \in cs THEN 0 ELSE sigChangedAt[c]]
    /\ pendingSince' = [c \in Comps |-> IF c \in cs THEN 0 ELSE pendingSince[c]]

----------------------------------------------------------------------------
(* reconcileOne, for a composition that should be running. *)

Reconciling(c) == pc = "reconcile" /\ c \in todo

WarmEnough(state) == state = "live"

\* checkWarmupReady: the status call failed, or did not answer "live".
WarmupNotReady(c, fault) ==
    /\ Reconciling(c)
    /\ warming[c] # NoWarm /\ warming[c].sig = snap[c]
    /\ fault # "late"
    /\ fault = "none" => ~WarmEnough(jobs[<<c, warming[c].gen>>])
    /\ Fails(fault)
    /\ Done(c)
    /\ UNCHANGED <<want, jobs, live, generationNum, debounce, warming, draining, gens,
                   pc, snap, due, sinceStart>>

Handed_Forgotten(c) == {}

Handed_EvenFromNothing(c) ==
    IF currentGenID[c] # warming[c].gen
      THEN {[comp |-> c, gen |-> currentGenID[c], stopAt |-> Drain]}
      ELSE {}

\* checkWarmupReady: the generation that is handed off away from.
Handed(c) ==
    IF running(c) /\ currentGenID[c] # warming[c].gen
      THEN {[comp |-> c, gen |-> currentGenID[c], stopAt |-> Drain]}
      ELSE {}

WarmupReady(c) ==
    /\ Reconciling(c)
    /\ warming[c] # NoWarm /\ warming[c].sig = snap[c]
    /\ WarmEnough(jobs[<<c, warming[c].gen>>])
    /\ draining' = draining \cup Handed(c)
    /\ signatures' = [signatures EXCEPT ![c] = warming[c].sig]
    /\ currentGenID' = [currentGenID EXCEPT ![c] = warming[c].gen]
    /\ gens' = [gens EXCEPT ![c] = warming[c].gen]
    /\ warming' = [warming EXCEPT ![c] = NoWarm]
    /\ Done(c)
    /\ UNCHANGED <<want, jobs, generationNum, debounce, pc, snap, due, sinceStart, bounds>>

\* A warm-up for an older signature is abandoned; the same call then goes on to the rest.
Supersede(c, fault) ==
    /\ Reconciling(c)
    /\ warming[c] # NoWarm /\ warming[c].sig # snap[c]
    /\ stopJob(<<c, warming[c].gen>>, fault)
    /\ warming' = [warming EXCEPT ![c] = NoWarm]
    /\ UNCHANGED <<want, live, generationNum, debounce, draining, gens,
                   pc, snap, todo, due, sinceStart>>

Steady_AnySignature(c) == running(c)
Steady(c) == running(c) /\ signatures[c] = snap[c]

SteadyState(c) ==
    /\ Reconciling(c)
    /\ warming[c] = NoWarm
    /\ Steady(c)
    /\ ClearDebounce({c})
    /\ Done(c)
    /\ UNCHANGED <<want, jobs, live, generationNum, warming, draining, gens,
                   pc, snap, due, sinceStart, bounds>>

\* The debounce entries as reconcileOne updates them before it decides.
Moved(c) == lastObservedSig[c] # snap[c]
ChangedAge(c) == IF Moved(c) THEN 0 ELSE sigChangedAt[c]
PendingAge(c) == IF lastObservedSig[c] = Unwanted THEN 0 ELSE pendingSince[c]

Settled_AtOnce(c) == TRUE
Settled(c) == ChangedAge(c) >= Stabilize \/ PendingAge(c) >= MaxStabilize

Observe(c) ==
    /\ lastObservedSig' = [lastObservedSig EXCEPT ![c] = snap[c]]
    /\ sigChangedAt' = [sigChangedAt EXCEPT ![c] = ChangedAge(c)]
    /\ pendingSince' = [pendingSince EXCEPT ![c] = PendingAge(c)]

Debounce(c) ==
    /\ Reconciling(c)
    /\ warming[c] = NoWarm
    /\ ~Steady(c)
    /\ ~Settled(c)
    /\ Observe(c)
    /\ Done(c)
    /\ UNCHANGED <<want, jobs, live, generationNum, warming, draining, gens,
                   pc, snap, due, sinceStart, bounds>>

NextGen_Fixed(c) == 1
NextGen(c) == generationNum[c] + 1

\* startWarmup: the generation number is used up even when the call fails.
startWarmup(c, fault) ==
    /\ Reconciling(c)
    /\ warming[c] = NoWarm
    /\ ~Steady(c)
    /\ Settled(c)
    /\ generationNum[c] < MaxGen
    /\ generationNum' = [generationNum EXCEPT ![c] = NextGen(c)]
    /\ LET j == <<c, NextGen(c)>> IN
        /\ startJob(j, fault)
        /\ IF fault # "none" \/ Refused(j)
             THEN /\ Observe(c)
                  /\ UNCHANGED <<warming, sinceStart>>
             ELSE /\ warming' = [warming EXCEPT ![c] = [gen |-> j[2], sig |-> snap[c]]]
                  /\ sinceStart' = [sinceStart EXCEPT ![c] = 0]
                  /\ ClearDebounce({c})
    /\ Done(c)
    /\ UNCHANGED <<want, live, draining, gens, pc, snap, due>>

----------------------------------------------------------------------------
(* processDraining, cancelUnwanted, stopUnwanted. *)

Expired_WhenUnwanted == {e \in draining : e.stopAt = 0 /\ snap[e.comp] = Unwanted}
Expired == {e \in draining : e.stopAt = 0}

processDraining ==
    /\ pc = "reconcile" /\ todo = {}
    /\ pc' = "drain"
    /\ draining' = draining \ Expired
    /\ due' = {<<e.comp, e.gen>> : e \in Expired}
    /\ UNCHANGED <<want, jobs, live, generationNum, debounce, warming, gens,
                   snap, todo, sinceStart, bounds>>

\* Both loops log an error and go on: the entry is gone either way.
StopDue(j, fault) ==
    /\ pc \in {"drain", "cancel"}
    /\ j \in due
    /\ stopJob(j, fault)
    /\ due' = due \ {j}
    /\ UNCHANGED <<want, live, generationNum, debounce, warming, draining, gens,
                   pc, snap, todo, sinceStart>>

ToCancel_None == {}
ToCancel == {c \in Comps : warming[c] # NoWarm /\ snap[c] = Unwanted}

cancelUnwanted ==
    /\ pc = "drain" /\ due = {}
    /\ pc' = "cancel"
    /\ due' = {<<c, warming[c].gen>> : c \in ToCancel}
    /\ warming' = [c \in Comps |-> IF c \in ToCancel THEN NoWarm ELSE warming[c]]
    /\ ClearDebounce(ToCancel)
    /\ UNCHANGED <<want, jobs, live, generationNum, draining, gens,
                   snap, todo, sinceStart, bounds>>

ListUnwanted ==
    /\ pc = "cancel" /\ due = {}
    /\ pc' = "stop"
    /\ due' = {<<c, currentGenID[c]>> : c \in {d \in Comps : running(d) /\ snap[d] = Unwanted}}
    /\ UNCHANGED <<want, jobs, live, generationNum, debounce, warming, draining, gens,
                   snap, todo, sinceStart, bounds>>

\* An error keeps the composition running, to be tried again by the next Tick.
stopUnwanted(j, fault) ==
    /\ pc = "stop"
    /\ j \in due
    /\ stopJob(j, fault)
    /\ due' = due \ {j}
    /\ IF fault = "none"
         THEN /\ currentGenID' = [currentGenID EXCEPT ![j[1]] = 0]
              /\ signatures' = [signatures EXCEPT ![j[1]] = Unwanted]
              /\ generationNum' = [generationNum EXCEPT ![j[1]] = 0]
              /\ gens' = [gens EXCEPT ![j[1]] = 0]
         ELSE UNCHANGED <<live, generationNum, gens>>
    /\ UNCHANGED <<want, debounce, warming, draining, pc, snap, todo, sinceStart>>

EndTick ==
    /\ pc = "stop" /\ due = {}
    /\ pc' = "idle"
    /\ UNCHANGED <<want, jobs, live, generationNum, debounce, warming, draining, gens,
                   snap, todo, due, sinceStart, bounds>>

\* The data plane restarts: New, with the compositor's jobs as they are.
DataplaneRestarts ==
    /\ crashes < MaxCrashes
    /\ crashes' = crashes + 1
    /\ currentGenID' = [c \in Comps |-> 0]
    /\ signatures' = [c \in Comps |-> Unwanted]
    /\ generationNum' = [c \in Comps |-> 0]
    /\ ClearDebounce(Comps)
    /\ warming' = [c \in Comps |-> NoWarm]
    /\ draining' = {}
    /\ gens' = [c \in Comps |-> 0]
    /\ pc' = "idle"
    /\ snap' = [c \in Comps |-> Unwanted]
    /\ todo' = {}
    /\ due' = {}
    /\ UNCHANGED <<want, jobs, sinceStart, faults, changes>>

----------------------------------------------------------------------------

ReconcileStep ==
    \E c \in Comps :
        \/ WarmupReady(c)
        \/ SteadyState(c)
        \/ Debounce(c)
        \/ \E f \in Faults : WarmupNotReady(c, f) \/ Supersede(c, f) \/ startWarmup(c, f)

TickStep ==
    \/ ReconcileStep
    \/ processDraining
    \/ cancelUnwanted
    \/ ListUnwanted
    \/ \E j \in JobIds, f \in Faults : StopDue(j, f) \/ stopUnwanted(j, f)
    \/ EndTick

Next ==
    \/ \E c \in Comps, s \in SigsOrNone : Change(c, s)
    \/ \E j \in JobIds : GoLive(j) \/ EncoderDies(j)
    \/ CompositorRestarts
    \/ DataplaneRestarts
    \/ \E d \in 1..MaxGap : Tick(d)
    \/ TickStep

Spec == Init /\ [][Next]_vars

\* The ticker keeps firing and a Tick runs to its end (every HTTP call returns); an encoder
\* that is not told to stop and does not crash eventually produces a frame.
Fairness ==
    /\ WF_vars(\E d \in 1..MaxGap : Tick(d))
    /\ WF_vars(TickStep)
    /\ \A j \in JobIds : WF_vars(GoLive(j))

FairSpec == Spec /\ Fairness

----------------------------------------------------------------------------
(* Properties. *)

\* The warm handoff, as a viewer is promised it (package comment, config.go): see Handoff.
\* A generation the registry names is never restarted, and is told to stop only after the
\* registry moved on, for every order of HTTP failures, crashes and restarts.
Promise == INSTANCE Handoff WITH
    shown <- gens,
    asked <- {j \in JobIds : jobs[j] # "off"},
    wanted <- {c \in Comps : snap[c] # Unwanted}

HandoffPromise == Promise!Spec

\* A generation that warms up has a number of its own, above the live one's: the two are
\* different jobs publishing to different paths.
OwnPath ==
    \A c \in Comps :
        warming[c] # NoWarm =>
            /\ warming[c].gen = generationNum[c]
            /\ currentGenID[c] < warming[c].gen

\* A job is lost, left to encode for a composition the scheduler no longer counts it to, only
\* to an HTTP call that failed, and to each of those at most one: whatever the handoffs, the
\* superseded and cancelled warm-ups and the numbering that starts again, every other job is
\* one the scheduler remembers and will stop some day.  (Restarts of the data plane forget
\* every job: nothing is promised after one.)
Remembered(c, g) ==
    \/ currentGenID[c] = g
    \/ warming[c].gen = g
    \/ <<c, g>> \in due
    \/ \E e \in draining : e.comp = c /\ e.gen = g

Leaked == {j \in JobIds : jobs[j] # "off" /\ ~Remembered(j[1], j[2])}

LeakBound == crashes = 0 => Cardinality(Leaked) <= faults

\* Between Ticks a composition never costs more than two encoders, however its
\* configuration flaps (given a drain no longer than the stabilize time), and those that
\* calls which failed left behind.
EncoderBudget ==
    crashes = 0 /\ pc = "idle" =>
        \A c \in Comps : Cardinality({j \in Encoding : j[1] = c}) <= 2 + faults

\* "A source flapping in and out doesn't thrash the encoder": a generation of a composition
\* never starts to warm up sooner than the stabilize time after the one before it.  (A start
\* the compositor refuses, or answers with an error, is asked for again by the next Tick.)
StartSpacing ==
    [][\A c \in Comps :
        warming[c] = NoWarm /\ warming'[c] # NoWarm => sinceStart[c] >= Stabilize]_vars

\* processDraining "stops any old generation whose grace period has elapsed": what it
\* stops is not warming up and is not the live one.  Expected to fail: stopUnwanted resets
\* the numbering while an earlier generation still drains.
DrainStopsOldOnly ==
    pc = "drain" =>
        \A j \in due : warming[j[1]].gen # j[2] /\ currentGenID[j[1]] # j[2]

\* Tick: "every enabled composition with a live member should have a job running;
\* everything else should not": once what is wanted stops changing, the registry names a
\* live generation of exactly that configuration, and an unwanted one has no job left.
\* It is promised only as long as the drain stops old generations only.  The scheduler
\* starts no job a second time: a warm-up the drain stopped is polled for a first frame by
\* every later Tick, and a live generation it stopped is taken to be steady, so that the
\* composition stays off air although no call failed and nothing crashed.
OnAir(c, s) ==
    /\ gens[c] # 0
    /\ signatures[c] = s
    /\ jobs[<<c, gens[c]>>] = "live"

OffAir(c) == gens[c] = 0 /\ \A g \in Gens : jobs[<<c, g>>] = "off"

ConvergesUnlessCut ==
    []DrainStopsOldOnly =>
        \A c \in Comps, s \in SigsOrNone :
            <>[](want[c] = s) => <>[](IF s = Unwanted THEN OffAir(c) ELSE OnAir(c, s))

\* feat-compositor.md: "Reconfiguring an already-running job never counts against the cap,
\* only genuinely new ones do": a composition that has its job running is not refused a new
\* configuration.  Expected to fail: a reconfiguration is a job with an id of its own, and
\* it is asked for while the old one still runs.
ReconfigurationNeverCapped ==
    [][\A c \in Comps :
        running(c) /\ generationNum'[c] > generationNum[c] /\ faults' = faults
        => warming'[c] # NoWarm]_vars
=============================================================================
