---------------------------- MODULE Compositor ----------------------------
(***************************************************************************)
(* The compositor service's Runner (go-service/internal/compositor): it    *)
(* supervises one ffmpeg process per job id, started and stopped by HTTP   *)
(* calls.  The mutex r.mu makes each locked section one atomic step;       *)
(* everything that happens outside it (the fork/exec of startOne, the      *)
(* reader goroutines, the goroutine in cmd.Wait, the 3 s SIGKILL timer) is *)
(* a step of its own, so every interleaving of the goroutines is explored. *)
(*                                                                         *)
(* Times are left out: a backoff is a multiple of RestartDelayMs, and the  *)
(* RetryAt it yields is never read by this package.                        *)
(***************************************************************************)
EXTENDS Naturals, FiniteSets

CONSTANTS
    Jobs,               \* job ids, as chosen by the caller
    Callers,            \* HTTP handler goroutines that may be inside StartJob
    Procs,              \* ffmpeg processes; each is started at most once (a bound)
    NoJob, NoProc,
    MaxCompositorJobs,  \* Config.MaxCompositorJobs; 0 means no cap
    MaxBackoff,         \* MaxRestartDelayMs, as a multiple of RestartDelayMs
    OneStartPerJob      \* TRUE: no two StartJob calls for one id overlap in time

ASSUME JobAssumption  == NoJob \notin Jobs
ASSUME ProcAssumption == NoProc \notin Procs
ASSUME CallersFinite  == IsFiniteSet(Callers) /\ Callers # {}
ASSUME JobsFinite     == IsFiniteSet(Jobs)
ASSUME NumAssumption  == MaxCompositorJobs \in Nat /\ MaxBackoff \in Nat \ {0}
ASSUME DisciplineAssumption == OneStartPerJob \in BOOLEAN

VARIABLES
    running,    \* r.running: the process tracked for a job
    health,     \* r.health: a job's Status.State, "none" when it has no entry
    backoff,    \* r.backoff, 0 when it has no entry
    pc,         \* where a caller is inside StartJob / startOne
    arg,        \* the job id of the call a caller is inside
    child,      \* the process startOne has spawned and not yet registered
    life,       \* what the operating system knows of a process
    owner,      \* the job id a process was started for
    attached,   \* processes whose reader and Wait goroutines are running
    signalled,  \* processes that were sent SIGTERM (SIGKILL follows in 3 s)
    sawData,    \* processes whose first progress line has been acted on
    lines       \* output lines scanned, whose reader waits for r.mu

procVars == <<life, owner, attached>>
callVars == <<pc, arg, child>>
vars == <<running, health, backoff, procVars, callVars, signalled, sawData, lines>>

States == {"none", "off", "starting", "live", "retrying"}
Kinds == {"frame", "stderr"}

TypeOK ==
    /\ running \in [Jobs -> Procs \cup {NoProc}]
    /\ health \in [Jobs -> States]
    /\ backoff \in [Jobs -> 0..MaxBackoff]
    /\ pc \in [Callers -> {"idle", "spawn", "register"}]
    /\ arg \in [Callers -> Jobs \cup {NoJob}]
    /\ child \in [Callers -> Procs \cup {NoProc}]
    /\ \A c \in Callers : pc[c] = "register" => child[c] \in Procs
    /\ life \in [Procs -> {"unused", "alive", "exited", "reaped"}]
    /\ owner \in [Procs -> Jobs \cup {NoJob}]
    /\ attached \in SUBSET Procs
    /\ signalled \in SUBSET Procs
    /\ sawData \in SUBSET Procs
    /\ lines \in [Procs -> SUBSET Kinds]

\* New: nothing runs, every map is empty.
Init ==
    /\ running = [j \in Jobs |-> NoProc]
    /\ health = [j \in Jobs |-> "none"]
    /\ backoff = [j \in Jobs |-> 0]
    /\ pc = [c \in Callers |-> "idle"]
    /\ arg = [c \in Callers |-> NoJob]
    /\ child = [c \in Callers |-> NoProc]
    /\ life = [p \in Procs |-> "unused"]
    /\ owner = [p \in Procs |-> NoJob]
    /\ attached = {}
    /\ signalled = {}
    /\ sawData = {}
    /\ lines = [p \in Procs |-> {}]

Tracked == {j \in Jobs : running[j] # NoProc}
Busy == {c \in Callers : pc[c] # "idle"}

\* The 3 s timer of stopLocked and the signal itself, for the processes tracked for js.
ProcsOf_NoGuard(js) == {running[j] : j \in js}
ProcsOf(js) == {running[j] : j \in js} \ {NoProc}

----------------------------------------------------------------------------
(* StartJob: the section under r.mu. *)

AtCap_OffByOne(j) ==
    /\ running[j] = NoProc
    /\ MaxCompositorJobs > 0
    /\ Cardinality(Tracked) > MaxCompositorJobs

\* ErrTooManyJobs: a refused call changes nothing.
AtCap(j) ==
    /\ running[j] = NoProc
    /\ MaxCompositorJobs > 0
    /\ Cardinality(Tracked) >= MaxCompositorJobs

StartJob(c, j) ==
    /\ pc[c] = "idle"
    /\ OneStartPerJob => \A d \in Callers : arg[d] # j
    /\ ~AtCap(j)
    /\ signalled' = signalled \cup ProcsOf({j})
    /\ running' = [running EXCEPT ![j] = NoProc]
    /\ health' = IF running[j] = NoProc THEN health ELSE [health EXCEPT ![j] = "off"]
    /\ backoff' = [backoff EXCEPT ![j] = 0]
    /\ pc' = [pc EXCEPT ![c] = "spawn"]
    /\ arg' = [arg EXCEPT ![c] = j]
    /\ UNCHANGED <<child, procVars, sawData, lines>>

----------------------------------------------------------------------------
(* startOne: outside the lock until the process exists. *)

Return(c) ==
    /\ pc' = [pc EXCEPT ![c] = "idle"]
    /\ arg' = [arg EXCEPT ![c] = NoJob]
    /\ child' = [child EXCEPT ![c] = NoProc]

NextDelay(d) ==
    IF d = 0 THEN 1 ELSE IF 2 * d > MaxBackoff THEN MaxBackoff ELSE 2 * d

ScheduleRetry(j) ==
    /\ health' = [health EXCEPT ![j] = "retrying"]
    /\ backoff' = [backoff EXCEPT ![j] = NextDelay(@)]

\* A pipe could not be opened: startOne logs it and returns.
PipeFails(c) ==
    /\ pc[c] = "spawn"
    /\ Return(c)
    /\ UNCHANGED <<running, health, backoff, procVars, signalled, sawData, lines>>

\* cmd.Start failed.
SpawnFails(c) ==
    /\ pc[c] = "spawn"
    /\ ScheduleRetry(arg[c])
    /\ Return(c)
    /\ UNCHANGED <<running, procVars, signalled, sawData, lines>>

\* cmd.Start succeeded: the process exists, the Runner does not know it yet.
Spawn(c, p) ==
    /\ pc[c] = "spawn"
    /\ life[p] = "unused"
    /\ life' = [life EXCEPT ![p] = "alive"]
    /\ owner' = [owner EXCEPT ![p] = arg[c]]
    /\ child' = [child EXCEPT ![c] = p]
    /\ pc' = [pc EXCEPT ![c] = "register"]
    /\ UNCHANGED <<running, health, backoff, arg, attached, signalled, sawData, lines>>

\* The second locked section, then the three goroutines.
Register(c) ==
    /\ pc[c] = "register"
    /\ running' = [running EXCEPT ![arg[c]] = child[c]]
    /\ health' = [health EXCEPT ![arg[c]] = "starting"]
    /\ attached' = attached \cup {child[c]}
    /\ Return(c)
    /\ UNCHANGED <<backoff, life, owner, signalled, sawData, lines>>

----------------------------------------------------------------------------
(* StopJob and StopAll. *)

StopJob_KeepsTracking(j) ==
    /\ signalled' = signalled \cup ProcsOf({j})
    /\ health' = [health EXCEPT ![j] = "none"]
    /\ backoff' = [backoff EXCEPT ![j] = 0]
    /\ UNCHANGED <<running, procVars, callVars, sawData, lines>>

StopJob(j) ==
    /\ signalled' = signalled \cup ProcsOf({j})
    /\ running' = [running EXCEPT ![j] = NoProc]
    /\ health' = [health EXCEPT ![j] = "none"]
    /\ backoff' = [backoff EXCEPT ![j] = 0]
    /\ UNCHANGED <<procVars, callVars, sawData, lines>>

StopAll ==
    /\ signalled' = signalled \cup ProcsOf(Jobs)
    /\ running' = [j \in Jobs |-> NoProc]
    /\ health' = [j \in Jobs |-> IF running[j] = NoProc THEN health[j] ELSE "off"]
    /\ UNCHANGED <<backoff, procVars, callVars, sawData, lines>>

----------------------------------------------------------------------------
(* The process and the goroutines that watch it. *)

\* ffmpeg ends: by itself, or because of a signal.
Exit(p) ==
    /\ life[p] = "alive"
    /\ life' = [life EXCEPT ![p] = "exited"]
    /\ UNCHANGED <<running, health, backoff, owner, attached, callVars, signalled, sawData, lines>>

Superseded_Never(p) == FALSE
Superseded_Inverted(p) == running[owner[p]] = p

\* The check of the Wait goroutine: is another process, or none, tracked by now?
Superseded(p) == running[owner[p]] # p

\* cmd.Wait returned and its goroutine got the lock.
Reap(p) ==
    /\ life[p] = "exited"
    /\ p \in attached
    /\ life' = [life EXCEPT ![p] = "reaped"]
    /\ IF Superseded(p)
         THEN UNCHANGED <<running, health, backoff>>
         ELSE /\ running' = [running EXCEPT ![owner[p]] = NoProc]
              /\ ScheduleRetry(owner[p])
    /\ UNCHANGED <<owner, attached, callVars, signalled, sawData, lines>>

\* A reader goroutine has scanned a line; the pipe outlives the process until Wait returns.
Scan(p, k) ==
    /\ p \in attached
    /\ life[p] \in {"alive", "exited"}
    /\ k = "frame" => p \notin sawData
    /\ lines' = [lines EXCEPT ![p] = @ \cup {k}]
    /\ UNCHANGED <<running, health, backoff, procVars, callVars, signalled, sawData>>

\* readProgress gets the lock: it looks the job up by id, not by process.
RecordFrame(p) ==
    /\ "frame" \in lines[p]
    /\ lines' = [lines EXCEPT ![p] = @ \ {"frame"}]
    /\ sawData' = sawData \cup {p}
    /\ IF health[owner[p]] \in {"none", "live"}
         THEN UNCHANGED <<health, backoff>>
         ELSE /\ health' = [health EXCEPT ![owner[p]] = "live"]
              /\ backoff' = [backoff EXCEPT ![owner[p]] = 0]
    /\ UNCHANGED <<running, procVars, callVars, signalled>>

\* readStderr gets the lock: statusLocked creates the entry when there is none.
RecordStderr(p) ==
    /\ "stderr" \in lines[p]
    /\ lines' = [lines EXCEPT ![p] = @ \ {"stderr"}]
    /\ health' = [health EXCEPT ![owner[p]] = IF @ = "none" THEN "off" ELSE @]
    /\ UNCHANGED <<running, backoff, procVars, callVars, signalled, sawData>>

----------------------------------------------------------------------------

CallerStep(c) ==
    \/ PipeFails(c)
    \/ SpawnFails(c)
    \/ \E p \in Procs : Spawn(c, p)
    \/ Register(c)

ProcStep(p) ==
    \/ Exit(p)
    \/ Reap(p)
    \/ \E k \in Kinds : Scan(p, k)
    \/ RecordFrame(p)
    \/ RecordStderr(p)

Next ==
    \/ \E c \in Callers, j \in Jobs : StartJob(c, j)
    \/ \E c \in Callers : CallerStep(c)
    \/ \E j \in Jobs : StopJob(j)
    \/ StopAll
    \/ \E p \in Procs : ProcStep(p)

Spec == Init /\ [][Next]_vars

\* What the Go scheduler and the kernel guarantee: a call in progress returns, a goroutine
\* that can take the lock does, a signalled process dies (SIGKILL after 3 s).  Nobody is
\* obliged to call the API, and an unsignalled process need neither exit nor print.
Fairness ==
    /\ \A c \in Callers : WF_vars(CallerStep(c))
    /\ \A p \in Procs :
        /\ WF_vars(p \in signalled /\ Exit(p))
        /\ WF_vars(Reap(p))
        /\ WF_vars(RecordFrame(p))
        /\ WF_vars(RecordStderr(p))

FairSpec == Spec /\ Fairness

----------------------------------------------------------------------------
(* Properties. *)

\* The cap as the code can keep it: the check and the registration are in two locked
\* sections, so each further call in flight may overrun MaxCompositorJobs by one.  With a
\* single caller (the data plane's scheduler) this is the configured cap itself.
CapBound ==
    MaxCompositorJobs > 0 =>
        Cardinality(Tracked) + Cardinality(Busy) < MaxCompositorJobs + Cardinality(Callers)

\* No encoder is lost: a process whose start has completed and that nobody asked to stop
\* is the one the Runner tracks for its job, so StopJob can still reach it.
NoOrphan ==
    OneStartPerJob =>
        \A p \in attached :
            life[p] = "alive" /\ p \notin signalled => running[owner[p]] = p

\* What GET /jobs/{id} may say of a job, against what is really tracked: a tracked process
\* is reported "starting" or "live", and "starting" is never reported without one.
StatusTruth ==
    OneStartPerJob =>
        \A j \in Jobs :
            /\ running[j] # NoProc => health[j] \in {"starting", "live"}
            /\ health[j] = "starting" => running[j] # NoProc

\* A process that ends is noticed: the Runner never goes on tracking a dead process.
DeathNoticed ==
    \A p \in Procs : (p \in attached /\ life[p] = "exited") ~> (\A j \in Jobs : running[j] # p)

\* cmd/compositor/main.go: "supervising the ffmpeg process (restart with backoff on a
\* crash) until told to stop": a job that waits for its retry does not wait for ever.
\* Expected to fail: nothing in the package starts a job that is "retrying".
RetryHappens ==
    \A j \in Jobs : health[j] = "retrying" ~> health[j] # "retrying"
=============================================================================
