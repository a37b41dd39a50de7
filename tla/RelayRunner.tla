---------------------------- MODULE RelayRunner ----------------------------
(***************************************************************************)
(* The data plane's relay runner (go-service/internal/relayrunner): one    *)
(* ffmpeg per enabled restream destination, kept in step by Tick with the  *)
(* store, with what is publishing and with the generation the composition  *)
(* scheduler last made live.                                               *)
(*                                                                         *)
(* Tick runs in one goroutine; r.mu is released between its sections, and  *)
(* startOne forks outside it.  Each locked section, each read of another   *)
(* component and the fork is a step, interleaved with the goroutines that  *)
(* watch the processes and with every change of the outside world.         *)
(*                                                                         *)
(* Time is counted in units of RestartDelayMs, and only RetryAt uses it:   *)
(* retryIn is the time left until it.                                      *)
(***************************************************************************)
EXTENDS Naturals, FiniteSets

CONSTANTS
    Relays,     \* relay destinations
    Composed,   \* those that forward a channel composition, not a raw stream
    Procs,      \* identities of ffmpeg processes: as many as exist at a time
    Gens,       \* generation paths of a composition
    NoRelay, NoProc, NoGen,
    MaxBackoff, \* MaxRestartDelayMs, as a multiple of RestartDelayMs
    \* bounds
    MaxChanges, \* changes of the world after the start
    MaxCrashes  \* processes that fail although nothing made them

ASSUME RelayAssumption == Composed \subseteq Relays /\ NoRelay \notin Relays
ASSUME ProcAssumption == NoProc \notin Procs /\ NoGen \notin Gens
ASSUME NumAssumption == MaxBackoff \in Nat \ {0} /\ MaxCrashes \in Nat /\ MaxChanges \in Nat

VARIABLES
    conf,       \* the relay in the store: not yet created, disabled, enabled, deleted
    usable,     \* relays whose stream (or composition) exists and is enabled
    onAir,      \* relays with a live ingest (for a composition: a live member)
    path,       \* Generations.Current; NoGen before anything is live, and for a stream
    running, health, backoff,   \* r.running, r.health[].State, r.backoff
    retryIn,    \* time left until r.health[].RetryAt, 0 when none is set
    pc, enabled, seen, todo, cur, curPath, child,   \* the Tick in progress
    life, owner, reading, signalled, sawData,       \* the processes
    changes, crashes    \* bounds

world == <<conf, usable, onAir, path, changes>>
tick == <<enabled, seen, todo, cur, curPath, child>>
state == <<running, health, backoff, retryIn>>
procs == <<life, owner, reading, signalled, sawData>>
vars == <<world, state, pc, tick, procs, crashes>>

States == {"none", "off", "connecting", "live", "waiting", "retrying"}
Paths == Gens \cup {NoGen}

TypeOK ==
    /\ conf \in [Relays -> {"new", "off", "on", "deleted"}]
    /\ usable \in SUBSET Relays
    /\ onAir \in SUBSET Relays
    /\ path \in [Relays -> Paths]
    /\ running \in [Relays -> Procs \cup {NoProc}]
    /\ health \in [Relays -> States]
    /\ backoff \in [Relays -> 0..MaxBackoff]
    /\ retryIn \in [Relays -> 0..MaxBackoff]
    /\ pc \in {"idle", "list", "loop", "spawn", "register"}
    /\ enabled \in SUBSET Relays
    /\ seen \in [usable : SUBSET Relays, onAir : SUBSET Relays]
    /\ todo \in SUBSET Relays
    /\ cur \in Relays \cup {NoRelay}
    /\ curPath \in Paths
    /\ child \in Procs \cup {NoProc}
    /\ life \in [Procs -> {"gone", "alive", "exited", "reaped"}]
    /\ owner \in [Procs -> Relays \cup {NoRelay}]
    /\ reading \in [Procs -> Paths]
    /\ signalled \in SUBSET Procs
    /\ sawData \in SUBSET Procs
    /\ changes \in 0..MaxChanges
    /\ crashes \in 0..MaxCrashes

Nothing == [usable |-> {}, onAir |-> {}]

\* New: nothing runs; the store and MediaMTX are as they are.
Init ==
    /\ conf \in [Relays -> {"new", "off", "on"}]
    /\ usable \in SUBSET Relays /\ onAir \in SUBSET Relays
    /\ path = [r \in Relays |-> NoGen]
    /\ running = [r \in Relays |-> NoProc]
    /\ health = [r \in Relays |-> "none"]
    /\ backoff = [r \in Relays |-> 0]
    /\ retryIn = [r \in Relays |-> 0]
    /\ pc = "idle"
    /\ enabled = {} /\ seen = Nothing /\ todo = {}
    /\ cur = NoRelay /\ curPath = NoGen /\ child = NoProc
    /\ life = [p \in Procs |-> "gone"]
    /\ owner = [p \in Procs |-> NoRelay]
    /\ reading = [p \in Procs |-> NoGen]
    /\ signalled = {} /\ sawData = {}
    /\ changes = 0 /\ crashes = 0

Stored(r) == conf[r] \in {"off", "on"}
Attached(p) == life[p] # "gone" /\ p # child
Tracked_NoGuard(rs) == {running[r] : r \in rs}
Tracked(rs) == {running[r] : r \in rs} \ {NoProc}

----------------------------------------------------------------------------
(* The outside world: Rails' data, the publishers, the scheduler. *)

Changed == changes < MaxChanges /\ changes' = changes + 1

\* Ids are UUIDs: a deleted relay does not come back under its id.
Configure(r) ==
    /\ Changed
    /\ \/ conf[r] \in {"new", "on"} /\ conf' = [conf EXCEPT ![r] = "off"]
       \/ conf[r] \in {"new", "off"} /\ conf' = [conf EXCEPT ![r] = "on"]
       \/ Stored(r) /\ conf' = [conf EXCEPT ![r] = "deleted"]
    /\ UNCHANGED <<usable, onAir, path, state, pc, tick, procs, crashes>>

Flip(S, r) == IF r \in S THEN S \ {r} ELSE S \cup {r}

SourceChanges(r) ==
    /\ Changed
    /\ \/ usable' = Flip(usable, r) /\ UNCHANGED onAir
       \/ onAir' = Flip(onAir, r) /\ UNCHANGED usable
    /\ UNCHANGED <<conf, path, state, pc, tick, procs, crashes>>

\* Generations.Set and Clear.
Handoff(r, g) ==
    /\ Changed
    /\ r \in Composed
    /\ g # path[r]
    /\ path' = [path EXCEPT ![r] = g]
    /\ UNCHANGED <<conf, usable, onAir, state, pc, tick, procs, crashes>>

Elapse ==
    /\ \E r \in Relays : retryIn[r] > 0
    /\ retryIn' = [r \in Relays |-> IF retryIn[r] > 0 THEN retryIn[r] - 1 ELSE 0]
    /\ UNCHANGED <<world, running, health, backoff, pc, tick, procs, crashes>>

----------------------------------------------------------------------------
(* The pieces of the locked sections. *)

\* stopLocked for the relays rs: SIGTERM now, SIGKILL in three seconds.
Stop(rs) ==
    /\ signalled' = signalled \cup Tracked(rs)
    /\ running' = [r \in Relays |-> IF r \in rs THEN NoProc ELSE running[r]]

Bound(n) == IF n > MaxBackoff THEN MaxBackoff ELSE n
NextDelay(d) == IF d = 0 THEN 1 ELSE Bound(2 * d)

scheduleRetry(r) ==
    /\ health' = [health EXCEPT ![r] = "retrying"]
    /\ backoff' = [backoff EXCEPT ![r] = NextDelay(@)]
    /\ retryIn' = [retryIn EXCEPT ![r] = NextDelay(backoff[r])]

----------------------------------------------------------------------------
(* Tick. *)

Unwanted_OnlyDeleted(r) == ~Stored(r)
Unwanted(r) == conf[r] # "on"

\* The relays are read and, under the lock, what should not run is stopped.
TickBegin ==
    /\ pc = "idle"
    /\ enabled' = {r \in Relays : conf[r] = "on"}
    /\ Stop({r \in Relays : Unwanted(r)})
    /\ health' = [r \in Relays |->
            CASE ~Stored(r) -> "none"
              [] conf[r] = "off" -> "off"
              [] OTHER -> health[r]]
    /\ backoff' = [r \in Relays |-> IF Stored(r) THEN backoff[r] ELSE 0]
    /\ retryIn' = [r \in Relays |-> IF Stored(r) THEN retryIn[r] ELSE 0]
    /\ pc' = IF enabled' = {} THEN "idle" ELSE "list"
    /\ UNCHANGED <<world, seen, todo, cur, curPath, child,
                   life, owner, reading, sawData, crashes>>

\* ListIngest failed: nothing else happens in this Tick.
ListFails ==
    /\ pc = "list"
    /\ pc' = "idle"
    /\ enabled' = {}
    /\ UNCHANGED <<world, state, seen, todo, cur, curPath, child, procs, crashes>>

\* ListIngest, then the channels and the streams of the store.
ReadSources ==
    /\ pc = "list"
    /\ seen' = [usable |-> usable \cap enabled, onAir |-> onAir \cap enabled]
    /\ todo' = enabled
    /\ pc' = "loop"
    /\ UNCHANGED <<world, state, enabled, cur, curPath, child, procs, crashes>>

\* resolveSource: the composition and its generation are read at this very moment, the
\* rest is what ReadSources saw.
Unavailable(r) == r \notin (IF r \in Composed THEN usable ELSE seen.usable)
Waiting(r) ==
    /\ ~Unavailable(r)
    /\ r \notin seen.onAir \/ (r \in Composed /\ path[r] = NoGen)

InLoop(r) == pc = "loop" /\ r \in todo

SkipUnavailable(r) ==
    /\ InLoop(r)
    /\ Unavailable(r)
    /\ Stop({r})
    /\ health' = [health EXCEPT ![r] = "off"]
    /\ todo' = todo \ {r}
    /\ UNCHANGED <<world, backoff, retryIn, pc, enabled, seen, cur, curPath, child,
                   life, owner, reading, sawData, crashes>>

SkipWaiting_LeavesItRunning(r) ==
    /\ InLoop(r)
    /\ Waiting(r)
    /\ health' = [health EXCEPT ![r] = "waiting"]
    /\ backoff' = [backoff EXCEPT ![r] = 0]
    /\ todo' = todo \ {r}
    /\ UNCHANGED <<world, running, retryIn, pc, enabled, seen, cur, curPath, child,
                   procs, crashes>>

SkipWaiting(r) ==
    /\ InLoop(r)
    /\ Waiting(r)
    /\ Stop({r})
    /\ health' = [health EXCEPT ![r] = "waiting"]
    /\ backoff' = [backoff EXCEPT ![r] = 0]
    /\ todo' = todo \ {r}
    /\ UNCHANGED <<world, retryIn, pc, enabled, seen, cur, curPath, child,
                   life, owner, reading, sawData, crashes>>

Ready(r) == InLoop(r) /\ ~Unavailable(r) /\ ~Waiting(r)

Blocked_IgnoringRetry(r) == running[r] # NoProc

\* Already running, or a failure too recent; statusLocked creates a missing entry.
Blocked(r) == running[r] # NoProc \/ retryIn[r] > 0

SkipBlocked(r) ==
    /\ Ready(r)
    /\ Blocked(r)
    /\ health' = [health EXCEPT ![r] = IF @ = "none" THEN "off" ELSE @]
    /\ todo' = todo \ {r}
    /\ UNCHANGED <<world, running, backoff, retryIn, pc, enabled, seen, cur, curPath, child,
                   procs, crashes>>

Begin(r) ==
    /\ Ready(r)
    /\ ~Blocked(r)
    /\ health' = [health EXCEPT ![r] = IF @ = "none" THEN "off" ELSE @]
    /\ todo' = todo \ {r}
    /\ cur' = r
    /\ curPath' = path[r]
    /\ pc' = "spawn"
    /\ UNCHANGED <<world, running, backoff, retryIn, enabled, seen, child, procs, crashes>>

TickEnd ==
    /\ pc = "loop" /\ todo = {}
    /\ pc' = "idle"
    /\ enabled' = {}
    /\ seen' = Nothing
    /\ UNCHANGED <<world, state, todo, cur, curPath, child, procs, crashes>>

----------------------------------------------------------------------------
(* startOne. *)

Return ==
    /\ pc' = "loop"
    /\ cur' = NoRelay
    /\ curPath' = NoGen
    /\ child' = NoProc
    /\ UNCHANGED <<enabled, seen, todo>>

Crash == crashes < MaxCrashes /\ crashes' = crashes + 1

PipeFails ==
    /\ pc = "spawn"
    /\ Crash
    /\ Return
    /\ UNCHANGED <<world, state, procs>>

SpawnFails ==
    /\ pc = "spawn"
    /\ Crash
    /\ scheduleRetry(cur)
    /\ Return
    /\ UNCHANGED <<world, running, procs>>

Spawn(p) ==
    /\ pc = "spawn"
    /\ life[p] = "gone"
    /\ life' = [life EXCEPT ![p] = "alive"]
    /\ owner' = [owner EXCEPT ![p] = cur]
    /\ reading' = [reading EXCEPT ![p] = curPath]
    /\ child' = p
    /\ pc' = "register"
    /\ UNCHANGED <<world, state, enabled, seen, todo, cur, curPath, signalled, sawData, crashes>>

Register ==
    /\ pc = "register"
    /\ running' = [running EXCEPT ![cur] = child]
    /\ health' = [health EXCEPT ![cur] = "connecting"]
    /\ Return
    /\ UNCHANGED <<world, backoff, retryIn, procs, crashes>>

\* For a clean shutdown; Tick's goroutine is not stopped first.
StopAll ==
    /\ Changed
    /\ Stop(Relays)
    /\ health' = [r \in Relays |-> IF running[r] = NoProc THEN health[r] ELSE "off"]
    /\ UNCHANGED <<conf, usable, onAir, path, backoff, retryIn, pc, tick, life, owner, reading, sawData, crashes>>

----------------------------------------------------------------------------
(* The processes and their goroutines. *)

\* Its input: ffmpeg ends when the publisher of the path it reads goes away.
Fed(p) ==
    /\ owner[p] \in onAir
    /\ owner[p] \in Composed => reading[p] = path[owner[p]]

ExitOf(p) ==
    /\ life[p] = "alive"
    /\ life' = [life EXCEPT ![p] = "exited"]
    /\ UNCHANGED <<world, state, pc, tick, owner, reading, signalled, sawData>>

Exit(p) ==
    /\ p \in signalled \/ ~Fed(p)
    /\ ExitOf(p)
    /\ UNCHANGED crashes

\* The destination refuses or drops the connection, or ffmpeg fails by itself.
Fail(p) ==
    /\ p \notin signalled
    /\ Fed(p)
    /\ Crash
    /\ ExitOf(p)

Superseded_Never(p) == FALSE
Superseded_Always(p) == TRUE
Superseded(p) == running[owner[p]] # p

Reap(p) ==
    /\ life[p] = "exited" /\ p # child
    /\ life' = [life EXCEPT ![p] = "reaped"]
    /\ IF Superseded(p)
         THEN UNCHANGED state
         ELSE /\ running' = [running EXCEPT ![owner[p]] = NoProc]
              /\ scheduleRetry(owner[p])
    /\ UNCHANGED <<world, pc, tick, owner, reading, signalled, sawData, crashes>>

\* readProgress, first line that counts bytes; it may have been scanned before Wait
\* returned and get the lock after.
RecordFrame(p) ==
    /\ Attached(p) /\ p \notin sawData
    /\ sawData' = sawData \cup {p}
    /\ IF health[owner[p]] \in {"none", "live"}
         THEN UNCHANGED <<health, backoff>>
         ELSE /\ health' = [health EXCEPT ![owner[p]] = "live"]
              /\ backoff' = [backoff EXCEPT ![owner[p]] = 0]
    /\ UNCHANGED <<world, running, retryIn, pc, tick, life, owner, reading, signalled, crashes>>

\* readStderr: the last error itself is not modelled, the entry it creates is.
RecordStderr(p) ==
    /\ Attached(p)
    /\ health[owner[p]] = "none"
    /\ health' = [health EXCEPT ![owner[p]] = "off"]
    /\ UNCHANGED <<world, running, backoff, retryIn, pc, tick, procs, crashes>>

\* The readers reach the end of the pipes: nothing of the process is left.
Forget(p) ==
    /\ life[p] = "reaped"
    /\ life' = [life EXCEPT ![p] = "gone"]
    /\ owner' = [owner EXCEPT ![p] = NoRelay]
    /\ reading' = [reading EXCEPT ![p] = NoGen]
    /\ signalled' = signalled \ {p}
    /\ sawData' = sawData \ {p}
    /\ UNCHANGED <<world, state, pc, tick, crashes>>

----------------------------------------------------------------------------

LoopStep == \E r \in Relays : SkipUnavailable(r) \/ SkipWaiting(r) \/ SkipBlocked(r) \/ Begin(r)

StartStep == PipeFails \/ SpawnFails \/ (\E p \in Procs : Spawn(p)) \/ Register

TickStep == TickBegin \/ ReadSources \/ LoopStep \/ StartStep \/ TickEnd

ProcStep(p) == Exit(p) \/ Fail(p) \/ Reap(p) \/ RecordFrame(p) \/ RecordStderr(p) \/ Forget(p)

World ==
    \E r \in Relays : Configure(r) \/ SourceChanges(r) \/ (\E g \in Paths : Handoff(r, g))

Next ==
    \/ World
    \/ Elapse
    \/ TickStep
    \/ ListFails
    \/ StopAll
    \/ \E p \in Procs : ProcStep(p)

Spec == Init /\ [][Next]_vars

\* The ticker and the clock go on; MediaMTX answers ListIngest again and again; a process
\* that is signalled or has lost its input ends, its goroutines run, and a process that
\* keeps its input gets data through.
Fairness ==
    /\ WF_vars(Elapse)
    /\ WF_vars(TickBegin) /\ SF_vars(ReadSources)
    /\ WF_vars(LoopStep) /\ WF_vars(StartStep) /\ WF_vars(TickEnd)
    /\ \A p \in Procs :
        WF_vars(Exit(p)) /\ WF_vars(Reap(p)) /\ WF_vars(RecordFrame(p)) /\ WF_vars(Forget(p))

FairSpec == Spec /\ Fairness

----------------------------------------------------------------------------
(* Properties. *)

Unsignalled(r) == {p \in Procs : owner[p] = r /\ life[p] = "alive" /\ p \notin signalled}

\* A destination is never fed twice: of the processes of a relay at most one has not been
\* told to stop, the one being started included, and once registered it is the tracked one.
OneFeed ==
    \A r \in Relays : \A p, q \in Unsignalled(r) :
        /\ p = q
        /\ p # child => running[r] = p

\* What StatusOf may say: a tracked process is "connecting" or "live", and "connecting"
\* is never said without one.
StatusTruth ==
    \A r \in Relays :
        /\ running[r] # NoProc => health[r] \in {"connecting", "live"}
        /\ health[r] = "connecting" => running[r] # NoProc

\* "a rejected stream key fails instantly and forever, so without this one typo becomes an
\* ffmpeg spawn every couple of seconds": no relay is spawned while its delay runs, though
\* the delay is read in one locked section and the fork happens after it.
NoEarlySpawn ==
    [][\A p \in Procs : life[p] = "gone" /\ life'[p] = "alive" => retryIn[owner'[p]] = 0]_vars

\* "Anything running that should not be": a relay that stays off or deleted ends with no
\* process, whatever Tick or startOne was doing when it was switched off.
SwitchedOffStops ==
    \A r \in Relays :
        <>[](conf[r] # "on") => <>[](\A p \in Procs : owner[p] # r)

\* A relay that stays enabled over a source that stays available is forwarding it, from
\* the generation that is live, after any handoff, crash or delay that came before.
FollowsSource ==
    \A r \in Relays, g \in Paths :
        <>[](/\ conf[r] = "on" /\ r \in usable /\ r \in onAir
             /\ path[r] = g /\ (r \in Composed => g # NoGen))
        => <>[](/\ running[r] # NoProc /\ health[r] = "live"
                /\ life[running[r]] = "alive" /\ reading[running[r]] = g)

\* tick.go: waiting is "not a failure, so no backoff - a reconnect should resume
\* immediately".  Expected to fail: RetryAt survives the reset of the delay.
ResumesAtOnce ==
    \A r \in Relays : health[r] = "waiting" => retryIn[r] = 0
=============================================================================
