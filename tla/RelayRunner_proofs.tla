------------------------ MODULE RelayRunner_proofs ------------------------
(***************************************************************************)
(* Proofs about the relay runner, for any number of relays, processes,     *)
(* generations, changes and crashes.                                       *)
(*                                                                         *)
(* Tick decides to start a relay under the lock and startOne acts on the   *)
(* decision outside it.  What makes that safe is Decided: while it is      *)
(* being started nothing is tracked for the relay and its delay is over,   *)
(* because only startOne registers a process, in Tick's own goroutine, and *)
(* only the end of a tracked process schedules another delay.              *)
(***************************************************************************)
EXTENDS RelayRunner, TLAPS

USE DEF world, tick, state, procs, States, Paths

\* What Begin found under the lock still holds when startOne acts on it.
Decided ==
    pc \in {"spawn", "register"} => cur \in Relays /\ running[cur] = NoProc /\ retryIn[cur] = 0

\* A process startOne has spawned is known to nobody else until it is registered.
ChildIsPrivate ==
    /\ pc = "register" => child \in Procs /\ owner[child] = cur /\ life[child] \in {"alive", "exited"}
    /\ pc # "register" => child = NoProc

\* A process was started for a relay.
OwnerIsRelay == \A p \in Procs : life[p] # "gone" => owner[p] \in Relays

\* The tracked process of a relay is a registered one that was started for it.
TrackedIsOwn ==
    \A r \in Relays : running[r] # NoProc =>
        /\ running[r] # child
        /\ owner[running[r]] = r
        /\ life[running[r]] \in {"alive", "exited"}

Wiring == Decided /\ ChildIsPrivate /\ OwnerIsRelay /\ TrackedIsOwn

\* A registered process that was not told to stop is the one tracked for its relay.
OnlyTracked ==
    \A p \in Procs : life[p] = "alive" /\ p \notin signalled /\ p # child => running[owner[p]] = p

IInv == TypeOK /\ Wiring /\ OnlyTracked /\ StatusTruth

----------------------------------------------------------------------------
(* Type correctness. *)

LEMMA DelayType ==
    ASSUME NEW d \in 0..MaxBackoff
    PROVE  NextDelay(d) \in 0..MaxBackoff
  BY NumAssumption DEF NextDelay, Bound

LEMMA RetryType ==
    ASSUME TypeOK, NEW r, scheduleRetry(r)
    PROVE  /\ health' \in [Relays -> States]
           /\ backoff' \in [Relays -> 0..MaxBackoff]
           /\ retryIn' \in [Relays -> 0..MaxBackoff]
  <1>1. health' \in [Relays -> States]
    BY DEF TypeOK, scheduleRetry
  <1>2. backoff' \in [Relays -> 0..MaxBackoff]
    BY DelayType DEF TypeOK, scheduleRetry
  <1>3. retryIn' \in [Relays -> 0..MaxBackoff]
    <2>1. CASE r \in Relays
      BY <2>1, DelayType DEF TypeOK, scheduleRetry
    <2>2. CASE r \notin Relays
      BY <2>2 DEF TypeOK, scheduleRetry
    <2>. QED  BY <2>1, <2>2
  <1>. QED  BY <1>1, <1>2, <1>3

LEMMA StopType ==
    ASSUME TypeOK, NEW rs \in SUBSET Relays, Stop(rs)
    PROVE  signalled' \in SUBSET Procs /\ running' \in [Relays -> Procs \cup {NoProc}]
  BY DEF TypeOK, Stop, Tracked

LEMMA InitType == Init => TypeOK
  BY NumAssumption DEF Init, TypeOK, Nothing

LEMMA WorldType == TypeOK /\ World => TypeOK'
  <1>. SUFFICES ASSUME TypeOK, World PROVE TypeOK'
    OBVIOUS
  <1>. USE NumAssumption
  <1>1. ASSUME NEW r \in Relays, Configure(r) PROVE TypeOK'
    BY <1>1 DEF TypeOK, Configure, Changed
  <1>2. ASSUME NEW r \in Relays, SourceChanges(r) PROVE TypeOK'
    <2>1. usable' \in SUBSET Relays /\ onAir' \in SUBSET Relays
      BY <1>2 DEF TypeOK, SourceChanges, Flip
    <2>. QED  BY <1>2, <2>1 DEF TypeOK, SourceChanges, Changed
  <1>3. ASSUME NEW r \in Relays, NEW g \in Paths, Handoff(r, g) PROVE TypeOK'
    BY <1>3 DEF TypeOK, Handoff, Changed
  <1>. QED  BY <1>1, <1>2, <1>3 DEF World

LEMMA TickType == TypeOK /\ (TickStep \/ ListFails) => TypeOK'
  <1>. SUFFICES ASSUME TypeOK, TickStep \/ ListFails PROVE TypeOK'
    OBVIOUS
  <1>. USE NumAssumption
  <1>1. CASE TickBegin
    <2>1. signalled' \in SUBSET Procs /\ running' \in [Relays -> Procs \cup {NoProc}]
      BY <1>1, StopType DEF TickBegin
    <2>2. health' \in [Relays -> States]
      BY <1>1 DEF TypeOK, TickBegin, Stored
    <2>3. backoff' \in [Relays -> 0..MaxBackoff] /\ retryIn' \in [Relays -> 0..MaxBackoff]
      BY <1>1 DEF TypeOK, TickBegin
    <2>. QED  BY <1>1, <2>1, <2>2, <2>3 DEF TypeOK, TickBegin
  <1>2. CASE ListFails
    BY <1>2 DEF TypeOK, ListFails
  <1>3. CASE ReadSources
    BY <1>3 DEF TypeOK, ReadSources
  <1>4. ASSUME NEW r \in Relays, SkipUnavailable(r) PROVE TypeOK'
    BY <1>4, StopType DEF TypeOK, SkipUnavailable
  <1>5. ASSUME NEW r \in Relays, SkipWaiting(r) PROVE TypeOK'
    BY <1>5, StopType DEF TypeOK, SkipWaiting
  <1>6. ASSUME NEW r \in Relays, SkipBlocked(r) PROVE TypeOK'
    BY <1>6 DEF TypeOK, SkipBlocked
  <1>7. ASSUME NEW r \in Relays, Begin(r) PROVE TypeOK'
    BY <1>7 DEF TypeOK, Begin
  <1>8. CASE PipeFails
    BY <1>8 DEF TypeOK, PipeFails, Crash, Return
  <1>9. CASE SpawnFails
    BY <1>9, RetryType DEF TypeOK, SpawnFails, Crash, Return
  <1>10. ASSUME NEW p \in Procs, Spawn(p) PROVE TypeOK'
    BY <1>10 DEF TypeOK, Spawn
  <1>11. CASE Register
    BY <1>11 DEF TypeOK, Register, Return
  <1>12. CASE TickEnd
    BY <1>12 DEF TypeOK, TickEnd, Nothing
  <1>. QED
    BY <1>1, <1>2, <1>3, <1>4, <1>5, <1>6, <1>7, <1>8, <1>9, <1>10, <1>11, <1>12
       DEF TickStep, LoopStep, StartStep

LEMMA ProcType == ASSUME TypeOK, NEW p \in Procs, ProcStep(p) PROVE TypeOK'
  <1>. USE NumAssumption
  <1>1. CASE Exit(p)
    BY <1>1 DEF TypeOK, Exit, ExitOf
  <1>2. CASE Fail(p)
    BY <1>2 DEF TypeOK, Fail, ExitOf, Crash
  <1>3. CASE Reap(p)
    BY <1>3, RetryType DEF TypeOK, Reap
  <1>4. CASE RecordFrame(p)
    BY <1>4 DEF TypeOK, RecordFrame
  <1>5. CASE RecordStderr(p)
    BY <1>5 DEF TypeOK, RecordStderr
  <1>6. CASE Forget(p)
    BY <1>6 DEF TypeOK, Forget
  <1>. QED  BY <1>1, <1>2, <1>3, <1>4, <1>5, <1>6 DEF ProcStep

LEMMA NextType == TypeOK /\ [Next]_vars => TypeOK'
  <1>. SUFFICES ASSUME TypeOK, [Next]_vars PROVE TypeOK'
    OBVIOUS
  <1>1. CASE Elapse
    <2>1. \A r \in Relays : retryIn'[r] \in 0..MaxBackoff
      BY <1>1, NumAssumption DEF TypeOK, Elapse
    <2>2. retryIn' \in [Relays -> 0..MaxBackoff]
      BY <1>1, <2>1 DEF Elapse
    <2>. QED  BY <1>1, <2>2 DEF TypeOK, Elapse
  <1>2. CASE StopAll
    BY <1>2, StopType, NumAssumption DEF TypeOK, StopAll, Changed
  <1>3. CASE UNCHANGED vars
    BY <1>3 DEF TypeOK, vars
  <1>. QED  BY <1>1, <1>2, <1>3, WorldType, TickType, ProcType DEF Next

\* Every reachable state is well typed, for all values of the constants and the bounds.
THEOREM TypeCorrect == Spec => []TypeOK
  BY InitType, NextType, PTL DEF Spec

----------------------------------------------------------------------------
(* The wiring of Tick, processes and maps. *)

LEMMA InitWiring == Init => Wiring /\ OnlyTracked /\ StatusTruth
  BY DEF Init, Wiring, Decided, ChildIsPrivate, OwnerIsRelay, TrackedIsOwn, OnlyTracked, StatusTruth

\* What a step that spawns, registers and ends no process preserves: it may stop relays,
\* shorten delays, and move Tick anywhere but into startOne.
LEMMA WiringFrame ==
    ASSUME TypeOK, Wiring,
           UNCHANGED <<child, owner>>,
           \/ pc' = pc /\ cur' = cur
           \/ pc' \in {"idle", "list", "loop"} /\ pc # "register",
           \A p \in Procs : life'[p] = life[p] \/ (life[p] = "alive" /\ life'[p] = "exited"),
           \A r \in Relays : running'[r] \in {running[r], NoProc},
           \A r \in Relays : retryIn[r] = 0 => retryIn'[r] = 0
    PROVE  Wiring'
  <1>1. Decided'
    BY DEF Wiring, Decided
  <1>2. ChildIsPrivate'
    BY DEF Wiring, ChildIsPrivate
  <1>3. OwnerIsRelay'
    BY DEF Wiring, OwnerIsRelay
  <1>4. TrackedIsOwn'
    BY DEF TypeOK, Wiring, TrackedIsOwn
  <1>. QED  BY <1>1, <1>2, <1>3, <1>4 DEF Wiring

LEMMA BeginWiring ==
    ASSUME TypeOK, Wiring, NEW r \in Relays, Begin(r)
    PROVE  Wiring'
  <1>. USE DEF Begin, Ready, InLoop
  <1>1. running[r] = NoProc /\ retryIn[r] = 0
    BY NumAssumption DEF TypeOK, Blocked
  <1>2. Decided' /\ ChildIsPrivate'
    BY <1>1 DEF Wiring, Decided, ChildIsPrivate
  <1>3. OwnerIsRelay' /\ TrackedIsOwn'
    BY DEF Wiring, OwnerIsRelay, TrackedIsOwn
  <1>. QED  BY <1>2, <1>3 DEF Wiring

\* startOne gives up.
LEMMA GiveUpWiring ==
    ASSUME TypeOK, Wiring, pc = "spawn", Return, UNCHANGED <<running, procs>>
    PROVE  Wiring'
  <1>1. child = NoProc /\ child' = NoProc
    BY DEF Return, Wiring, ChildIsPrivate
  <1>2. Decided' /\ ChildIsPrivate'
    BY <1>1 DEF Return, Decided, ChildIsPrivate
  <1>3. OwnerIsRelay' /\ TrackedIsOwn'
    BY <1>1 DEF Wiring, OwnerIsRelay, TrackedIsOwn
  <1>. QED  BY <1>2, <1>3 DEF Wiring

LEMMA SpawnWiring ==
    ASSUME TypeOK, Wiring, NEW p \in Procs, Spawn(p)
    PROVE  Wiring'
  <1>. USE DEF Spawn
  <1>1. cur \in Relays /\ running[cur] = NoProc /\ retryIn[cur] = 0
    BY DEF Wiring, Decided
  <1>2. Decided' /\ ChildIsPrivate'
    BY <1>1 DEF TypeOK, Decided, ChildIsPrivate
  <1>3. OwnerIsRelay'
    BY <1>1 DEF TypeOK, Wiring, OwnerIsRelay
  <1>4. \A r \in Relays : running[r] # p
    BY ProcAssumption DEF Wiring, TrackedIsOwn
  <1>5. TrackedIsOwn'
    BY <1>4 DEF TypeOK, Wiring, TrackedIsOwn
  <1>. QED  BY <1>2, <1>3, <1>5 DEF Wiring

LEMMA RegisterWiring ==
    ASSUME TypeOK, Wiring, Register
    PROVE  Wiring'
  <1>. USE DEF Register, Return
  <1>1. cur \in Relays /\ child \in Procs /\ owner[child] = cur /\ life[child] \in {"alive", "exited"}
    BY DEF Wiring, Decided, ChildIsPrivate
  <1>2. Decided' /\ ChildIsPrivate' /\ OwnerIsRelay'
    BY DEF Wiring, Decided, ChildIsPrivate, OwnerIsRelay
  <1>3. TrackedIsOwn'
    BY <1>1, ProcAssumption DEF TypeOK, Wiring, TrackedIsOwn
  <1>. QED  BY <1>2, <1>3 DEF Wiring

LEMMA ReapWiring ==
    ASSUME TypeOK, Wiring, NEW p \in Procs, Reap(p)
    PROVE  Wiring'
  <1>. USE DEF Reap
  <1>1. owner[p] \in Relays
    BY DEF Wiring, OwnerIsRelay
  <1>2. ChildIsPrivate' /\ OwnerIsRelay'
    BY DEF TypeOK, Wiring, ChildIsPrivate, OwnerIsRelay
  <1>3. CASE Superseded(p)
    <2>1. \A r \in Relays : running[r] # p
      BY <1>3, ProcAssumption DEF Superseded, Wiring, TrackedIsOwn
    <2>2. TrackedIsOwn'
      BY <1>3, <2>1 DEF TypeOK, Wiring, TrackedIsOwn
    <2>3. Decided'
      BY <1>3 DEF Wiring, Decided
    <2>. QED  BY <1>2, <2>2, <2>3 DEF Wiring
  <1>4. CASE ~Superseded(p)
    <2>1. running[owner[p]] = p /\ running' = [running EXCEPT ![owner[p]] = NoProc]
      BY <1>4 DEF Superseded
    <2>2. TrackedIsOwn'
      BY <1>1, <2>1 DEF TypeOK, Wiring, TrackedIsOwn
    <2>3. pc \in {"spawn", "register"} => cur # owner[p]
      BY <2>1, ProcAssumption DEF Wiring, Decided
    <2>4. Decided'
      BY <1>1, <1>4, <2>1, <2>3 DEF TypeOK, Wiring, Decided, scheduleRetry
    <2>. QED  BY <1>2, <2>2, <2>4 DEF Wiring
  <1>. QED  BY <1>3, <1>4

LEMMA ForgetWiring ==
    ASSUME TypeOK, Wiring, NEW p \in Procs, Forget(p)
    PROVE  Wiring'
  <1>. USE DEF Forget
  <1>1. Decided' /\ ChildIsPrivate' /\ OwnerIsRelay'
    BY DEF TypeOK, Wiring, Decided, ChildIsPrivate, OwnerIsRelay
  <1>2. TrackedIsOwn'
    BY DEF TypeOK, Wiring, TrackedIsOwn
  <1>. QED  BY <1>1, <1>2 DEF Wiring

LEMMA NextWiring == TypeOK /\ Wiring /\ [Next]_vars => Wiring'
  <1>. SUFFICES ASSUME TypeOK, Wiring, [Next]_vars PROVE Wiring'
    OBVIOUS
  <1>. USE DEF Stop
  <1>1. CASE World \/ UNCHANGED vars
    BY <1>1, WiringFrame DEF World, Configure, SourceChanges, Handoff, vars
  <1>2. CASE Elapse
    BY <1>2, WiringFrame DEF Elapse
  <1>3. CASE TickBegin
    BY <1>3, WiringFrame DEF TickBegin, TypeOK
  <1>4. CASE ListFails \/ ReadSources \/ TickEnd
    BY <1>4, WiringFrame DEF ListFails, ReadSources, TickEnd
  <1>5. ASSUME NEW r \in Relays, SkipUnavailable(r) \/ SkipWaiting(r) \/ SkipBlocked(r) PROVE Wiring'
    BY <1>5, WiringFrame DEF SkipUnavailable, SkipWaiting, SkipBlocked
  <1>6. ASSUME NEW r \in Relays, Begin(r) PROVE Wiring'
    BY <1>6, BeginWiring
  <1>7. CASE PipeFails \/ SpawnFails
    BY <1>7, GiveUpWiring DEF PipeFails, SpawnFails
  <1>8. ASSUME NEW p \in Procs, Spawn(p) PROVE Wiring'
    BY <1>8, SpawnWiring
  <1>9. CASE Register
    BY <1>9, RegisterWiring
  <1>10. CASE StopAll
    BY <1>10, WiringFrame DEF StopAll
  <1>11. ASSUME NEW p \in Procs, Exit(p) \/ Fail(p) PROVE Wiring'
    BY <1>11, WiringFrame DEF Exit, Fail, ExitOf, TypeOK
  <1>12. ASSUME NEW p \in Procs, Reap(p) PROVE Wiring'
    BY <1>12, ReapWiring
  <1>13. ASSUME NEW p \in Procs, RecordFrame(p) \/ RecordStderr(p) PROVE Wiring'
    BY <1>13, WiringFrame DEF RecordFrame, RecordStderr
  <1>14. ASSUME NEW p \in Procs, Forget(p) PROVE Wiring'
    BY <1>14, ForgetWiring
  <1>. QED
    BY <1>1, <1>2, <1>3, <1>4, <1>5, <1>6, <1>7, <1>8, <1>9, <1>10, <1>11, <1>12, <1>13, <1>14
       DEF Next, TickStep, LoopStep, StartStep, ProcStep

----------------------------------------------------------------------------
(* A destination is fed by one process. *)

\* Stopping relays, and whatever starts, registers, ends and forgets no process.
LEMMA StopTracked ==
    ASSUME TypeOK, Wiring, OnlyTracked, NEW rs \in SUBSET Relays, Stop(rs),
           UNCHANGED <<life, owner, child>>
    PROVE  OnlyTracked'
  <1>. SUFFICES ASSUME NEW p \in Procs, life[p] = "alive", p \notin signalled', p # child
                PROVE  running'[owner[p]] = p
    BY DEF OnlyTracked
  <1>1. running[owner[p]] = p /\ owner[p] \in Relays
    BY DEF OnlyTracked, Stop, Wiring, OwnerIsRelay
  <1>2. owner[p] \notin rs
    BY <1>1, ProcAssumption DEF Stop, Tracked
  <1>. QED  BY <1>1, <1>2 DEF TypeOK, Stop

LEMMA NextTracked == TypeOK /\ Wiring /\ OnlyTracked /\ [Next]_vars => OnlyTracked'
  <1>. SUFFICES ASSUME TypeOK, Wiring, OnlyTracked, [Next]_vars PROVE OnlyTracked'
    OBVIOUS
  <1>1. CASE World \/ Elapse \/ UNCHANGED vars
    BY <1>1 DEF World, Configure, SourceChanges, Handoff, Elapse, vars, OnlyTracked
  <1>2. CASE TickBegin
    BY <1>2, StopTracked DEF TickBegin
  <1>3. CASE ListFails \/ ReadSources \/ TickEnd
    BY <1>3 DEF ListFails, ReadSources, TickEnd, OnlyTracked
  <1>4. ASSUME NEW r \in Relays, SkipUnavailable(r) \/ SkipWaiting(r) PROVE OnlyTracked'
    BY <1>4, StopTracked DEF SkipUnavailable, SkipWaiting
  <1>5. ASSUME NEW r \in Relays, SkipBlocked(r) \/ Begin(r) PROVE OnlyTracked'
    BY <1>5 DEF SkipBlocked, Begin, OnlyTracked
  <1>6. CASE PipeFails \/ SpawnFails
    BY <1>6 DEF PipeFails, SpawnFails, Return, OnlyTracked, Wiring, ChildIsPrivate
  <1>7. ASSUME NEW p \in Procs, Spawn(p) PROVE OnlyTracked'
    <2>1. child = NoProc /\ child' = p
      BY <1>7 DEF Spawn, Wiring, ChildIsPrivate
    <2>2. \A q \in Procs : q # p => life'[q] = life[q] /\ owner'[q] = owner[q]
      BY <1>7 DEF Spawn, TypeOK
    <2>. QED  BY <1>7, <2>1, <2>2, ProcAssumption DEF Spawn, OnlyTracked
  <1>8. CASE Register
    <2>1. running[cur] = NoProc /\ cur \in Relays /\ owner[child] = cur
      BY <1>8 DEF Register, Wiring, Decided, ChildIsPrivate
    <2>. QED  BY <1>8, <2>1, ProcAssumption DEF Register, Return, TypeOK, OnlyTracked
  <1>9. CASE StopAll
    BY <1>9, StopTracked DEF StopAll
  <1>10. ASSUME NEW p \in Procs, Exit(p) \/ Fail(p) PROVE OnlyTracked'
    <2>1. \A q \in Procs : life'[q] = "alive" => life[q] = "alive"
      BY <1>10 DEF Exit, Fail, ExitOf, TypeOK
    <2>. QED  BY <1>10, <2>1 DEF Exit, Fail, ExitOf, OnlyTracked
  <1>11. ASSUME NEW p \in Procs, Reap(p) PROVE OnlyTracked'
    <2>1. \A r \in Relays : running[r] # p => running'[r] = running[r]
      BY <1>11 DEF Reap, Superseded, TypeOK
    <2>. QED  BY <1>11, <2>1 DEF Reap, TypeOK, OnlyTracked, Wiring, OwnerIsRelay
  <1>12. ASSUME NEW p \in Procs, RecordFrame(p) \/ RecordStderr(p) PROVE OnlyTracked'
    BY <1>12 DEF RecordFrame, RecordStderr, OnlyTracked
  <1>13. ASSUME NEW p \in Procs, Forget(p) PROVE OnlyTracked'
    BY <1>13 DEF Forget, TypeOK, OnlyTracked
  <1>. QED
    BY <1>1, <1>2, <1>3, <1>4, <1>5, <1>6, <1>7, <1>8, <1>9, <1>10, <1>11, <1>12, <1>13
       DEF Next, TickStep, LoopStep, StartStep, ProcStep

----------------------------------------------------------------------------
(* The status of a relay agrees with what is tracked for it. *)

LEMMA NextStatusTruth == TypeOK /\ Wiring /\ StatusTruth /\ [Next]_vars => StatusTruth'
  <1>. SUFFICES ASSUME TypeOK, Wiring, StatusTruth, [Next]_vars, NEW r \in Relays
                PROVE  /\ running'[r] # NoProc => health'[r] \in {"connecting", "live"}
                       /\ health'[r] = "connecting" => running'[r] # NoProc
    BY DEF StatusTruth
  <1>. DEFINE Truth == /\ running'[r] # NoProc => health'[r] \in {"connecting", "live"}
                       /\ health'[r] = "connecting" => running'[r] # NoProc
  <1>0. /\ running[r] # NoProc => health[r] \in {"connecting", "live"}
        /\ health[r] = "connecting" => running[r] # NoProc
    BY DEF StatusTruth
  <1>. USE DEF TypeOK, Stop
  <1>1. CASE World \/ Elapse \/ UNCHANGED vars
    BY <1>0, <1>1 DEF World, Configure, SourceChanges, Handoff, Elapse, vars
  <1>2. CASE TickBegin
    BY <1>0, <1>2 DEF TickBegin, Unwanted, Stored
  <1>3. CASE ListFails \/ ReadSources \/ TickEnd
    BY <1>0, <1>3 DEF ListFails, ReadSources, TickEnd
  <1>4. ASSUME NEW q \in Relays, SkipUnavailable(q) \/ SkipWaiting(q) PROVE Truth
    BY <1>0, <1>4 DEF SkipUnavailable, SkipWaiting
  <1>5. ASSUME NEW q \in Relays, SkipBlocked(q) \/ Begin(q) PROVE Truth
    BY <1>0, <1>5 DEF SkipBlocked, Begin
  <1>6. CASE PipeFails
    BY <1>0, <1>6 DEF PipeFails
  <1>7. CASE SpawnFails
    <2>1. running[cur] = NoProc
      BY <1>7 DEF SpawnFails, Wiring, Decided
    <2>. QED  BY <1>0, <1>7, <2>1 DEF SpawnFails, scheduleRetry
  <1>8. ASSUME NEW p \in Procs, Spawn(p) PROVE Truth
    BY <1>0, <1>8 DEF Spawn
  <1>9. CASE Register
    BY <1>0, <1>9, ProcAssumption DEF Register, Wiring, ChildIsPrivate
  <1>10. CASE StopAll
    BY <1>0, <1>10 DEF StopAll
  <1>11. ASSUME NEW p \in Procs, Exit(p) \/ Fail(p) PROVE Truth
    BY <1>0, <1>11 DEF Exit, Fail, ExitOf
  <1>12. ASSUME NEW p \in Procs, Reap(p) PROVE Truth
    BY <1>0, <1>12 DEF Reap, scheduleRetry
  <1>13. ASSUME NEW p \in Procs, RecordFrame(p) \/ RecordStderr(p) PROVE Truth
    BY <1>0, <1>13 DEF RecordFrame, RecordStderr
  <1>14. ASSUME NEW p \in Procs, Forget(p) PROVE Truth
    BY <1>0, <1>14 DEF Forget
  <1>. QED
    BY <1>1, <1>2, <1>3, <1>4, <1>5, <1>6, <1>7, <1>8, <1>9, <1>10, <1>11, <1>12, <1>13, <1>14
       DEF Next, TickStep, LoopStep, StartStep, ProcStep

----------------------------------------------------------------------------

\* What every section of Tick and startOne and every goroutine preserves: the wiring of the
\* Tick in progress, the processes and the maps, with what rests on it.
THEOREM InductiveInvariant == Spec => []IInv
  <1>1. Init => IInv
    BY InitType, InitWiring DEF IInv
  <1>2. IInv /\ [Next]_vars => IInv'
    BY NextType, NextWiring, NextTracked, NextStatusTruth DEF IInv
  <1>. QED  BY <1>1, <1>2, PTL DEF Spec

\* Tick, startOne: of the processes of a relay at most one has not been told to stop, and
\* once it is registered it is the one that is tracked.
THEOREM FedOnce == Spec => []OneFeed
  <1>1. IInv => OneFeed
    <2>. SUFFICES ASSUME IInv, NEW r \in Relays,
                         NEW p \in Unsignalled(r), NEW q \in Unsignalled(r)
                  PROVE  p = q /\ (p # child => running[r] = p)
      BY DEF OneFeed
    <2>1. /\ p # child => running[r] = p
          /\ q # child => running[r] = q
      BY DEF IInv, OnlyTracked, Unsignalled
    <2>2. child \in Procs /\ owner[child] = r => running[r] = NoProc
      BY ProcAssumption DEF IInv, Wiring, Decided, ChildIsPrivate
    <2>. QED  BY <2>1, <2>2, ProcAssumption DEF Unsignalled
  <1>. QED  BY <1>1, InductiveInvariant, PTL

\* StatusOf: what is reported of a relay agrees with the process that is tracked.
THEOREM StatusIsTrue == Spec => []StatusTruth
  BY InductiveInvariant, PTL DEF IInv

\* Tick, startOne: no process is spawned for a relay whose delay has not run out, although
\* the delay is read under the lock and the fork happens outside it.
THEOREM NeverSpawnedEarly == Spec => NoEarlySpawn
  <1>. DEFINE OnTime == \A p \in Procs :
                  life[p] = "gone" /\ life'[p] = "alive" => retryIn[owner'[p]] = 0
  <1>1. IInv /\ [Next]_vars => [OnTime]_vars
    <2>. SUFFICES ASSUME IInv, Next, NEW p \in Procs, life[p] = "gone", life'[p] = "alive"
                  PROVE  retryIn[owner'[p]] = 0
      OBVIOUS
    <2>1. Spawn(p)
      <3>1. ASSUME NEW q \in Procs, ProcStep(q) PROVE FALSE
        BY <3>1 DEF ProcStep, Exit, Fail, ExitOf, Reap, RecordFrame, RecordStderr, Forget,
                    IInv, TypeOK
      <3>2. ASSUME NEW q \in Procs, Spawn(q), q # p PROVE FALSE
        BY <3>2 DEF Spawn, IInv, TypeOK
      <3>. QED
        BY <3>1, <3>2
           DEF Next, World, Configure, SourceChanges, Handoff, Elapse, TickStep, LoopStep,
               StartStep, TickBegin, ListFails, ReadSources, TickEnd, SkipUnavailable,
               SkipWaiting, SkipBlocked, Begin, PipeFails, SpawnFails, Register, StopAll
    <2>2. owner'[p] = cur /\ retryIn[cur] = 0
      BY <2>1 DEF Spawn, IInv, TypeOK, Wiring, Decided
    <2>. QED  BY <2>2
  <1>. QED  BY <1>1, InductiveInvariant, PTL DEF Spec, NoEarlySpawn
=============================================================================
