------------------------- MODULE Compositor_proofs -------------------------
(***************************************************************************)
(* Proofs about the compositor's Runner, for any number of jobs, callers   *)
(* and processes and any cap.                                              *)
(*                                                                         *)
(* IInv is the inductive invariant.  NoOrphan and StatusTruth are not      *)
(* inductive: they rest on what ties a call in flight to the maps.  While  *)
(* a caller is inside StartJob for a job nothing is tracked for it, its    *)
(* child is a process nobody else knows, and the process tracked for a job *)
(* was started for it.                                                     *)
(***************************************************************************)
EXTENDS Compositor, FiniteSetTheorems, TLAPS

USE DEF procVars, callVars, States, Kinds

\* A caller has a job exactly while it is inside StartJob.
CallHasJob == \A c \in Callers : pc[c] = "idle" <=> arg[c] = NoJob

\* Two calls in flight are for different jobs, when the callers see to that.
OneCallPerJob ==
    OneStartPerJob =>
        \A c, d \in Callers : arg[c] # NoJob /\ arg[c] = arg[d] => c = d

\* StartJob has untracked the job's process, and only its own Register tracks another.
QuietWhileStarting ==
    OneStartPerJob => \A c \in Callers : arg[c] # NoJob => running[arg[c]] = NoProc

\* A spawned, unregistered process belongs to its caller alone.
ChildIsPrivate ==
    \A c \in Callers : pc[c] = "register" =>
        /\ child[c] \in Procs
        /\ child[c] \notin attached
        /\ life[child[c]] # "unused"
        /\ owner[child[c]] = arg[c]
        /\ \A d \in Callers : pc[d] = "register" /\ child[d] = child[c] => d = c

\* Goroutines and output only ever come from a process that was started for a job.
Started ==
    \A p \in Procs : life[p] = "unused" => p \notin attached
OwnerIsJob == \A p \in Procs : life[p] # "unused" => owner[p] \in Jobs
LinesFromAttached == \A p \in Procs : lines[p] # {} => p \in attached

\* The tracked process of a job was started for that job.
TrackedIsOwn ==
    \A j \in Jobs : running[j] # NoProc => running[j] \in attached /\ owner[running[j]] = j

Wiring ==
    /\ CallHasJob
    /\ OneCallPerJob
    /\ QuietWhileStarting
    /\ ChildIsPrivate
    /\ Started
    /\ OwnerIsJob
    /\ LinesFromAttached
    /\ TrackedIsOwn

IInv == TypeOK /\ Wiring /\ NoOrphan /\ StatusTruth

----------------------------------------------------------------------------
(* Type correctness. *)

LEMMA DelayType ==
    ASSUME NEW d \in 0..MaxBackoff
    PROVE  NextDelay(d) \in 0..MaxBackoff
  BY NumAssumption DEF NextDelay

LEMMA RetryType ==
    ASSUME TypeOK, NEW j, ScheduleRetry(j)
    PROVE  health' \in [Jobs -> States] /\ backoff' \in [Jobs -> 0..MaxBackoff]
  <1>1. health' \in [Jobs -> States]
    BY DEF TypeOK, ScheduleRetry
  <1>2. backoff' \in [Jobs -> 0..MaxBackoff]
    BY DelayType DEF TypeOK, ScheduleRetry
  <1>. QED  BY <1>1, <1>2

LEMMA InitType == Init => TypeOK
  BY NumAssumption DEF Init, TypeOK

LEMMA NextType == TypeOK /\ [Next]_vars => TypeOK'
  <1>. SUFFICES ASSUME TypeOK, [Next]_vars PROVE TypeOK'
    OBVIOUS
  <1>. USE NumAssumption
  <1>1. ASSUME NEW c \in Callers, NEW j \in Jobs, StartJob(c, j) PROVE TypeOK'
    BY <1>1 DEF TypeOK, StartJob, ProcsOf
  <1>2. ASSUME NEW c \in Callers, PipeFails(c) PROVE TypeOK'
    BY <1>2 DEF TypeOK, PipeFails, Return
  <1>3. ASSUME NEW c \in Callers, SpawnFails(c) PROVE TypeOK'
    BY <1>3, RetryType DEF TypeOK, SpawnFails, Return
  <1>4. ASSUME NEW c \in Callers, NEW p \in Procs, Spawn(c, p) PROVE TypeOK'
    BY <1>4 DEF TypeOK, Spawn
  <1>5. ASSUME NEW c \in Callers, Register(c) PROVE TypeOK'
    <2>1. running' \in [Jobs -> Procs \cup {NoProc}] /\ health' \in [Jobs -> States]
      BY <1>5 DEF TypeOK, Register
    <2>2. attached' \in SUBSET Procs
      BY <1>5 DEF TypeOK, Register
    <2>. QED  BY <1>5, <2>1, <2>2 DEF TypeOK, Register, Return
  <1>6. ASSUME NEW j \in Jobs, StopJob(j) PROVE TypeOK'
    BY <1>6 DEF TypeOK, StopJob, ProcsOf
  <1>7. CASE StopAll
    BY <1>7 DEF TypeOK, StopAll, ProcsOf
  <1>8. ASSUME NEW p \in Procs, Exit(p) PROVE TypeOK'
    BY <1>8 DEF TypeOK, Exit
  <1>9. ASSUME NEW p \in Procs, Reap(p) PROVE TypeOK'
    BY <1>9, RetryType DEF TypeOK, Reap
  <1>10. ASSUME NEW p \in Procs, NEW k \in Kinds, Scan(p, k) PROVE TypeOK'
    BY <1>10 DEF TypeOK, Scan
  <1>11. ASSUME NEW p \in Procs, RecordFrame(p) PROVE TypeOK'
    BY <1>11 DEF TypeOK, RecordFrame
  <1>12. ASSUME NEW p \in Procs, RecordStderr(p) PROVE TypeOK'
    BY <1>12 DEF TypeOK, RecordStderr
  <1>13. CASE UNCHANGED vars
    BY <1>13 DEF TypeOK, vars
  <1>. QED
    BY <1>1, <1>2, <1>3, <1>4, <1>5, <1>6, <1>7, <1>8, <1>9, <1>10, <1>11, <1>12, <1>13
       DEF Next, CallerStep, ProcStep

\* Every reachable state is well typed, for all values of the constants.
THEOREM TypeCorrect == Spec => []TypeOK
  BY InitType, NextType, PTL DEF Spec

----------------------------------------------------------------------------
(* The wiring of calls, processes and maps. *)

LEMMA InitWiring == Init => Wiring
  BY ProcAssumption, JobAssumption
     DEF Init, Wiring, CallHasJob, OneCallPerJob, QuietWhileStarting, ChildIsPrivate,
         Started, OwnerIsJob, LinesFromAttached, TrackedIsOwn

\* What a step that starts, registers and ends no process and no call preserves.
LEMMA WiringFrame ==
    ASSUME TypeOK, Wiring,
           UNCHANGED <<callVars, owner, attached>>,
           \A p \in Procs : life'[p] = "unused" <=> life[p] = "unused",
           \A j \in Jobs : running'[j] \in {running[j], NoProc},
           \A p \in Procs : lines'[p] # {} => p \in attached
    PROVE  Wiring'
  <1>1. CallHasJob' /\ OneCallPerJob'
    BY DEF Wiring, CallHasJob, OneCallPerJob
  <1>2. QuietWhileStarting'
    BY DEF TypeOK, Wiring, QuietWhileStarting
  <1>3. ChildIsPrivate'
    BY DEF Wiring, ChildIsPrivate
  <1>4. Started'
    BY DEF Wiring, Started, LinesFromAttached
  <1>5. OwnerIsJob'
    BY DEF Wiring, OwnerIsJob
  <1>6. LinesFromAttached'
    BY DEF LinesFromAttached
  <1>7. TrackedIsOwn'
    BY DEF Wiring, TrackedIsOwn
  <1>. QED  BY <1>1, <1>2, <1>3, <1>4, <1>5, <1>6, <1>7 DEF Wiring

LEMMA StartJobWiring ==
    ASSUME TypeOK, Wiring, NEW c \in Callers, NEW j \in Jobs, StartJob(c, j)
    PROVE  Wiring'
  <1>. USE DEF StartJob
  <1>1. arg' = [arg EXCEPT ![c] = j] /\ arg[c] = NoJob
    BY DEF TypeOK, Wiring, CallHasJob
  <1>2. CallHasJob'
    BY <1>1, JobAssumption DEF TypeOK, Wiring, CallHasJob
  <1>3. OneCallPerJob'
    BY <1>1 DEF TypeOK, Wiring, OneCallPerJob
  <1>4. QuietWhileStarting'
    BY <1>1 DEF TypeOK, Wiring, QuietWhileStarting
  <1>5. ChildIsPrivate'
    BY <1>1 DEF TypeOK, Wiring, ChildIsPrivate
  <1>6. Started' /\ OwnerIsJob' /\ LinesFromAttached'
    BY DEF Wiring, Started, OwnerIsJob, LinesFromAttached
  <1>7. TrackedIsOwn'
    BY DEF TypeOK, Wiring, TrackedIsOwn
  <1>. QED  BY <1>2, <1>3, <1>4, <1>5, <1>6, <1>7 DEF Wiring

\* A call that gives up.
LEMMA GiveUpWiring ==
    ASSUME TypeOK, Wiring, NEW c \in Callers, pc[c] = "spawn", Return(c),
           UNCHANGED <<running, procVars, lines>>
    PROVE  Wiring'
  <1>. USE DEF Return
  <1>1. CallHasJob' /\ OneCallPerJob' /\ QuietWhileStarting'
    BY JobAssumption DEF TypeOK, Wiring, CallHasJob, OneCallPerJob, QuietWhileStarting
  <1>2. ChildIsPrivate'
    BY DEF TypeOK, Wiring, ChildIsPrivate
  <1>3. Started' /\ OwnerIsJob' /\ LinesFromAttached' /\ TrackedIsOwn'
    BY DEF Wiring, Started, OwnerIsJob, LinesFromAttached, TrackedIsOwn
  <1>. QED  BY <1>1, <1>2, <1>3 DEF Wiring

LEMMA SpawnWiring ==
    ASSUME TypeOK, Wiring, NEW c \in Callers, NEW p \in Procs, Spawn(c, p)
    PROVE  Wiring'
  <1>. USE DEF Spawn
  <1>1. arg[c] \in Jobs /\ arg[c] # NoJob /\ p \notin attached
    BY JobAssumption DEF TypeOK, Wiring, CallHasJob, Started
  <1>2. CallHasJob' /\ OneCallPerJob' /\ QuietWhileStarting'
    BY DEF TypeOK, Wiring, CallHasJob, OneCallPerJob, QuietWhileStarting
  <1>3. ChildIsPrivate'
    <2>. SUFFICES ASSUME NEW d \in Callers, pc'[d] = "register"
                  PROVE  /\ child'[d] \in Procs
                         /\ child'[d] \notin attached'
                         /\ life'[child'[d]] # "unused"
                         /\ owner'[child'[d]] = arg'[d]
                         /\ \A e \in Callers :
                              pc'[e] = "register" /\ child'[e] = child'[d] => e = d
      BY DEF ChildIsPrivate
    <2>1. \A e \in Callers : e # c /\ pc[e] = "register" => child[e] # p
      BY DEF Wiring, ChildIsPrivate
    <2>2. CASE d = c
      BY <1>1, <2>1, <2>2 DEF TypeOK
    <2>3. CASE d # c
      BY <2>1, <2>3 DEF TypeOK, Wiring, ChildIsPrivate
    <2>. QED  BY <2>2, <2>3
  <1>4. Started' /\ LinesFromAttached'
    BY <1>1 DEF TypeOK, Wiring, Started, LinesFromAttached
  <1>5. OwnerIsJob'
    BY <1>1 DEF TypeOK, Wiring, OwnerIsJob
  <1>6. TrackedIsOwn'
    BY <1>1 DEF TypeOK, Wiring, TrackedIsOwn
  <1>. QED  BY <1>2, <1>3, <1>4, <1>5, <1>6 DEF Wiring

LEMMA RegisterWiring ==
    ASSUME TypeOK, Wiring, NEW c \in Callers, Register(c)
    PROVE  Wiring'
  <1>. USE DEF Register, Return
  <1>1. /\ arg[c] \in Jobs /\ arg[c] # NoJob
        /\ child[c] \in Procs /\ child[c] \notin attached
        /\ life[child[c]] # "unused" /\ owner[child[c]] = arg[c]
    BY JobAssumption DEF TypeOK, Wiring, CallHasJob, ChildIsPrivate
  <1>2. CallHasJob' /\ OneCallPerJob'
    BY JobAssumption DEF TypeOK, Wiring, CallHasJob, OneCallPerJob
  <1>3. QuietWhileStarting'
    BY <1>1 DEF TypeOK, Wiring, QuietWhileStarting, OneCallPerJob
  <1>4. ChildIsPrivate'
    BY <1>1 DEF TypeOK, Wiring, ChildIsPrivate
  <1>5. Started' /\ OwnerIsJob' /\ LinesFromAttached'
    BY <1>1 DEF TypeOK, Wiring, Started, OwnerIsJob, LinesFromAttached
  <1>6. TrackedIsOwn'
    BY <1>1 DEF TypeOK, Wiring, TrackedIsOwn
  <1>. QED  BY <1>2, <1>3, <1>4, <1>5, <1>6 DEF Wiring

LEMMA NextWiring == TypeOK /\ Wiring /\ [Next]_vars => Wiring'
  <1>. SUFFICES ASSUME TypeOK, Wiring, [Next]_vars PROVE Wiring'
    OBVIOUS
  <1>1. ASSUME NEW c \in Callers, NEW j \in Jobs, StartJob(c, j) PROVE Wiring'
    BY <1>1, StartJobWiring
  <1>2. ASSUME NEW c \in Callers, PipeFails(c) PROVE Wiring'
    BY <1>2, GiveUpWiring DEF PipeFails
  <1>3. ASSUME NEW c \in Callers, SpawnFails(c) PROVE Wiring'
    BY <1>3, GiveUpWiring DEF SpawnFails
  <1>4. ASSUME NEW c \in Callers, NEW p \in Procs, Spawn(c, p) PROVE Wiring'
    BY <1>4, SpawnWiring
  <1>5. ASSUME NEW c \in Callers, Register(c) PROVE Wiring'
    BY <1>5, RegisterWiring
  <1>6. ASSUME NEW j \in Jobs, StopJob(j) PROVE Wiring'
    BY <1>6, WiringFrame DEF StopJob, TypeOK, Wiring, LinesFromAttached
  <1>7. CASE StopAll
    BY <1>7, WiringFrame DEF StopAll, TypeOK, Wiring, LinesFromAttached
  <1>8. ASSUME NEW p \in Procs, Exit(p) PROVE Wiring'
    BY <1>8, WiringFrame DEF Exit, TypeOK, Wiring, LinesFromAttached
  <1>9. ASSUME NEW p \in Procs, Reap(p) PROVE Wiring'
    BY <1>9, WiringFrame DEF Reap, TypeOK, Wiring, LinesFromAttached
  <1>10. ASSUME NEW p \in Procs, NEW k \in Kinds, Scan(p, k) PROVE Wiring'
    BY <1>10, WiringFrame DEF Scan, TypeOK, Wiring, LinesFromAttached
  <1>11. ASSUME NEW p \in Procs, RecordFrame(p) PROVE Wiring'
    BY <1>11, WiringFrame DEF RecordFrame, TypeOK, Wiring, LinesFromAttached
  <1>12. ASSUME NEW p \in Procs, RecordStderr(p) PROVE Wiring'
    BY <1>12, WiringFrame DEF RecordStderr, TypeOK, Wiring, LinesFromAttached
  <1>13. CASE UNCHANGED vars
    BY <1>13, WiringFrame DEF vars, TypeOK, Wiring, LinesFromAttached
  <1>. QED
    BY <1>1, <1>2, <1>3, <1>4, <1>5, <1>6, <1>7, <1>8, <1>9, <1>10, <1>11, <1>12, <1>13
       DEF Next, CallerStep, ProcStep

----------------------------------------------------------------------------
(* No process is orphaned. *)

LEMMA NextNoOrphan == TypeOK /\ Wiring /\ NoOrphan /\ [Next]_vars => NoOrphan'
  <1>. SUFFICES ASSUME TypeOK, Wiring, NoOrphan, [Next]_vars, OneStartPerJob,
                       NEW p \in attached', life'[p] = "alive", p \notin signalled'
                PROVE  running'[owner'[p]] = p
    BY DEF NoOrphan
  <1>. p \in Procs
    BY NextType DEF TypeOK
  <1>. DEFINE Lonely == p \in attached /\ life[p] = "alive" /\ p \notin signalled
  <1>0. Lonely => running[owner[p]] = p /\ owner[p] \in Jobs /\ p # NoProc
    BY ProcAssumption DEF NoOrphan, Wiring, OwnerIsJob
  <1>1. ASSUME NEW c \in Callers, NEW j \in Jobs, StartJob(c, j)
        PROVE  running'[owner'[p]] = p
    <2>1. Lonely /\ owner' = owner
      BY <1>1 DEF StartJob
    <2>2. owner[p] # j
      BY <1>0, <1>1, <2>1 DEF StartJob, ProcsOf
    <2>. QED  BY <1>0, <1>1, <2>1, <2>2 DEF StartJob, TypeOK
  <1>2. ASSUME NEW c \in Callers, PipeFails(c) PROVE running'[owner'[p]] = p
    BY <1>0, <1>2 DEF PipeFails
  <1>3. ASSUME NEW c \in Callers, SpawnFails(c) PROVE running'[owner'[p]] = p
    BY <1>0, <1>3 DEF SpawnFails
  <1>4. ASSUME NEW c \in Callers, NEW q \in Procs, Spawn(c, q)
        PROVE  running'[owner'[p]] = p
    <2>1. p # q
      BY <1>4 DEF Spawn, Wiring, Started
    <2>. QED  BY <1>0, <1>4, <2>1 DEF Spawn, TypeOK
  <1>5. ASSUME NEW c \in Callers, Register(c) PROVE running'[owner'[p]] = p
    <2>1. arg[c] \in Jobs /\ arg[c] # NoJob /\ owner[child[c]] = arg[c]
      BY <1>5, JobAssumption DEF Register, TypeOK, Wiring, CallHasJob, ChildIsPrivate
    <2>2. CASE p = child[c]
      BY <1>5, <2>1, <2>2 DEF Register, TypeOK
    <2>3. CASE p # child[c]
      <3>1. Lonely
        BY <1>5, <2>3 DEF Register
      <3>2. owner[p] # arg[c]
        BY <1>0, <2>1, <3>1 DEF Wiring, QuietWhileStarting
      <3>. QED  BY <1>0, <1>5, <3>1, <3>2 DEF Register, TypeOK
    <2>. QED  BY <2>2, <2>3
  <1>6. ASSUME NEW j \in Jobs, StopJob(j) PROVE running'[owner'[p]] = p
    <2>1. Lonely /\ owner' = owner
      BY <1>6 DEF StopJob
    <2>2. owner[p] # j
      BY <1>0, <1>6, <2>1 DEF StopJob, ProcsOf
    <2>. QED  BY <1>0, <1>6, <2>1, <2>2 DEF StopJob, TypeOK
  <1>7. CASE StopAll
    <2>1. Lonely /\ p \in ProcsOf(Jobs)
      BY <1>0, <1>7 DEF StopAll, ProcsOf
    <2>. QED  BY <1>7, <2>1 DEF StopAll
  <1>8. ASSUME NEW q \in Procs, Exit(q) PROVE running'[owner'[p]] = p
    BY <1>0, <1>8 DEF Exit, TypeOK
  <1>9. ASSUME NEW q \in Procs, Reap(q) PROVE running'[owner'[p]] = p
    <2>1. Lonely /\ p # q
      BY <1>9 DEF Reap, TypeOK
    <2>2. CASE Superseded(q)
      BY <1>0, <1>9, <2>1, <2>2 DEF Reap
    <2>3. CASE ~Superseded(q)
      <3>1. owner[p] # owner[q]
        BY <1>0, <2>1, <2>3 DEF Superseded
      <3>. QED  BY <1>0, <1>9, <2>1, <2>3, <3>1 DEF Reap, TypeOK
    <2>. QED  BY <2>2, <2>3
  <1>10. ASSUME NEW q \in Procs, NEW k \in Kinds, Scan(q, k)
         PROVE  running'[owner'[p]] = p
    BY <1>0, <1>10 DEF Scan
  <1>11. ASSUME NEW q \in Procs, RecordFrame(q) PROVE running'[owner'[p]] = p
    BY <1>0, <1>11 DEF RecordFrame
  <1>12. ASSUME NEW q \in Procs, RecordStderr(q) PROVE running'[owner'[p]] = p
    BY <1>0, <1>12 DEF RecordStderr
  <1>13. CASE UNCHANGED vars
    BY <1>0, <1>13 DEF vars
  <1>. QED
    BY <1>1, <1>2, <1>3, <1>4, <1>5, <1>6, <1>7, <1>8, <1>9, <1>10, <1>11, <1>12, <1>13
       DEF Next, CallerStep, ProcStep

----------------------------------------------------------------------------
(* The status of a job agrees with what is tracked for it. *)

LEMMA NextStatusTruth == TypeOK /\ Wiring /\ StatusTruth /\ [Next]_vars => StatusTruth'
  <1>. SUFFICES ASSUME TypeOK, Wiring, StatusTruth, [Next]_vars, OneStartPerJob,
                       NEW j \in Jobs
                PROVE  /\ running'[j] # NoProc => health'[j] \in {"starting", "live"}
                       /\ health'[j] = "starting" => running'[j] # NoProc
    BY DEF StatusTruth
  <1>. DEFINE Truth == /\ running'[j] # NoProc => health'[j] \in {"starting", "live"}
                       /\ health'[j] = "starting" => running'[j] # NoProc
  <1>0. /\ running[j] # NoProc => health[j] \in {"starting", "live"}
        /\ health[j] = "starting" => running[j] # NoProc
    BY DEF StatusTruth
  <1>. USE DEF TypeOK
  <1>1. ASSUME NEW c \in Callers, NEW k \in Jobs, StartJob(c, k) PROVE Truth
    BY <1>0, <1>1 DEF StartJob
  <1>2. ASSUME NEW c \in Callers, PipeFails(c) PROVE Truth
    BY <1>0, <1>2 DEF PipeFails
  <1>3. ASSUME NEW c \in Callers, SpawnFails(c) PROVE Truth
    <2>1. arg[c] # NoJob /\ running[arg[c]] = NoProc
      BY <1>3 DEF SpawnFails, Wiring, CallHasJob, QuietWhileStarting
    <2>. QED  BY <1>0, <1>3, <2>1 DEF SpawnFails, ScheduleRetry
  <1>4. ASSUME NEW c \in Callers, NEW p \in Procs, Spawn(c, p) PROVE Truth
    BY <1>0, <1>4 DEF Spawn
  <1>5. ASSUME NEW c \in Callers, Register(c) PROVE Truth
    BY <1>0, <1>5, ProcAssumption DEF Register
  <1>6. ASSUME NEW k \in Jobs, StopJob(k) PROVE Truth
    BY <1>0, <1>6 DEF StopJob
  <1>7. CASE StopAll
    BY <1>0, <1>7 DEF StopAll
  <1>8. ASSUME NEW p \in Procs, Exit(p) PROVE Truth
    BY <1>0, <1>8 DEF Exit
  <1>9. ASSUME NEW p \in Procs, Reap(p) PROVE Truth
    BY <1>0, <1>9 DEF Reap, ScheduleRetry
  <1>10. ASSUME NEW p \in Procs, NEW k \in Kinds, Scan(p, k) PROVE Truth
    BY <1>0, <1>10 DEF Scan
  <1>11. ASSUME NEW p \in Procs, RecordFrame(p) PROVE Truth
    BY <1>0, <1>11 DEF RecordFrame
  <1>12. ASSUME NEW p \in Procs, RecordStderr(p) PROVE Truth
    BY <1>0, <1>12 DEF RecordStderr
  <1>13. CASE UNCHANGED vars
    BY <1>0, <1>13 DEF vars
  <1>. QED
    BY <1>1, <1>2, <1>3, <1>4, <1>5, <1>6, <1>7, <1>8, <1>9, <1>10, <1>11, <1>12, <1>13
       DEF Next, CallerStep, ProcStep

----------------------------------------------------------------------------

\* What every locked section, goroutine and process of the Runner preserves: the wiring of
\* calls, processes and maps, with the two safety invariants that rest on it.
THEOREM InductiveInvariant == Spec => []IInv
  <1>1. Init => IInv
    BY InitType, InitWiring DEF Init, IInv, NoOrphan, StatusTruth
  <1>2. IInv /\ [Next]_vars => IInv'
    BY NextType, NextWiring, NextNoOrphan, NextStatusTruth DEF IInv
  <1>. QED  BY <1>1, <1>2, PTL DEF Spec

\* No encoder is lost (StartJob, StopJob, the Wait goroutine): a process whose start has
\* completed and that was not told to stop is the one tracked for its job.
THEOREM NothingOrphaned == Spec => []NoOrphan
  BY InductiveInvariant, PTL DEF IInv

\* What GET /jobs/{id} says agrees with the process that is tracked.
THEOREM StatusIsTrue == Spec => []StatusTruth
  BY InductiveInvariant, PTL DEF IInv

----------------------------------------------------------------------------
(* The cap, as far as two locked sections can keep it. *)

LEMMA Counts ==
    ASSUME TypeOK
    PROVE  /\ IsFiniteSet(Tracked) /\ Cardinality(Tracked) \in Nat
           /\ IsFiniteSet(Busy) /\ Cardinality(Busy) \in Nat
           /\ Cardinality(Busy) <= Cardinality(Callers)
           /\ Cardinality(Callers) \in Nat
  <1>1. IsFiniteSet(Tracked) /\ IsFiniteSet(Busy) /\ Cardinality(Busy) <= Cardinality(Callers)
    BY FS_Subset, JobsFinite, CallersFinite DEF Tracked, Busy
  <1>. QED  BY <1>1, FS_CardinalityType, CallersFinite

LEMMA InitCapBound == Init => CapBound
  <1>. SUFFICES ASSUME Init PROVE CapBound
    OBVIOUS
  <1>1. Tracked = {} /\ Busy = {}
    BY DEF Init, Tracked, Busy
  <1>2. Cardinality({}) = 0 /\ Cardinality(Callers) \in Nat /\ Cardinality(Callers) # 0
    BY FS_EmptySet, FS_CardinalityType, CallersFinite
  <1>. QED  BY <1>1, <1>2, NumAssumption DEF CapBound

\* Neither set grows.
LEMMA CapShrinks ==
    ASSUME TypeOK, CapBound, Tracked' \subseteq Tracked, Busy' \subseteq Busy
    PROVE  CapBound'
  <1>1. /\ Cardinality(Tracked') \in Nat /\ Cardinality(Tracked') <= Cardinality(Tracked)
        /\ Cardinality(Busy') \in Nat /\ Cardinality(Busy') <= Cardinality(Busy)
    BY Counts, FS_Subset, FS_CardinalityType
  <1>. QED  BY <1>1, Counts, NumAssumption DEF CapBound

LEMMA StartJobCap ==
    ASSUME TypeOK, CapBound, NEW c \in Callers, NEW j \in Jobs, StartJob(c, j)
    PROVE  CapBound'
  <1>1. Busy' = Busy \cup {c} /\ c \notin Busy
    BY DEF StartJob, Busy, TypeOK
  <1>2. Cardinality(Busy') = Cardinality(Busy) + 1
    BY <1>1, Counts, FS_AddElement
  <1>3. Tracked' = Tracked \ {j}
    BY DEF StartJob, Tracked, TypeOK
  <1>4. CASE running[j] = NoProc
    <2>1. MaxCompositorJobs > 0 => Cardinality(Tracked) < MaxCompositorJobs
      BY <1>4, Counts, NumAssumption DEF StartJob, AtCap
    <2>2. Tracked' = Tracked
      BY <1>3, <1>4 DEF Tracked
    <2>3. Cardinality(Busy') <= Cardinality(Callers)
      <3>1. Busy' \subseteq Callers
        BY DEF Busy
      <3>. QED  BY <3>1, FS_Subset, CallersFinite
    <2>. QED  BY <1>2, <2>1, <2>2, <2>3, Counts, NumAssumption DEF CapBound
  <1>5. CASE running[j] # NoProc
    <2>1. Cardinality(Tracked') = Cardinality(Tracked) - 1
      <3>1. j \in Tracked
        BY <1>5 DEF Tracked
      <3>. QED  BY <1>3, <3>1, Counts, FS_RemoveElement
    <2>. QED  BY <1>2, <2>1, Counts, NumAssumption DEF CapBound
  <1>. QED  BY <1>4, <1>5

LEMMA RegisterCap ==
    ASSUME TypeOK, CapBound, NEW c \in Callers, Register(c)
    PROVE  CapBound'
  <1>1. Busy' = Busy \ {c} /\ c \in Busy
    BY DEF Register, Return, Busy, TypeOK
  <1>2. Cardinality(Busy') = Cardinality(Busy) - 1
    BY <1>1, Counts, FS_RemoveElement
  <1>3. Tracked' \subseteq Tracked \cup {arg[c]}
    BY DEF Register, Tracked, TypeOK
  <1>4. /\ IsFiniteSet(Tracked \cup {arg[c]})
        /\ Cardinality(Tracked \cup {arg[c]}) \in Nat
        /\ Cardinality(Tracked \cup {arg[c]}) <= Cardinality(Tracked) + 1
    <2>. DEFINE T == Tracked \cup {arg[c]}
    <2>1. IsFiniteSet(T) /\ (Cardinality(T) = Cardinality(Tracked)
                             \/ Cardinality(T) = Cardinality(Tracked) + 1)
      BY Counts, FS_AddElement
    <2>. HIDE DEF T
    <2>2. Cardinality(T) \in Nat /\ Cardinality(T) <= Cardinality(Tracked) + 1
      BY <2>1, Counts
    <2>. QED  BY <2>1, <2>2 DEF T
  <1>5. Cardinality(Tracked') \in Nat /\ Cardinality(Tracked') <= Cardinality(Tracked) + 1
    BY <1>3, <1>4, FS_Subset, FS_CardinalityType
  <1>. QED  BY <1>2, <1>5, Counts, NumAssumption DEF CapBound

LEMMA NextCapBound == TypeOK /\ CapBound /\ [Next]_vars => CapBound'
  <1>. SUFFICES ASSUME TypeOK, CapBound, [Next]_vars PROVE CapBound'
    OBVIOUS
  <1>. USE CapShrinks DEF Tracked, Busy, TypeOK
  <1>1. ASSUME NEW c \in Callers, NEW j \in Jobs, StartJob(c, j) PROVE CapBound'
    BY <1>1, StartJobCap
  <1>2. ASSUME NEW c \in Callers, PipeFails(c) PROVE CapBound'
    BY <1>2 DEF PipeFails, Return
  <1>3. ASSUME NEW c \in Callers, SpawnFails(c) PROVE CapBound'
    BY <1>3 DEF SpawnFails, Return
  <1>4. ASSUME NEW c \in Callers, NEW p \in Procs, Spawn(c, p) PROVE CapBound'
    BY <1>4 DEF Spawn
  <1>5. ASSUME NEW c \in Callers, Register(c) PROVE CapBound'
    BY <1>5, RegisterCap
  <1>6. ASSUME NEW j \in Jobs, StopJob(j) PROVE CapBound'
    BY <1>6 DEF StopJob
  <1>7. CASE StopAll
    BY <1>7 DEF StopAll
  <1>8. ASSUME NEW p \in Procs, Exit(p) PROVE CapBound'
    BY <1>8 DEF Exit
  <1>9. ASSUME NEW p \in Procs, Reap(p) PROVE CapBound'
    BY <1>9 DEF Reap
  <1>10. ASSUME NEW p \in Procs, NEW k \in Kinds, Scan(p, k) PROVE CapBound'
    BY <1>10 DEF Scan
  <1>11. ASSUME NEW p \in Procs, RecordFrame(p) PROVE CapBound'
    BY <1>11 DEF RecordFrame
  <1>12. ASSUME NEW p \in Procs, RecordStderr(p) PROVE CapBound'
    BY <1>12 DEF RecordStderr
  <1>13. CASE UNCHANGED vars
    BY <1>13 DEF vars
  <1>. QED
    BY <1>1, <1>2, <1>3, <1>4, <1>5, <1>6, <1>7, <1>8, <1>9, <1>10, <1>11, <1>12, <1>13
       DEF Next, CallerStep, ProcStep

\* StartJob's check and Register are two locked sections: tracked jobs and calls in flight
\* together stay below the cap plus the number of callers.
THEOREM CapHolds == Spec => []CapBound
  BY InitType, NextType, InitCapBound, NextCapBound, PTL DEF Spec

\* With one caller, as the data plane's scheduler is, the cap itself holds.
COROLLARY OneCallerRespectsCap ==
    ASSUME Cardinality(Callers) = 1, MaxCompositorJobs > 0
    PROVE  Spec => [](Cardinality(Tracked) <= MaxCompositorJobs)
  <1>1. TypeOK /\ CapBound => Cardinality(Tracked) <= MaxCompositorJobs
    <2>. SUFFICES ASSUME TypeOK, CapBound PROVE Cardinality(Tracked) <= MaxCompositorJobs
      OBVIOUS
    <2>. QED  BY Counts, NumAssumption DEF CapBound
  <1>. QED  BY <1>1, TypeCorrect, CapHolds, PTL
=============================================================================
