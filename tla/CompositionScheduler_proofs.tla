-------------------- MODULE CompositionScheduler_proofs --------------------
(***************************************************************************)
(* Proofs about the composition scheduler, for any number of compositions, *)
(* any timing constants and any bounds.                                    *)
(*                                                                         *)
(* OwnPath needs to know why resetting the numbering in stopUnwanted does  *)
(* no harm to a generation that is warming up: by then cancelUnwanted has  *)
(* removed every warm-up of the compositions this Tick does not want.      *)
(* StartSpacing needs to know that a debounce entry is never older than    *)
(* the last start, because startWarmup clears it.                          *)
(*                                                                         *)
(* LeakBound is nearly inductive: a step that makes no call forgets no     *)
(* job, and a call that fails at most the one it is about.                 *)
(* EncoderBudget and HandoffPromise need a drain no longer than the        *)
(* stabilize time (BriefDrain), and then hold for Ticks as late as one     *)
(* likes: a debounce entry is made after the last handoff, so whatever     *)
(* still drains when a change has settled ends within the same Tick,       *)
(* before the new generation can be handed over to.                        *)
(***************************************************************************)
EXTENDS CompositionScheduler, FiniteSetTheorems, TLAPS

USE DEF debounce, live, bounds

\* The compositions a Tick goes through are the ones it found wanted.
WantedOnly == \A c \in todo : snap[c] # Unwanted

\* The live generation is never numbered above the latest one, and a warm-up is the latest.
Numbered ==
    \A c \in Comps :
        /\ currentGenID[c] <= generationNum[c]
        /\ warming[c] # NoWarm =>
             warming[c].gen = generationNum[c] /\ currentGenID[c] < warming[c].gen

\* From cancelUnwanted on, nothing warms up for a composition this Tick does not want.
Cancelled ==
    pc \in {"cancel", "stop"} => \A c \in Comps : snap[c] = Unwanted => warming[c] = NoWarm

\* stopUnwanted stops what this Tick does not want.
StopsUnwanted == pc = "stop" => \A j \in due : snap[j[1]] = Unwanted

\* A debounce entry was made after the last start.
Aged ==
    \A c \in Comps : lastObservedSig[c] # Unwanted =>
        sigChangedAt[c] <= sinceStart[c] /\ pendingSince[c] <= sinceStart[c]

SInv == TypeOK /\ WantedOnly /\ Numbered /\ Cancelled /\ StopsUnwanted /\ Aged

----------------------------------------------------------------------------
(* Type correctness. *)

LEMMA OlderType ==
    ASSUME NEW age \in 0..AgeCap, NEW d \in Nat
    PROVE  Older(age, d) \in 0..AgeCap
  BY TimeAssumption DEF Older, AgeCap

LEMMA LeftType ==
    ASSUME NEW t \in 0..Drain, NEW d \in Nat
    PROVE  Left(t, d) \in 0..Drain
  BY TimeAssumption DEF Left

LEMMA FailsType ==
    ASSUME TypeOK, NEW fault, Fails(fault)
    PROVE  /\ faults' \in 0..MaxFaults
           /\ crashes' \in 0..MaxCrashes
           /\ changes' \in 0..MaxChanges
  BY BoundAssumption DEF TypeOK, Fails

LEMMA CallType ==
    ASSUME TypeOK, NEW j, NEW fault, stopJob(j, fault) \/ startJob(j, fault)
    PROVE  /\ jobs' \in [JobIds -> JobStates]
           /\ Fails(fault)
  BY DEF TypeOK, stopJob, startJob, JobStates

LEMMA ClearType ==
    ASSUME TypeOK, NEW cs, ClearDebounce(cs)
    PROVE  /\ lastObservedSig' \in [Comps -> SigsOrNone]
           /\ sigChangedAt' \in [Comps -> 0..AgeCap]
           /\ pendingSince' \in [Comps -> 0..AgeCap]
  BY TimeAssumption DEF TypeOK, ClearDebounce, SigsOrNone, AgeCap

LEMMA ObserveType ==
    ASSUME TypeOK, NEW c \in Comps, Observe(c)
    PROVE  /\ lastObservedSig' \in [Comps -> SigsOrNone]
           /\ sigChangedAt' \in [Comps -> 0..AgeCap]
           /\ pendingSince' \in [Comps -> 0..AgeCap]
  BY TimeAssumption DEF TypeOK, Observe, ChangedAge, PendingAge, AgeCap

LEMMA InitType == Init => TypeOK
  BY TimeAssumption, BoundAssumption
     DEF Init, TypeOK, SigsOrNone, JobStates, AgeCap, NoWarm

LEMMA TickType ==
    ASSUME TypeOK, NEW d \in 1..MaxGap, Tick(d)
    PROVE  TypeOK'
  <1>. d \in Nat
    BY BoundAssumption
  <1>1. /\ sigChangedAt' \in [Comps -> 0..AgeCap]
        /\ pendingSince' \in [Comps -> 0..AgeCap]
        /\ sinceStart' \in [Comps -> 0..AgeCap]
    BY OlderType, TimeAssumption DEF Tick, TypeOK, AgeCap
  <1>2. draining' \in SUBSET [comp : Comps, gen : Gens, stopAt : 0..Drain]
    BY LeftType DEF Tick, TypeOK
  <1>3. todo' \in SUBSET Comps
    BY DEF Tick
  <1>. QED  BY <1>1, <1>2, <1>3 DEF Tick, TypeOK

LEMMA WarmupReadyType ==
    ASSUME TypeOK, NEW c \in Comps, WarmupReady(c)
    PROVE  TypeOK'
  <1>1. warming[c].gen \in Gens /\ warming[c].sig \in Sigs
    BY DEF WarmupReady, TypeOK, Warming
  <1>2. warming[c].gen \in 0..MaxGen /\ warming[c].sig \in SigsOrNone
    BY <1>1, BoundAssumption DEF Gens, SigsOrNone
  <1>3. Handed(c) \in SUBSET [comp : Comps, gen : Gens, stopAt : 0..Drain]
    <2>1. running(c) => currentGenID[c] \in Gens
      BY BoundAssumption DEF running, TypeOK, Gens
    <2>. QED  BY <2>1, TimeAssumption DEF Handed
  <1>4. draining' \in SUBSET [comp : Comps, gen : Gens, stopAt : 0..Drain]
    BY <1>3 DEF WarmupReady, TypeOK
  <1>5. todo' \in SUBSET Comps
    BY DEF WarmupReady, Done, TypeOK
  <1>. QED  BY <1>2, <1>4, <1>5 DEF WarmupReady, TypeOK

LEMMA StartWarmupType ==
    ASSUME TypeOK, WantedOnly, NEW c \in Comps, NEW f \in Faults, startWarmup(c, f)
    PROVE  TypeOK'
  <1>. DEFINE j == <<c, NextGen(c)>>
  <1>1. NextGen(c) \in Gens /\ NextGen(c) \in 0..MaxGen
    BY BoundAssumption DEF startWarmup, NextGen, TypeOK, Gens
  <1>2. snap[c] \in Sigs
    BY DEF startWarmup, Reconciling, TypeOK, WantedOnly, SigsOrNone
  <1>3. startJob(j, f)
    BY DEF startWarmup
  <1>4. /\ jobs' \in [JobIds -> JobStates]
        /\ faults' \in 0..MaxFaults /\ crashes' \in 0..MaxCrashes /\ changes' \in 0..MaxChanges
    BY <1>3, CallType, FailsType
  <1>5. /\ lastObservedSig' \in [Comps -> SigsOrNone]
        /\ sigChangedAt' \in [Comps -> 0..AgeCap]
        /\ pendingSince' \in [Comps -> 0..AgeCap]
    BY ClearType, ObserveType DEF startWarmup
  <1>6. generationNum' \in [Comps -> 0..MaxGen]
    BY <1>1 DEF startWarmup, TypeOK
  <1>7. warming' \in [Comps -> Warming \cup {NoWarm}]
    <2>1. [gen |-> j[2], sig |-> snap[c]] \in Warming
      BY <1>1, <1>2 DEF Warming
    <2>. QED  BY <2>1 DEF startWarmup, TypeOK
  <1>8. sinceStart' \in [Comps -> 0..AgeCap] /\ todo' \in SUBSET Comps
    BY TimeAssumption DEF startWarmup, Done, TypeOK, AgeCap
  <1>. QED  BY <1>4, <1>5, <1>6, <1>7, <1>8 DEF startWarmup, TypeOK

\* A step of a Tick that only calls the compositor.
LEMMA StopType ==
    ASSUME TypeOK, NEW j \in JobIds, NEW f \in Faults, StopDue(j, f) \/ stopUnwanted(j, f)
    PROVE  TypeOK'
  <1>1. stopJob(j, f)
    BY DEF StopDue, stopUnwanted
  <1>2. /\ jobs' \in [JobIds -> JobStates]
        /\ faults' \in 0..MaxFaults /\ crashes' \in 0..MaxCrashes /\ changes' \in 0..MaxChanges
    BY <1>1, CallType, FailsType
  <1>3. CASE StopDue(j, f)
    BY <1>2, <1>3 DEF StopDue, TypeOK
  <1>4. CASE stopUnwanted(j, f)
    <2>1. /\ currentGenID' \in [Comps -> 0..MaxGen]
          /\ signatures' \in [Comps -> SigsOrNone]
          /\ generationNum' \in [Comps -> 0..MaxGen]
          /\ gens' \in [Comps -> 0..MaxGen]
      BY <1>4, BoundAssumption DEF stopUnwanted, TypeOK, SigsOrNone
    <2>. QED  BY <1>2, <1>4, <2>1 DEF stopUnwanted, TypeOK
  <1>. QED  BY <1>3, <1>4

LEMMA NextType == TypeOK /\ WantedOnly /\ [Next]_vars => TypeOK'
  <1>. SUFFICES ASSUME TypeOK, WantedOnly, [Next]_vars PROVE TypeOK'
    OBVIOUS
  <1>1. ASSUME NEW c \in Comps, NEW s \in SigsOrNone, Change(c, s) PROVE TypeOK'
    BY <1>1, BoundAssumption DEF Change, TypeOK
  <1>2. ASSUME NEW j \in JobIds, GoLive(j) PROVE TypeOK'
    BY <1>2 DEF GoLive, TypeOK, JobStates
  <1>3. ASSUME NEW j \in JobIds, EncoderDies(j) PROVE TypeOK'
    BY <1>3, BoundAssumption DEF EncoderDies, TypeOK, JobStates
  <1>4. CASE CompositorRestarts
    BY <1>4, BoundAssumption DEF CompositorRestarts, TypeOK, JobStates
  <1>5. CASE DataplaneRestarts
    <2>1. /\ lastObservedSig' \in [Comps -> SigsOrNone]
          /\ sigChangedAt' \in [Comps -> 0..AgeCap]
          /\ pendingSince' \in [Comps -> 0..AgeCap]
      BY <1>5, ClearType DEF DataplaneRestarts
    <2>. QED  BY <1>5, <2>1, BoundAssumption DEF DataplaneRestarts, TypeOK, SigsOrNone
  <1>6. ASSUME NEW d \in 1..MaxGap, Tick(d) PROVE TypeOK'
    BY <1>6, TickType
  <1>7. ASSUME NEW c \in Comps, WarmupReady(c) PROVE TypeOK'
    BY <1>7, WarmupReadyType
  <1>8. ASSUME NEW c \in Comps, SteadyState(c) PROVE TypeOK'
    BY <1>8, ClearType DEF SteadyState, Done, TypeOK
  <1>9. ASSUME NEW c \in Comps, Debounce(c) PROVE TypeOK'
    BY <1>9, ObserveType DEF Debounce, Done, TypeOK
  <1>10. ASSUME NEW c \in Comps, NEW f \in Faults, WarmupNotReady(c, f) PROVE TypeOK'
    BY <1>10, FailsType DEF WarmupNotReady, Done, TypeOK
  <1>11. ASSUME NEW c \in Comps, NEW f \in Faults, Supersede(c, f) PROVE TypeOK'
    <2>1. stopJob(<<c, warming[c].gen>>, f)
      BY <1>11 DEF Supersede
    <2>. QED  BY <1>11, <2>1, CallType, FailsType DEF Supersede, TypeOK
  <1>12. ASSUME NEW c \in Comps, NEW f \in Faults, startWarmup(c, f) PROVE TypeOK'
    BY <1>12, StartWarmupType
  <1>13. CASE processDraining
    <2>1. draining' \in SUBSET [comp : Comps, gen : Gens, stopAt : 0..Drain]
      BY <1>13 DEF processDraining, TypeOK
    <2>2. due' \in SUBSET JobIds
      BY <1>13 DEF processDraining, TypeOK, Expired, JobIds
    <2>. QED  BY <1>13, <2>1, <2>2 DEF processDraining, TypeOK
  <1>14. CASE cancelUnwanted
    <2>1. due' \in SUBSET JobIds
      BY <1>14 DEF cancelUnwanted, TypeOK, ToCancel, JobIds, Warming
    <2>2. warming' \in [Comps -> Warming \cup {NoWarm}]
      BY <1>14 DEF cancelUnwanted, TypeOK
    <2>3. /\ lastObservedSig' \in [Comps -> SigsOrNone]
          /\ sigChangedAt' \in [Comps -> 0..AgeCap]
          /\ pendingSince' \in [Comps -> 0..AgeCap]
      BY <1>14, ClearType DEF cancelUnwanted
    <2>. QED  BY <1>14, <2>1, <2>2, <2>3 DEF cancelUnwanted, TypeOK
  <1>15. CASE ListUnwanted
    <2>1. \A c \in Comps : running(c) => currentGenID[c] \in Gens
      BY BoundAssumption DEF running, TypeOK, Gens
    <2>2. due' \in SUBSET JobIds
      BY <1>15, <2>1 DEF ListUnwanted, JobIds
    <2>. QED  BY <1>15, <2>2 DEF ListUnwanted, TypeOK
  <1>16. ASSUME NEW j \in JobIds, NEW f \in Faults, StopDue(j, f) \/ stopUnwanted(j, f)
         PROVE  TypeOK'
    BY <1>16, StopType
  <1>17. CASE EndTick
    BY <1>17 DEF EndTick, TypeOK
  <1>18. CASE UNCHANGED vars
    BY <1>18 DEF vars, TypeOK
  <1>. QED
    BY <1>1, <1>2, <1>3, <1>4, <1>5, <1>6, <1>7, <1>8, <1>9, <1>10, <1>11, <1>12, <1>13,
       <1>14, <1>15, <1>16, <1>17, <1>18
       DEF Next, TickStep, ReconcileStep

----------------------------------------------------------------------------
(* The order within a Tick, the numbering, and the age of a debounce entry. *)

Order == WantedOnly /\ Numbered /\ Cancelled /\ StopsUnwanted /\ Aged

LEMMA InitOrder == Init => Order
  BY DEF Init, Order, WantedOnly, Numbered, Cancelled, StopsUnwanted, Aged

\* What a step that starts, hands over and stops nothing preserves.
LEMMA OrderFrame ==
    ASSUME Order, UNCHANGED <<currentGenID, generationNum, debounce, snap, sinceStart>>,
           pc' = pc \/ pc' \notin {"cancel", "stop"},
           todo' \subseteq todo, due' \subseteq due,
           \A c \in Comps : warming'[c] \in {warming[c], NoWarm}
    PROVE  Order'
  <1>1. WantedOnly'
    BY DEF Order, WantedOnly
  <1>2. Numbered'
    BY DEF Order, Numbered
  <1>3. Cancelled'
    BY DEF Order, Cancelled
  <1>4. StopsUnwanted'
    BY DEF Order, StopsUnwanted
  <1>5. Aged'
    BY DEF Order, Aged
  <1>. QED  BY <1>1, <1>2, <1>3, <1>4, <1>5 DEF Order

\* reconcileOne forgets a composition's debounce entry, and maybe starts it.
LEMMA ClearAged ==
    ASSUME Aged, NEW cs, ClearDebounce(cs),
           \A c \in Comps \ cs : sinceStart'[c] = sinceStart[c]
    PROVE  Aged'
  BY DEF Aged, ClearDebounce

LEMMA ObserveAged ==
    ASSUME TypeOK, Aged, NEW c \in Comps, snap[c] # Unwanted, Observe(c), sinceStart' = sinceStart
    PROVE  Aged'
  <1>1. ChangedAge(c) <= sinceStart[c] /\ PendingAge(c) <= sinceStart[c]
    BY DEF TypeOK, Aged, ChangedAge, PendingAge, Moved
  <1>. QED  BY <1>1 DEF TypeOK, Aged, Observe

LEMMA TickOrder ==
    ASSUME TypeOK, Order, NEW d \in 1..MaxGap, Tick(d)
    PROVE  Order'
  <1>. d \in Nat
    BY BoundAssumption
  <1>1. WantedOnly' /\ Cancelled' /\ StopsUnwanted'
    BY DEF Tick, WantedOnly, Cancelled, StopsUnwanted
  <1>2. Numbered'
    BY DEF Tick, Order, Numbered
  <1>3. Aged'
    <2>1. \A a, b \in 0..AgeCap : a <= b => Older(a, d) <= Older(b, d)
      BY TimeAssumption DEF Older, AgeCap
    <2>. QED  BY <2>1 DEF Tick, TypeOK, Order, Aged
  <1>. QED  BY <1>1, <1>2, <1>3 DEF Order

LEMMA WarmupReadyOrder ==
    ASSUME TypeOK, Order, NEW c \in Comps, WarmupReady(c)
    PROVE  Order'
  <1>1. WantedOnly' /\ Cancelled' /\ StopsUnwanted' /\ Aged'
    BY DEF WarmupReady, Reconciling, Done, Order, WantedOnly, Cancelled, StopsUnwanted, Aged
  <1>2. Numbered'
    BY DEF WarmupReady, TypeOK, Order, Numbered
  <1>. QED  BY <1>1, <1>2 DEF Order

LEMMA StartWarmupOrder ==
    ASSUME TypeOK, Order, NEW c \in Comps, NEW f \in Faults, startWarmup(c, f)
    PROVE  Order'
  <1>1. WantedOnly' /\ Cancelled' /\ StopsUnwanted'
    BY DEF startWarmup, Reconciling, Done, Order, WantedOnly, Cancelled, StopsUnwanted
  <1>2. Numbered'
    BY BoundAssumption DEF startWarmup, NextGen, TypeOK, Order, Numbered
  <1>3. snap[c] # Unwanted
    BY DEF startWarmup, Reconciling, Order, WantedOnly
  <1>4. Aged'
    BY <1>3, ClearAged, ObserveAged DEF startWarmup, Order, TypeOK
  <1>. QED  BY <1>1, <1>2, <1>4 DEF Order

LEMMA StopUnwantedOrder ==
    ASSUME TypeOK, Order, NEW j \in JobIds, NEW f \in Faults, stopUnwanted(j, f)
    PROVE  Order'
  <1>1. j[1] \in Comps /\ warming[j[1]] = NoWarm
    BY DEF stopUnwanted, Order, StopsUnwanted, Cancelled, JobIds
  <1>2. Numbered'
    BY <1>1 DEF stopUnwanted, TypeOK, Order, Numbered
  <1>3. WantedOnly' /\ Cancelled' /\ StopsUnwanted' /\ Aged'
    BY DEF stopUnwanted, Order, WantedOnly, Cancelled, StopsUnwanted, Aged
  <1>. QED  BY <1>2, <1>3 DEF Order

LEMMA NextOrder == TypeOK /\ Order /\ [Next]_vars => Order'
  <1>. SUFFICES ASSUME TypeOK, Order, [Next]_vars PROVE Order'
    OBVIOUS
  <1>1. ASSUME NEW c \in Comps, NEW s \in SigsOrNone, Change(c, s) PROVE Order'
    BY <1>1, OrderFrame DEF Change
  <1>2. ASSUME NEW j \in JobIds, GoLive(j) PROVE Order'
    BY <1>2, OrderFrame DEF GoLive
  <1>3. ASSUME NEW j \in JobIds, EncoderDies(j) PROVE Order'
    BY <1>3, OrderFrame DEF EncoderDies
  <1>4. CASE CompositorRestarts
    BY <1>4, OrderFrame DEF CompositorRestarts
  <1>5. CASE DataplaneRestarts
    <2>1. Aged'
      BY <1>5 DEF DataplaneRestarts, ClearDebounce, Aged
    <2>2. WantedOnly' /\ Numbered' /\ Cancelled' /\ StopsUnwanted'
      BY <1>5 DEF DataplaneRestarts, WantedOnly, Numbered, Cancelled, StopsUnwanted
    <2>. QED  BY <2>1, <2>2 DEF Order
  <1>6. ASSUME NEW d \in 1..MaxGap, Tick(d) PROVE Order'
    BY <1>6, TickOrder
  <1>7. ASSUME NEW c \in Comps, WarmupReady(c) PROVE Order'
    BY <1>7, WarmupReadyOrder
  <1>8. ASSUME NEW c \in Comps, SteadyState(c) PROVE Order'
    <2>1. Aged'
      BY <1>8, ClearAged DEF SteadyState, Order
    <2>2. WantedOnly' /\ Numbered' /\ Cancelled' /\ StopsUnwanted'
      BY <1>8 DEF SteadyState, Done, Order, WantedOnly, Numbered, Cancelled, StopsUnwanted
    <2>. QED  BY <2>1, <2>2 DEF Order
  <1>9. ASSUME NEW c \in Comps, Debounce(c) PROVE Order'
    <2>1. snap[c] # Unwanted
      BY <1>9 DEF Debounce, Reconciling, Order, WantedOnly
    <2>2. Aged'
      BY <1>9, <2>1, ObserveAged DEF Debounce, Order
    <2>3. WantedOnly' /\ Numbered' /\ Cancelled' /\ StopsUnwanted'
      BY <1>9 DEF Debounce, Done, Order, WantedOnly, Numbered, Cancelled, StopsUnwanted
    <2>. QED  BY <2>2, <2>3 DEF Order
  <1>10. ASSUME NEW c \in Comps, NEW f \in Faults, WarmupNotReady(c, f) PROVE Order'
    BY <1>10, OrderFrame DEF WarmupNotReady, Done
  <1>11. ASSUME NEW c \in Comps, NEW f \in Faults, Supersede(c, f) PROVE Order'
    BY <1>11, OrderFrame DEF Supersede, TypeOK
  <1>12. ASSUME NEW c \in Comps, NEW f \in Faults, startWarmup(c, f) PROVE Order'
    BY <1>12, StartWarmupOrder
  <1>13. CASE processDraining
    BY <1>13 DEF processDraining, Order, WantedOnly, Numbered, Cancelled, StopsUnwanted, Aged
  <1>14. CASE cancelUnwanted
    <2>1. Aged'
      BY <1>14, ClearAged DEF cancelUnwanted, Order
    <2>2. Cancelled'
      BY <1>14 DEF cancelUnwanted, ToCancel, TypeOK, Order, Cancelled
    <2>3. WantedOnly' /\ Numbered' /\ StopsUnwanted'
      BY <1>14 DEF cancelUnwanted, Order, WantedOnly, Numbered, StopsUnwanted
    <2>. QED  BY <2>1, <2>2, <2>3 DEF Order
  <1>15. CASE ListUnwanted
    BY <1>15 DEF ListUnwanted, Order, WantedOnly, Numbered, Cancelled, StopsUnwanted, Aged
  <1>16. ASSUME NEW j \in JobIds, NEW f \in Faults, StopDue(j, f) PROVE Order'
    BY <1>16, OrderFrame DEF StopDue
  <1>17. ASSUME NEW j \in JobIds, NEW f \in Faults, stopUnwanted(j, f) PROVE Order'
    BY <1>17, StopUnwantedOrder
  <1>18. CASE EndTick
    BY <1>18, OrderFrame DEF EndTick
  <1>19. CASE UNCHANGED vars
    BY <1>19, OrderFrame DEF vars
  <1>. QED
    BY <1>1, <1>2, <1>3, <1>4, <1>5, <1>6, <1>7, <1>8, <1>9, <1>10, <1>11, <1>12, <1>13,
       <1>14, <1>15, <1>16, <1>17, <1>18, <1>19
       DEF Next, TickStep, ReconcileStep

----------------------------------------------------------------------------

\* What every step of the scheduler preserves: the numbering, the order of a Tick's
\* phases and the age of a debounce entry hold together in every reachable state.
THEOREM InductiveInvariant == Spec => []SInv
  <1>1. Init => SInv
    BY InitType, InitOrder DEF SInv, Order
  <1>2. SInv /\ [Next]_vars => SInv'
    BY NextType, NextOrder DEF SInv, Order
  <1>. QED  BY <1>1, <1>2, PTL DEF Spec

\* Every reachable state is well typed, for all values of the constants and the bounds.
THEOREM TypeCorrect == Spec => []TypeOK
  BY InductiveInvariant, PTL DEF SInv

\* startWarmup, stopUnwanted: a generation that warms up never shares its job and its path
\* with the live one, although stopUnwanted starts the numbering over.
THEOREM WarmupsHaveTheirOwnPath == Spec => []OwnPath
  <1>1. SInv => OwnPath
    BY DEF SInv, Numbered, OwnPath
  <1>. QED  BY <1>1, InductiveInvariant, PTL

\* reconcileOne: whatever the sources, the calls and the restarts do, two warm-ups of a
\* composition begin at least the stabilize time apart.
THEOREM StartsAreSpaced == Spec => StartSpacing
  <1>. DEFINE Spaced == \A c \in Comps :
                  warming[c] = NoWarm /\ warming'[c] # NoWarm => sinceStart[c] >= Stabilize
  <1>1. SInv /\ [Next]_vars => [Spaced]_vars
    <2>. SUFFICES ASSUME SInv, Next, NEW c \in Comps,
                         warming[c] = NoWarm, warming'[c] # NoWarm
                  PROVE  sinceStart[c] >= Stabilize
      OBVIOUS
    <2>1. PICK f \in Faults : startWarmup(c, f)
      <3>1. ASSUME NEW d \in Comps, NEW f \in Faults, startWarmup(d, f), d # c PROVE FALSE
        BY <3>1 DEF startWarmup, SInv, TypeOK
      <3>2. ASSUME NEW d \in Comps, NEW f \in Faults, Supersede(d, f) PROVE FALSE
        BY <3>2 DEF Supersede, SInv, TypeOK
      <3>3. ASSUME NEW d \in Comps, WarmupReady(d) PROVE FALSE
        BY <3>3 DEF WarmupReady, SInv, TypeOK
      <3>4. CASE cancelUnwanted
        BY <3>4 DEF cancelUnwanted, SInv, TypeOK
      <3>. QED
        BY <3>1, <3>2, <3>3, <3>4
           DEF Next, TickStep, ReconcileStep, Change, GoLive, EncoderDies, CompositorRestarts,
               DataplaneRestarts, Tick, SteadyState, Debounce, WarmupNotReady,
               processDraining, ListUnwanted, StopDue, stopUnwanted, EndTick
    <2>2. snap[c] # Unwanted /\ Settled(c)
      BY <2>1 DEF startWarmup, Reconciling, SInv, WantedOnly
    <2>3. CASE ChangedAge(c) >= Stabilize
      BY <2>2, <2>3, TimeAssumption DEF ChangedAge, Moved, SInv, TypeOK, Aged, AgeCap
    <2>4. CASE PendingAge(c) >= MaxStabilize
      BY <2>4, TimeAssumption DEF PendingAge, SInv, TypeOK, Aged, AgeCap
    <2>. QED  BY <2>2, <2>3, <2>4 DEF Settled
  <1>. QED  BY <1>1, InductiveInvariant, PTL DEF Spec, StartSpacing

----------------------------------------------------------------------------
(* No job is forgotten but by a call that failed. *)

\* What the phases of a Tick leave in due: nothing before processDraining fills it, and in
\* stopUnwanted the live generations only.
DueInPhase ==
    /\ pc \in {"idle", "reconcile"} => due = {}
    /\ pc = "stop" => \A j \in due : j[2] = currentGenID[j[1]]

\* The jobs that were lost, and that there are no more of them than calls that failed.
LeaksCounted == crashes = 0 => IsFiniteSet(Leaked) /\ Cardinality(Leaked) <= faults

LInv == DueInPhase /\ LeaksCounted

LEMMA DueSteps ==
    ASSUME TypeOK, DueInPhase, [Next]_vars
    PROVE  DueInPhase'
  <1>1. ASSUME NEW c \in Comps, WarmupReady(c) PROVE DueInPhase'
    BY <1>1 DEF WarmupReady, Reconciling, DueInPhase
  <1>2. ASSUME NEW j \in JobIds, NEW f \in Faults, stopUnwanted(j, f) PROVE DueInPhase'
    <2>1. \A i \in due' : i \in due /\ i # j
      BY <1>2 DEF stopUnwanted
    <2>2. \A i \in due' : i[1] # j[1]
      BY <1>2, <2>1 DEF stopUnwanted, TypeOK, DueInPhase, JobIds
    <2>. QED  BY <1>2, <2>1, <2>2 DEF stopUnwanted, TypeOK, DueInPhase, JobIds
  <1>3. CASE DataplaneRestarts
    BY <1>3 DEF DataplaneRestarts, DueInPhase
  <1>4. CASE ListUnwanted
    BY <1>4 DEF ListUnwanted, DueInPhase
  <1>5. CASE processDraining \/ cancelUnwanted \/ EndTick
    BY <1>5 DEF processDraining, cancelUnwanted, EndTick, DueInPhase
  <1>6. ASSUME NEW d \in 1..MaxGap, Tick(d) PROVE DueInPhase'
    BY <1>6 DEF Tick, DueInPhase
  <1>7. ASSUME NEW j \in JobIds, NEW f \in Faults, StopDue(j, f) PROVE DueInPhase'
    BY <1>7 DEF StopDue, DueInPhase
  <1>8. CASE UNCHANGED vars
    BY <1>8 DEF vars, DueInPhase
  <1>. QED
    BY <1>1, <1>2, <1>3, <1>4, <1>5, <1>6, <1>7, <1>8
       DEF Next, TickStep, ReconcileStep, Change, GoLive, EncoderDies, CompositorRestarts,
           SteadyState, Debounce, WarmupNotReady, Supersede, startWarmup, DueInPhase

\* The job a step's HTTP call is about, and what becomes of the call.
Calls(x, f) ==
    \/ \E d \in Comps :
         \/ WarmupNotReady(d, f) /\ x = <<d, warming[d].gen>>
         \/ Supersede(d, f) /\ x = <<d, warming[d].gen>>
         \/ startWarmup(d, f) /\ x = <<d, NextGen(d)>>
    \/ StopDue(x, f) \/ stopUnwanted(x, f)

\* The steps that make no call and that no restart is.
Local ==
    \/ \E d \in Comps, s \in SigsOrNone : Change(d, s)
    \/ \E j \in JobIds : GoLive(j)
    \/ \E d \in 1..MaxGap : Tick(d)
    \/ \E d \in Comps : WarmupReady(d) \/ SteadyState(d) \/ Debounce(d)
    \/ processDraining \/ cancelUnwanted \/ ListUnwanted \/ EndTick
    \/ UNCHANGED vars

LEMMA CallsCount ==
    ASSUME NEW x, NEW f, Calls(x, f)
    PROVE  Fails(f)
  BY DEF Calls, WarmupNotReady, Supersede, startWarmup, StopDue, stopUnwanted, stopJob, startJob

LEMMA StepKinds ==
    ASSUME TypeOK, [Next]_vars, crashes' = 0
    PROVE  Local \/ \E x, f : Calls(x, f)
  <1>1. CASE CompositorRestarts \/ DataplaneRestarts \/ \E j \in JobIds : EncoderDies(j)
    BY <1>1, BoundAssumption DEF CompositorRestarts, DataplaneRestarts, EncoderDies, TypeOK
  <1>2. CASE ReconcileStep
    BY <1>2 DEF ReconcileStep, Calls, Local
  <1>3. CASE \E j \in JobIds, f \in Faults : StopDue(j, f) \/ stopUnwanted(j, f)
    BY <1>3 DEF Calls
  <1>. QED  BY <1>1, <1>2, <1>3 DEF Next, TickStep, Local

LEMMA LocalCounters == Local => UNCHANGED <<faults, crashes>>
  BY DEF Local, Change, GoLive, Tick, WarmupReady, SteadyState, Debounce, processDraining,
         cancelUnwanted, ListUnwanted, EndTick, vars

\* A step without a call starts no job, and forgets none.
LEMMA LocalLeaks ==
    ASSUME TypeOK, DueInPhase, Local
    PROVE  Leaked' \subseteq Leaked
  <1>. SUFFICES ASSUME NEW c \in Comps, NEW g \in Gens, jobs'[<<c, g>>] # "off",
                       jobs[<<c, g>>] # "off" => Remembered(c, g)
                PROVE  Remembered(c, g)'
    BY DEF Leaked, JobIds, Remembered
  <1>. g # 0 /\ <<c, g>> \in JobIds
    BY DEF Gens, JobIds
  <1>1. ASSUME NEW d \in Comps, NEW s \in SigsOrNone, Change(d, s) PROVE Remembered(c, g)'
    BY <1>1 DEF Change, Remembered
  <1>2. ASSUME NEW j \in JobIds, GoLive(j) PROVE Remembered(c, g)'
    BY <1>2 DEF GoLive, TypeOK, Remembered
  <1>3. ASSUME NEW d \in 1..MaxGap, Tick(d) PROVE Remembered(c, g)'
    <2>1. jobs[<<c, g>>] # "off" /\ UNCHANGED <<currentGenID, warming, due>>
      BY <1>3 DEF Tick
    <2>2. ASSUME NEW e \in draining, e.comp = c, e.gen = g PROVE Remembered(c, g)'
      <3>. DEFINE older == [e EXCEPT !.stopAt = Left(@, d)]
      <3>1. older \in draining'
        BY <1>3 DEF Tick
      <3>2. older.comp = c /\ older.gen = g
        BY <2>2 DEF TypeOK
      <3>. QED  BY <3>1, <3>2 DEF Remembered
    <2>. QED  BY <2>1, <2>2 DEF Remembered
  <1>4. ASSUME NEW d \in Comps, WarmupReady(d) PROVE Remembered(c, g)'
    <2>1. jobs[<<c, g>>] # "off" /\ due' = due /\ draining \subseteq draining'
      BY <1>4 DEF WarmupReady
    <2>2. CASE currentGenID[c] = g /\ currentGenID'[c] # g
      <3>1. d = c /\ <<c, g>> \in {<<e.comp, e.gen>> : e \in Handed(c)}
        BY <1>4, <2>2 DEF WarmupReady, TypeOK, Handed, running
      <3>. QED  BY <1>4, <3>1 DEF WarmupReady, Remembered
    <2>3. CASE currentGenID[c] # g /\ warming[c].gen = g
      BY <1>4, <2>3 DEF WarmupReady, TypeOK, Remembered
    <2>. QED  BY <2>1, <2>2, <2>3 DEF Remembered
  <1>5. ASSUME NEW d \in Comps, SteadyState(d) \/ Debounce(d) PROVE Remembered(c, g)'
    BY <1>5 DEF SteadyState, Debounce, Remembered
  <1>6. CASE processDraining
    <2>1. \A e \in draining : e \in draining' \/ <<e.comp, e.gen>> \in due'
      BY <1>6 DEF processDraining
    <2>2. due = {}
      BY <1>6 DEF processDraining, DueInPhase
    <2>. QED  BY <1>6, <2>1, <2>2 DEF processDraining, Remembered
  <1>7. CASE cancelUnwanted
    <2>1. warming[c].gen = g => warming'[c].gen = g \/ <<c, g>> \in due'
      BY <1>7 DEF cancelUnwanted, ToCancel, NoWarm
    <2>. QED  BY <1>7, <2>1 DEF cancelUnwanted, Remembered
  <1>8. CASE ListUnwanted \/ EndTick
    BY <1>8 DEF ListUnwanted, EndTick, Remembered
  <1>9. CASE UNCHANGED vars
    BY <1>9 DEF vars, Remembered
  <1>. QED  BY <1>1, <1>2, <1>3, <1>4, <1>5, <1>6, <1>7, <1>8, <1>9 DEF Local

\* A call loses at most the job it is about, and that one only when it fails.
LEMMA CallLeaks ==
    ASSUME TypeOK, DueInPhase, NEW x, NEW f, Calls(x, f)
    PROVE  /\ Leaked' \subseteq Leaked \cup {x}
           /\ f = "none" => Leaked' \subseteq Leaked
  <1>. SUFFICES ASSUME NEW c \in Comps, NEW g \in Gens, jobs'[<<c, g>>] # "off",
                       jobs[<<c, g>>] # "off" => Remembered(c, g),
                       f = "none" \/ <<c, g>> # x
                PROVE  Remembered(c, g)'
    BY DEF Leaked, JobIds, Remembered
  <1>. g # 0 /\ <<c, g>> \in JobIds
    BY DEF Gens, JobIds
  <1>1. ASSUME NEW d \in Comps, WarmupNotReady(d, f) PROVE Remembered(c, g)'
    BY <1>1 DEF WarmupNotReady, Remembered
  <1>2. ASSUME NEW d \in Comps, Supersede(d, f), x = <<d, warming[d].gen>>
        PROVE  Remembered(c, g)'
    <2>1. jobs[<<c, g>>] # "off" /\ <<c, g>> # x
      BY <1>2 DEF Supersede, stopJob, TypeOK
    <2>. QED  BY <1>2, <2>1 DEF Supersede, TypeOK, Remembered
  <1>3. ASSUME NEW d \in Comps, startWarmup(d, f), x = <<d, NextGen(d)>>
        PROVE  Remembered(c, g)'
    <2>1. startJob(x, f) /\ warming[d].gen = 0
      BY <1>3 DEF startWarmup, NoWarm
    <2>2. CASE f # "none" \/ Refused(x)
      <3>1. jobs'[<<c, g>>] = jobs[<<c, g>>]
        BY <2>1, <2>2 DEF startJob, TypeOK
      <3>. QED  BY <1>3, <2>2, <3>1 DEF startWarmup, Remembered
    <2>3. CASE f = "none" /\ ~Refused(x)
      <3>1. warming' = [warming EXCEPT ![d] = [gen |-> NextGen(d), sig |-> snap[d]]]
        BY <1>3, <2>3 DEF startWarmup
      <3>2. CASE <<c, g>> = x
        BY <1>3, <3>1, <3>2 DEF TypeOK, Remembered
      <3>3. CASE <<c, g>> # x
        <4>1. jobs'[<<c, g>>] = jobs[<<c, g>>]
          BY <2>1, <3>3 DEF startJob, TypeOK
        <4>. QED  BY <1>3, <2>1, <3>1, <4>1 DEF startWarmup, TypeOK, Remembered
      <3>. QED  BY <3>2, <3>3
    <2>. QED  BY <2>2, <2>3
  <1>4. CASE StopDue(x, f)
    <2>1. jobs[<<c, g>>] # "off" /\ <<c, g>> # x
      BY <1>4 DEF StopDue, stopJob, TypeOK
    <2>. QED  BY <1>4, <2>1 DEF StopDue, Remembered
  <1>5. CASE stopUnwanted(x, f)
    <2>1. jobs[<<c, g>>] # "off" /\ <<c, g>> # x
      BY <1>5 DEF stopUnwanted, stopJob, TypeOK
    <2>2. f = "none" /\ currentGenID[c] = g => c # x[1]
      BY <1>5, <2>1 DEF stopUnwanted, DueInPhase, TypeOK, JobIds
    <2>. QED  BY <1>5, <2>1, <2>2 DEF stopUnwanted, TypeOK, Remembered
  <1>. QED  BY <1>1, <1>2, <1>3, <1>4, <1>5 DEF Calls

\* One more element.
LEMMA OneMore ==
    ASSUME NEW L, IsFiniteSet(L), NEW x
    PROVE  /\ IsFiniteSet(L \cup {x}) /\ Cardinality(L \cup {x}) \in Nat
           /\ Cardinality(L) \in Nat
           /\ Cardinality(L \cup {x}) <= Cardinality(L) + 1
  <1>1. IsFiniteSet(L \cup {x})
    BY FS_AddElement
  <1>2. Cardinality(L \cup {x}) = IF x \in L THEN Cardinality(L) ELSE Cardinality(L) + 1
    BY FS_AddElement
  <1>3. Cardinality(L) \in Nat /\ Cardinality(L \cup {x}) \in Nat
    BY <1>1, FS_CardinalityType
  <1>. QED  BY <1>1, <1>2, <1>3

LEMMA LeakSteps ==
    ASSUME TypeOK, LInv, [Next]_vars
    PROVE  LeaksCounted'
  <1>. SUFFICES ASSUME crashes' = 0
                PROVE  IsFiniteSet(Leaked') /\ Cardinality(Leaked') <= faults'
    BY DEF LeaksCounted
  <1>. faults \in Nat
    BY BoundAssumption DEF TypeOK
  <1>1. CASE Local
    <2>1. Leaked' \subseteq Leaked /\ UNCHANGED <<faults, crashes>>
      BY <1>1, LocalLeaks, LocalCounters DEF LInv
    <2>. QED  BY <2>1, FS_Subset, FS_CardinalityType DEF LInv, LeaksCounted
  <1>2. ASSUME NEW x, NEW f, Calls(x, f)
        PROVE  IsFiniteSet(Leaked') /\ Cardinality(Leaked') <= faults'
    <2>1. crashes = 0 /\ faults' = IF f = "none" THEN faults ELSE faults + 1
      BY <1>2, CallsCount DEF Fails
    <2>2. IsFiniteSet(Leaked) /\ Cardinality(Leaked) <= faults /\ Cardinality(Leaked) \in Nat
      BY <2>1, FS_CardinalityType DEF LInv, LeaksCounted
    <2>3. CASE f = "none"
      <3>1. Leaked' \subseteq Leaked
        BY <1>2, <2>3, CallLeaks DEF LInv
      <3>. QED  BY <2>1, <2>2, <2>3, <3>1, FS_Subset, FS_CardinalityType
    <2>4. CASE f # "none"
      <3>1. Leaked' \subseteq Leaked \cup {x}
        BY <1>2, CallLeaks DEF LInv
      <3>2. /\ IsFiniteSet(Leaked \cup {x}) /\ Cardinality(Leaked \cup {x}) \in Nat
            /\ Cardinality(Leaked \cup {x}) <= Cardinality(Leaked) + 1
        BY <2>2, OneMore
      <3>3. /\ IsFiniteSet(Leaked') /\ Cardinality(Leaked') \in Nat
            /\ Cardinality(Leaked') <= Cardinality(Leaked \cup {x})
        BY <3>1, <3>2, FS_Subset, FS_CardinalityType
      <3>. QED  BY <2>1, <2>2, <2>4, <3>2, <3>3
    <2>. QED  BY <2>3, <2>4
  <1>. QED  BY <1>1, <1>2, StepKinds DEF LInv

LEMMA LeakInvariant == Spec => []LInv
  <1>1. Init => LInv
    <2>. SUFFICES ASSUME Init PROVE LInv
      OBVIOUS
    <2>1. Leaked = {}
      BY DEF Init, Leaked, JobIds
    <2>. QED  BY <2>1, FS_EmptySet DEF Init, LInv, DueInPhase, LeaksCounted
  <1>2. TypeOK /\ LInv /\ [Next]_vars => LInv'
    BY DueSteps, LeakSteps DEF LInv
  <1>. QED  BY <1>1, <1>2, TypeCorrect, PTL DEF Spec

\* Tick: as long as the data plane does not restart, the jobs that are neither live, nor
\* warming up, draining or about to be stopped are no more than the calls that failed,
\* although stopUnwanted starts the numbering over under generations that still drain.
THEOREM LeaksAreBounded == Spec => []LeakBound
  <1>1. LInv => LeakBound
    BY DEF LInv, LeaksCounted, LeakBound
  <1>. QED  BY <1>1, LeakInvariant, PTL

----------------------------------------------------------------------------
(* What a drain no longer than the stabilize time buys: whatever drains    *)
(* when the next generation starts is stopped by the same Tick, so a       *)
(* generation that is handed over leaves the only one that drains.         *)

\* While a generation warms up nothing is being debounced: startWarmup cleared the entry.
Undistracted == \A c \in Comps : warming[c] # NoWarm => lastObservedSig[c] = Unwanted

\* A debounce entry was made after the last handoff.
SinceHandoff ==
    \A e \in draining : e.stopAt > 0 /\ lastObservedSig[e.comp] # Unwanted =>
        /\ sigChangedAt[e.comp] + e.stopAt <= Drain
        /\ pendingSince[e.comp] + e.stopAt <= Drain

OneDrains == \A e, f \in draining : e.comp = f.comp => e = f

\* What drains beside a warm-up is over in this very Tick.
DrainsBeforeWarmup ==
    \A e \in draining : warming[e.comp] # NoWarm =>
        e.stopAt = 0 /\ pc = "reconcile" /\ e.comp \notin todo

\* What drains, or is about to be stopped by its drain or as an abandoned warm-up, is not live.
StopsOldOnly ==
    /\ \A e \in draining : e.gen # currentGenID[e.comp]
    /\ pc \in {"drain", "cancel"} => \A j \in due : j[2] # currentGenID[j[1]]

RegistryIsLive == gens = currentGenID

DInv == /\ Undistracted /\ SinceHandoff /\ OneDrains /\ DrainsBeforeWarmup
        /\ StopsOldOnly /\ RegistryIsLive

BriefDrain == Drain <= Stabilize

\* A step that hands nothing over and starts nothing.
LEMMA DrainFrame ==
    ASSUME DInv, draining' = draining, UNCHANGED <<currentGenID, gens>>,
           pc' = pc, due' \subseteq due, todo' \subseteq todo,
           \A c \in Comps : warming'[c] \in {warming[c], NoWarm},
           draining \subseteq [comp : Comps, gen : Gens, stopAt : 0..Drain],
           \A c \in Comps :
             \/ lastObservedSig'[c] = Unwanted
             \/ /\ lastObservedSig'[c] = lastObservedSig[c]
                /\ sigChangedAt'[c] = sigChangedAt[c] /\ pendingSince'[c] = pendingSince[c]
    PROVE  DInv'
  <1>1. Undistracted'
    BY DEF DInv, Undistracted
  <1>2. SinceHandoff'
    BY DEF DInv, SinceHandoff
  <1>3. OneDrains' /\ DrainsBeforeWarmup'
    BY DEF DInv, OneDrains, DrainsBeforeWarmup
  <1>4. StopsOldOnly' /\ RegistryIsLive'
    BY DEF DInv, StopsOldOnly, RegistryIsLive
  <1>. QED  BY <1>1, <1>2, <1>3, <1>4 DEF DInv

\* The entry reconcileOne leaves behind is as old as the one it found, or new.
LEMMA ObserveDrain ==
    ASSUME TypeOK, DInv, NEW c \in Comps, snap[c] # Unwanted, warming[c] = NoWarm, Observe(c),
           UNCHANGED <<draining, warming>>
    PROVE  Undistracted' /\ SinceHandoff'
  <1>1. Undistracted'
    BY DEF DInv, Undistracted, Observe, TypeOK
  <1>2. ASSUME NEW e \in draining, e.stopAt > 0, lastObservedSig'[e.comp] # Unwanted
        PROVE  /\ sigChangedAt'[e.comp] + e.stopAt <= Drain
               /\ pendingSince'[e.comp] + e.stopAt <= Drain
    <2>. e.stopAt \in 0..Drain /\ e.comp \in Comps
      BY DEF TypeOK
    <2>1. CASE e.comp # c
      BY <1>2, <2>1 DEF DInv, SinceHandoff, Observe, TypeOK
    <2>2. CASE e.comp = c
      <3>1. sigChangedAt'[c] = ChangedAge(c) /\ pendingSince'[c] = PendingAge(c)
        BY DEF Observe, TypeOK
      <3>2. ChangedAge(c) = 0 \/ ChangedAge(c) + e.stopAt <= Drain
        BY <1>2, <2>2 DEF ChangedAge, Moved, DInv, SinceHandoff
      <3>3. PendingAge(c) = 0 \/ PendingAge(c) + e.stopAt <= Drain
        BY <1>2, <2>2 DEF PendingAge, DInv, SinceHandoff
      <3>. QED  BY <2>2, <3>1, <3>2, <3>3, TimeAssumption
    <2>. QED  BY <2>1, <2>2
  <1>. QED  BY <1>1, <1>2 DEF SinceHandoff

\* A change has settled no sooner than what drains is over.
LEMMA SettledIsDrained ==
    ASSUME BriefDrain, TypeOK, SinceHandoff, NEW e \in draining,
           snap[e.comp] # Unwanted, Settled(e.comp)
    PROVE  e.stopAt = 0
  <1>. SUFFICES ASSUME e.stopAt # 0 PROVE FALSE
    OBVIOUS
  <1>. /\ e.stopAt \in 0..Drain /\ e.comp \in Comps
       /\ sigChangedAt[e.comp] \in 0..AgeCap /\ pendingSince[e.comp] \in 0..AgeCap
    BY DEF TypeOK
  <1>1. CASE ChangedAge(e.comp) >= Stabilize
    BY <1>1, TimeAssumption DEF ChangedAge, Moved, SinceHandoff, BriefDrain, AgeCap
  <1>2. CASE PendingAge(e.comp) >= MaxStabilize
    BY <1>2, TimeAssumption DEF PendingAge, SinceHandoff, BriefDrain, AgeCap
  <1>. QED  BY <1>1, <1>2 DEF Settled

LEMMA TickDrain ==
    ASSUME TypeOK, DInv, NEW d \in 1..MaxGap, Tick(d)
    PROVE  DInv'
  <1>. d \in Nat
    BY BoundAssumption
  <1>1. /\ pc = "idle" /\ pc' = "reconcile"
        /\ UNCHANGED <<currentGenID, gens, warming, lastObservedSig, due>>
        /\ draining' = {[e EXCEPT !.stopAt = Left(@, d)] : e \in draining}
    BY DEF Tick
  <1>2. \A x \in draining' : \E e \in draining :
            /\ x = [e EXCEPT !.stopAt = Left(@, d)]
            /\ x.comp = e.comp /\ x.gen = e.gen /\ x.stopAt = Left(e.stopAt, d)
    BY <1>1 DEF TypeOK
  <1>3. SinceHandoff'
    <2>. SUFFICES ASSUME NEW x \in draining', x.stopAt > 0, lastObservedSig[x.comp] # Unwanted
                  PROVE  /\ sigChangedAt'[x.comp] + x.stopAt <= Drain
                         /\ pendingSince'[x.comp] + x.stopAt <= Drain
      BY <1>1 DEF SinceHandoff
    <2>1. PICK e \in draining : x.comp = e.comp /\ x.stopAt = Left(e.stopAt, d)
      BY <1>2
    <2>2. e.comp \in Comps /\ e.stopAt \in 0..Drain
      BY DEF TypeOK
    <2>3. e.stopAt > 0 /\ x.stopAt = e.stopAt - d
      BY <2>1, <2>2 DEF Left
    <2>4. /\ sigChangedAt'[e.comp] <= sigChangedAt[e.comp] + d
          /\ pendingSince'[e.comp] <= pendingSince[e.comp] + d
          /\ sigChangedAt'[e.comp] \in Nat /\ pendingSince'[e.comp] \in Nat
      <3>1. \A a \in 0..AgeCap : Older(a, d) <= a + d /\ Older(a, d) \in Nat
        BY TimeAssumption DEF Older, AgeCap
      <3>. QED  BY <2>1, <2>2, <3>1 DEF Tick, TypeOK
    <2>5. /\ sigChangedAt[e.comp] + e.stopAt <= Drain
          /\ pendingSince[e.comp] + e.stopAt <= Drain
      BY <2>1, <2>3 DEF DInv, SinceHandoff
    <2>. QED  BY <2>1, <2>2, <2>3, <2>4, <2>5, TimeAssumption DEF TypeOK
  <1>4. OneDrains'
    BY <1>2 DEF DInv, OneDrains
  <1>5. Undistracted' /\ RegistryIsLive'
    BY <1>1 DEF DInv, Undistracted, RegistryIsLive
  <1>6. DrainsBeforeWarmup' /\ StopsOldOnly'
    BY <1>1, <1>2 DEF DInv, DrainsBeforeWarmup, StopsOldOnly
  <1>. QED  BY <1>3, <1>4, <1>5, <1>6 DEF DInv

LEMMA WarmupReadyDrain ==
    ASSUME TypeOK, Numbered, DInv, NEW c \in Comps, WarmupReady(c)
    PROVE  DInv'
  <1>1. /\ pc = "reconcile" /\ c \in todo /\ warming[c] # NoWarm
        /\ warming' = [warming EXCEPT ![c] = NoWarm]
        /\ draining' = draining \cup Handed(c)
        /\ currentGenID' = [currentGenID EXCEPT ![c] = warming[c].gen]
        /\ gens' = [gens EXCEPT ![c] = warming[c].gen]
        /\ todo' \subseteq todo
        /\ UNCHANGED <<pc, due, lastObservedSig, sigChangedAt, pendingSince>>
    BY DEF WarmupReady, Reconciling, Done
  <1>2. \A e \in draining : e.comp \in Comps /\ e.comp # c
    BY <1>1 DEF TypeOK, DInv, DrainsBeforeWarmup
  <1>3. Handed(c) \subseteq {[comp |-> c, gen |-> currentGenID[c], stopAt |-> Drain]}
    BY DEF Handed
  <1>4. \A e \in Handed(c) : e.comp = c /\ e.gen = currentGenID[c] /\ e.gen # warming[c].gen
    BY DEF Handed
  <1>5. OneDrains'
    BY <1>1, <1>2, <1>3, <1>4 DEF DInv, OneDrains
  <1>6. Undistracted' /\ RegistryIsLive'
    BY <1>1 DEF TypeOK, DInv, Undistracted, RegistryIsLive
  <1>7. SinceHandoff'
    BY <1>1, <1>4 DEF DInv, SinceHandoff, Undistracted
  <1>8. DrainsBeforeWarmup'
    BY <1>1, <1>2, <1>4 DEF TypeOK, DInv, DrainsBeforeWarmup
  <1>9. StopsOldOnly'
    BY <1>1, <1>2, <1>4 DEF TypeOK, DInv, StopsOldOnly
  <1>. QED  BY <1>5, <1>6, <1>7, <1>8, <1>9 DEF DInv

LEMMA StartWarmupDrain ==
    ASSUME BriefDrain, TypeOK, WantedOnly, DInv,
           NEW c \in Comps, NEW f \in Faults, startWarmup(c, f)
    PROVE  DInv'
  <1>1. /\ pc = "reconcile" /\ c \in todo /\ warming[c] = NoWarm /\ Settled(c)
        /\ snap[c] # Unwanted
        /\ todo' = todo \ {c}
        /\ UNCHANGED <<pc, due, draining, currentGenID, gens>>
    BY DEF startWarmup, Reconciling, Done, WantedOnly
  <1>2. OneDrains' /\ StopsOldOnly' /\ RegistryIsLive'
    BY <1>1 DEF DInv, OneDrains, StopsOldOnly, RegistryIsLive
  <1>3. CASE Observe(c) /\ UNCHANGED warming
    <2>1. Undistracted' /\ SinceHandoff'
      BY <1>1, <1>3, ObserveDrain
    <2>2. DrainsBeforeWarmup'
      BY <1>1, <1>3 DEF DInv, DrainsBeforeWarmup
    <2>. QED  BY <1>2, <2>1, <2>2 DEF DInv
  <1>4. CASE ClearDebounce({c})
             /\ warming' = [warming EXCEPT ![c] = [gen |-> NextGen(c), sig |-> snap[c]]]
    <2>1. Undistracted'
      BY <1>4 DEF TypeOK, DInv, Undistracted, ClearDebounce
    <2>2. SinceHandoff'
      BY <1>1, <1>4 DEF TypeOK, DInv, SinceHandoff, ClearDebounce
    <2>3. \A e \in draining : e.comp = c => e.stopAt = 0
      BY <1>1, SettledIsDrained DEF DInv
    <2>4. DrainsBeforeWarmup'
      BY <1>1, <1>4, <2>3 DEF TypeOK, DInv, DrainsBeforeWarmup
    <2>. QED  BY <1>2, <2>1, <2>2, <2>4 DEF DInv
  <1>5. \/ Observe(c) /\ UNCHANGED warming
        \/ /\ ClearDebounce({c})
           /\ warming' = [warming EXCEPT ![c] = [gen |-> NextGen(c), sig |-> snap[c]]]
    BY DEF startWarmup
  <1>. QED  BY <1>3, <1>4, <1>5

LEMMA DrainSteps ==
    ASSUME BriefDrain, SInv, DInv, [Next]_vars
    PROVE  DInv'
  <1>. TypeOK /\ WantedOnly /\ Numbered /\ draining \subseteq [comp : Comps, gen : Gens, stopAt : 0..Drain]
    BY DEF SInv, TypeOK
  <1>1. ASSUME NEW c \in Comps, NEW s \in SigsOrNone, Change(c, s) PROVE DInv'
    BY <1>1, DrainFrame DEF Change
  <1>2. ASSUME NEW j \in JobIds, GoLive(j) \/ EncoderDies(j) PROVE DInv'
    BY <1>2, DrainFrame DEF GoLive, EncoderDies
  <1>3. CASE CompositorRestarts
    BY <1>3, DrainFrame DEF CompositorRestarts
  <1>4. CASE DataplaneRestarts
    BY <1>4 DEF DataplaneRestarts, DInv, Undistracted, SinceHandoff, OneDrains,
                DrainsBeforeWarmup, StopsOldOnly, RegistryIsLive
  <1>5. ASSUME NEW d \in 1..MaxGap, Tick(d) PROVE DInv'
    BY <1>5, TickDrain
  <1>6. ASSUME NEW c \in Comps, WarmupReady(c) PROVE DInv'
    BY <1>6, WarmupReadyDrain
  <1>7. ASSUME NEW c \in Comps, SteadyState(c) PROVE DInv'
    BY <1>7, DrainFrame DEF SteadyState, Done, ClearDebounce
  <1>8. ASSUME NEW c \in Comps, Debounce(c) PROVE DInv'
    <2>1. Undistracted' /\ SinceHandoff'
      BY <1>8, ObserveDrain DEF Debounce, Reconciling, WantedOnly
    <2>2. OneDrains' /\ DrainsBeforeWarmup' /\ StopsOldOnly' /\ RegistryIsLive'
      BY <1>8 DEF Debounce, Done, DInv, OneDrains, DrainsBeforeWarmup, StopsOldOnly, RegistryIsLive
    <2>. QED  BY <2>1, <2>2 DEF DInv
  <1>9. ASSUME NEW c \in Comps, NEW f \in Faults, WarmupNotReady(c, f) PROVE DInv'
    BY <1>9, DrainFrame DEF WarmupNotReady, Done
  <1>10. ASSUME NEW c \in Comps, NEW f \in Faults, Supersede(c, f) PROVE DInv'
    BY <1>10, DrainFrame DEF Supersede, TypeOK
  <1>11. ASSUME NEW c \in Comps, NEW f \in Faults, startWarmup(c, f) PROVE DInv'
    BY <1>11, StartWarmupDrain
  <1>12. CASE processDraining
    <2>1. /\ draining' = draining \ Expired /\ pc' = "drain"
          /\ due' = {<<e.comp, e.gen>> : e \in Expired}
          /\ UNCHANGED <<currentGenID, gens, warming, lastObservedSig, sigChangedAt, pendingSince>>
      BY <1>12 DEF processDraining
    <2>2. DrainsBeforeWarmup'
      BY <2>1 DEF Expired, DInv, DrainsBeforeWarmup
    <2>3. StopsOldOnly'
      BY <2>1 DEF Expired, DInv, StopsOldOnly
    <2>4. Undistracted' /\ SinceHandoff' /\ OneDrains' /\ RegistryIsLive'
      BY <2>1 DEF DInv, Undistracted, SinceHandoff, OneDrains, RegistryIsLive
    <2>. QED  BY <2>2, <2>3, <2>4 DEF DInv
  <1>13. CASE cancelUnwanted
    <2>1. /\ pc = "drain" /\ pc' = "cancel"
          /\ due' = {<<c, warming[c].gen>> : c \in ToCancel}
          /\ warming' = [c \in Comps |-> IF c \in ToCancel THEN NoWarm ELSE warming[c]]
          /\ ClearDebounce(ToCancel)
          /\ UNCHANGED <<currentGenID, gens, draining>>
      BY <1>13 DEF cancelUnwanted
    <2>2. \A c \in ToCancel : warming[c].gen # currentGenID[c]
      BY DEF ToCancel, Numbered, TypeOK, Warming, Gens
    <2>3. StopsOldOnly'
      BY <2>1, <2>2 DEF DInv, StopsOldOnly
    <2>4. Undistracted' /\ SinceHandoff'
      BY <2>1 DEF DInv, Undistracted, SinceHandoff, ClearDebounce
    <2>5. OneDrains' /\ RegistryIsLive'
      BY <2>1 DEF DInv, OneDrains, RegistryIsLive
    <2>6. DrainsBeforeWarmup'
      BY <2>1 DEF DInv, DrainsBeforeWarmup
    <2>. QED  BY <2>3, <2>4, <2>5, <2>6 DEF DInv
  <1>14. CASE ListUnwanted \/ EndTick
    <2>1. /\ pc \in {"cancel", "stop"} /\ pc' \in {"stop", "idle"}
          /\ UNCHANGED <<currentGenID, gens, draining, warming, lastObservedSig, sigChangedAt,
                         pendingSince>>
      BY <1>14 DEF ListUnwanted, EndTick
    <2>. QED
      BY <2>1 DEF DInv, Undistracted, SinceHandoff, OneDrains, DrainsBeforeWarmup, StopsOldOnly,
                  RegistryIsLive
  <1>15. ASSUME NEW j \in JobIds, NEW f \in Faults, StopDue(j, f) PROVE DInv'
    BY <1>15, DrainFrame DEF StopDue
  <1>16. ASSUME NEW j \in JobIds, NEW f \in Faults, stopUnwanted(j, f) PROVE DInv'
    <2>1. /\ pc = "stop"
          /\ UNCHANGED <<pc, draining, warming, lastObservedSig, sigChangedAt, pendingSince, todo>>
      BY <1>16 DEF stopUnwanted
    <2>2. \/ UNCHANGED <<currentGenID, gens>>
          \/ /\ currentGenID' = [currentGenID EXCEPT ![j[1]] = 0]
             /\ gens' = [gens EXCEPT ![j[1]] = 0]
      BY <1>16 DEF stopUnwanted
    <2>3. StopsOldOnly'
      BY <2>1, <2>2 DEF DInv, StopsOldOnly, TypeOK, Gens
    <2>4. RegistryIsLive'
      BY <2>2 DEF DInv, RegistryIsLive
    <2>5. Undistracted' /\ SinceHandoff' /\ OneDrains' /\ DrainsBeforeWarmup'
      BY <2>1 DEF DInv, Undistracted, SinceHandoff, OneDrains, DrainsBeforeWarmup
    <2>. QED  BY <2>3, <2>4, <2>5 DEF DInv
  <1>17. CASE UNCHANGED vars
    BY <1>17, DrainFrame DEF vars
  <1>. QED
    BY <1>1, <1>2, <1>3, <1>4, <1>5, <1>6, <1>7, <1>8, <1>9, <1>10, <1>11, <1>12, <1>13,
       <1>14, <1>15, <1>16, <1>17 DEF Next, TickStep, ReconcileStep

LEMMA DrainsOver == BriefDrain => (Spec => []DInv)
  <1>. SUFFICES ASSUME BriefDrain PROVE Spec => []DInv
    OBVIOUS
  <1>1. Init => DInv
    BY DEF Init, DInv, Undistracted, SinceHandoff, OneDrains, DrainsBeforeWarmup, StopsOldOnly,
           RegistryIsLive
  <1>2. SInv /\ DInv /\ [Next]_vars => DInv'
    BY DrainSteps
  <1>. QED  BY <1>1, <1>2, InductiveInvariant, PTL DEF Spec

\* Two elements and a finite set.
LEMMA PairBound ==
    ASSUME NEW a, NEW b, NEW L, IsFiniteSet(L), NEW S \in SUBSET (L \cup {a, b})
    PROVE  Cardinality(S) \in Nat /\ Cardinality(S) <= 2 + Cardinality(L)
  <1>1. IsFiniteSet(L \cup {a}) /\ Cardinality(L \cup {a}) <= Cardinality(L) + 1
    BY OneMore
  <1>2. /\ IsFiniteSet((L \cup {a}) \cup {b})
        /\ Cardinality((L \cup {a}) \cup {b}) <= Cardinality(L \cup {a}) + 1
    BY <1>1, OneMore
  <1>3. S \in SUBSET ((L \cup {a}) \cup {b})
    OBVIOUS
  <1>4. IsFiniteSet(S) /\ Cardinality(S) <= Cardinality((L \cup {a}) \cup {b})
    BY <1>2, <1>3, FS_Subset
  <1>5. Cardinality(L) \in Nat /\ Cardinality(L \cup {a}) \in Nat /\ Cardinality(S) \in Nat
    BY <1>1, <1>4, FS_CardinalityType
  <1>6. Cardinality((L \cup {a}) \cup {b}) \in Nat
    BY <1>2, FS_CardinalityType
  <1>. QED  BY <1>1, <1>2, <1>4, <1>5, <1>6

\* startWarmup, processDraining: with a drain no longer than the stabilize time a
\* composition never costs more than two encoders between Ticks, and one for each call that
\* failed, however late the Ticks come and however the configuration flaps.
THEOREM EncodersFitTheBudget == BriefDrain => (Spec => []EncoderBudget)
  <1>. SUFFICES ASSUME BriefDrain PROVE Spec => []EncoderBudget
    OBVIOUS
  <1>1. TypeOK /\ LInv /\ DInv => EncoderBudget
    <2>. SUFFICES ASSUME TypeOK, LInv, DInv, crashes = 0, pc = "idle", NEW c \in Comps
                  PROVE  Cardinality({j \in Encoding : j[1] = c}) <= 2 + faults
      BY DEF EncoderBudget
    <2>. DEFINE S == {j \in Encoding : j[1] = c}
    <2>1. \A j \in S : j \notin Leaked =>
              j = <<c, j[2]>> /\ j[2] \in Gens /\ Remembered(c, j[2])
      BY DEF Encoding, JobIds, Leaked
    <2>2. due = {}
      BY DEF LInv, DueInPhase
    <2>3. \E a, b : S \subseteq Leaked \cup {a, b}
      <3>. SUFFICES \E a, b : \A j \in S : j \notin Leaked => j = a \/ j = b
        OBVIOUS
      <3>1. CASE warming[c] # NoWarm
        <4>1. \A e \in draining : e.comp # c
          BY <3>1 DEF DInv, DrainsBeforeWarmup
        <4>2. \A j \in S : j \notin Leaked =>
                  j = <<c, currentGenID[c]>> \/ j = <<c, warming[c].gen>>
          BY <2>1, <2>2, <4>1 DEF Remembered
        <4>. QED  BY <4>2
      <3>2. CASE warming[c] = NoWarm
        <4>1. \A j \in S : j \notin Leaked => j[2] # warming[c].gen
          BY <2>1, <3>2 DEF NoWarm, Gens
        <4>2. CASE \E e \in draining : e.comp = c
          <5>1. PICK e \in draining : e.comp = c
            BY <4>2
          <5>2. \A j \in S : j \notin Leaked =>
                    j = <<c, currentGenID[c]>> \/ j = <<c, e.gen>>
            BY <2>1, <2>2, <4>1, <5>1 DEF Remembered, DInv, OneDrains
          <5>. QED  BY <5>2
        <4>3. CASE ~ \E e \in draining : e.comp = c
          <5>1. \A j \in S : j \notin Leaked => j = <<c, currentGenID[c]>>
            BY <2>1, <2>2, <4>1, <4>3 DEF Remembered
          <5>. QED  BY <5>1
        <4>. QED  BY <4>2, <4>3
      <3>. QED  BY <3>1, <3>2
    <2>4. /\ IsFiniteSet(Leaked) /\ Cardinality(Leaked) \in Nat
          /\ Cardinality(Leaked) <= faults /\ faults \in Nat
      BY BoundAssumption, FS_CardinalityType DEF LInv, LeaksCounted, TypeOK
    <2>. HIDE DEF S
    <2>5. PICK a, b : S \in SUBSET (Leaked \cup {a, b})
      BY <2>3
    <2>6. Cardinality(S) \in Nat /\ Cardinality(S) <= 2 + Cardinality(Leaked)
      BY <2>4, <2>5, PairBound
    <2>. QED  BY <2>4, <2>6 DEF S
  <1>. QED  BY <1>1, LeakInvariant, DrainsOver, TypeCorrect, PTL

----------------------------------------------------------------------------
(* The scheduler implements Handoff. *)

\* What the refinement maps to Handoff's asked and wanted.
Asked == {j \in JobIds : jobs[j] # "off"}
OnDemand == {c \in Comps : snap[c] # Unwanted}

LEMMA AskedMore ==
    ASSUME TypeOK, NEW j \in JobIds, jobs' = [jobs EXCEPT ![j] = "starting"]
    PROVE  Asked' = Asked \cup {j}
  BY DEF TypeOK, Asked

LEMMA AskedLess ==
    ASSUME TypeOK, NEW j \in JobIds, jobs' = [jobs EXCEPT ![j] = "off"]
    PROVE  Asked' = Asked \ {j}
  BY DEF TypeOK, Asked

LEMMA Stutters ==
    ASSUME gens' = gens, snap' = snap, Asked' = Asked
    PROVE  UNCHANGED Promise!vars
  BY DEF Promise!vars, Asked

\* stopJob: the compositor drops the job, or never hears of it.
LEMMA StopAsked ==
    ASSUME TypeOK, NEW j \in JobIds, NEW f, stopJob(j, f)
    PROVE  Asked' = Asked \ {j} \/ (f = "lost" /\ Asked' = Asked)
  BY AskedLess DEF stopJob, Asked

LEMMA RetireStep ==
    ASSUME TypeOK, NEW j \in JobIds, NEW f, stopJob(j, f), gens[j[1]] # j[2],
           UNCHANGED <<gens, snap>>
    PROVE  [Promise!Next]_Promise!vars
  <1>1. j = <<j[1], j[2]>> /\ j[1] \in Comps /\ j[2] \in Promise!Gens
    BY DEF JobIds, Gens, Promise!Gens
  <1>2. CASE Asked' = Asked
    BY <1>2, Stutters
  <1>3. CASE Asked' = Asked \ {j}
    <2>1. Promise!Retire(j[1], j[2])
      BY <1>1, <1>3 DEF Promise!Retire, Asked
    <2>. QED  BY <1>1, <2>1 DEF Promise!Next
  <1>. QED  BY <1>2, <1>3, StopAsked

LEMMA LaunchStep ==
    ASSUME TypeOK, Numbered, RegistryIsLive, NEW c \in Comps, NEW f \in Faults, startWarmup(c, f)
    PROVE  [Promise!Next]_Promise!vars
  <1>1. PICK g \in Gens : g = NextGen(c)
    BY BoundAssumption DEF startWarmup, NextGen, TypeOK, Gens
  <1>2. startJob(<<c, g>>, f) /\ UNCHANGED <<gens, snap>>
    BY <1>1 DEF startWarmup
  <1>3. gens[c] # g /\ <<c, g>> \in JobIds
    BY <1>1 DEF NextGen, TypeOK, Numbered, RegistryIsLive, JobIds
  <1>4. CASE jobs' = jobs
    BY <1>2, <1>4, Stutters DEF Asked
  <1>5. CASE jobs' = [jobs EXCEPT ![<<c, g>>] = "starting"]
    <2>1. Asked' = Asked \cup {<<c, g>>}
      BY <1>3, <1>5, AskedMore
    <2>2. Promise!Launch(c, g)
      BY <1>2, <1>3, <2>1 DEF Promise!Launch, Asked
    <2>. QED  BY <2>2 DEF Promise!Next, Promise!Gens, Gens
  <1>. QED  BY <1>2, <1>4, <1>5 DEF startJob

LEMMA FlipStep ==
    ASSUME TypeOK, NEW c \in Comps, WarmupReady(c)
    PROVE  [Promise!Next]_Promise!vars
  <1>1. PICK g \in Gens : g = warming[c].gen /\ <<c, g>> \in JobIds
    BY DEF WarmupReady, TypeOK, Warming, JobIds
  <1>2. <<c, g>> \in Asked
    BY <1>1 DEF WarmupReady, WarmEnough, Asked
  <1>3. Promise!Flip(c, g)
    BY <1>1, <1>2 DEF Promise!Flip, WarmupReady, Asked
  <1>. QED  BY <1>3 DEF Promise!Next, Promise!Gens, Gens

LEMMA TakeDownStep ==
    ASSUME TypeOK, StopsUnwanted, DueInPhase, RegistryIsLive,
           NEW j \in JobIds, NEW f \in Faults, stopUnwanted(j, f)
    PROVE  [Promise!Next]_Promise!vars
  <1>1. /\ pc = "stop" /\ j \in due /\ stopJob(j, f) /\ snap' = snap
        /\ gens' = IF f = "none" THEN [gens EXCEPT ![j[1]] = 0] ELSE gens
    BY DEF stopUnwanted
  <1>2. j[1] \in Comps /\ snap[j[1]] = Unwanted /\ j = <<j[1], gens[j[1]]>>
    BY <1>1 DEF StopsUnwanted, DueInPhase, RegistryIsLive, JobIds
  <1>3. CASE f = "lost" /\ Asked' = Asked
    BY <1>1, <1>3, Stutters
  <1>4. CASE Asked' = Asked \ {j}
    <2>1. Promise!TakeDown(j[1])
      BY <1>1, <1>2, <1>4 DEF Promise!TakeDown, Asked
    <2>. QED  BY <1>2, <2>1 DEF Promise!Next
  <1>. QED  BY <1>1, <1>3, <1>4, StopAsked

LEMMA PromiseSteps ==
    ASSUME SInv, DueInPhase, DInv, [Next]_vars
    PROVE  [Promise!Next]_Promise!vars
  <1>. TypeOK /\ Numbered /\ StopsUnwanted /\ StopsOldOnly /\ RegistryIsLive
    BY DEF SInv, DInv
  <1>1. CASE UNCHANGED <<gens, snap, jobs>>
    BY <1>1, Stutters DEF Asked
  <1>2. ASSUME NEW c \in Comps, NEW s \in SigsOrNone, Change(c, s) PROVE UNCHANGED <<gens, snap, jobs>>
    BY <1>2 DEF Change
  <1>3. ASSUME NEW j \in JobIds, GoLive(j) \/ EncoderDies(j) PROVE [Promise!Next]_Promise!vars
    <2>1. Asked' = Asked
      BY <1>3 DEF GoLive, EncoderDies, Encoding, TypeOK, Asked
    <2>. QED  BY <1>3, <2>1, Stutters DEF GoLive, EncoderDies
  <1>4. CASE CompositorRestarts
    <2>1. Asked' = Asked
      BY <1>4 DEF CompositorRestarts, TypeOK, Asked
    <2>. QED  BY <1>4, <2>1, Stutters DEF CompositorRestarts
  <1>5. CASE DataplaneRestarts
    <2>1. Promise!Forget
      BY <1>5 DEF DataplaneRestarts, Promise!Forget
    <2>. QED  BY <2>1 DEF Promise!Next
  <1>6. ASSUME NEW d \in 1..MaxGap, Tick(d) PROVE [Promise!Next]_Promise!vars
    <2>1. Promise!Decide
      BY <1>6 DEF Tick, Promise!Decide
    <2>. QED  BY <2>1 DEF Promise!Next
  <1>7. ASSUME NEW c \in Comps, WarmupReady(c) PROVE [Promise!Next]_Promise!vars
    BY <1>7, FlipStep
  <1>8. ASSUME NEW c \in Comps, SteadyState(c) \/ Debounce(c) PROVE UNCHANGED <<gens, snap, jobs>>
    BY <1>8 DEF SteadyState, Debounce
  <1>9. ASSUME NEW c \in Comps, NEW f \in Faults, WarmupNotReady(c, f)
        PROVE  UNCHANGED <<gens, snap, jobs>>
    BY <1>9 DEF WarmupNotReady
  <1>10. ASSUME NEW c \in Comps, NEW f \in Faults, Supersede(c, f)
         PROVE  [Promise!Next]_Promise!vars
    <2>. DEFINE j == <<c, warming[c].gen>>
    <2>1. j \in JobIds /\ gens[j[1]] # j[2] /\ stopJob(j, f) /\ UNCHANGED <<gens, snap>>
      BY <1>10 DEF Supersede, TypeOK, Warming, Gens, JobIds, Numbered, RegistryIsLive
    <2>. QED  BY <2>1, RetireStep
  <1>11. ASSUME NEW c \in Comps, NEW f \in Faults, startWarmup(c, f)
         PROVE  [Promise!Next]_Promise!vars
    BY <1>11, LaunchStep
  <1>12. CASE processDraining \/ cancelUnwanted \/ ListUnwanted \/ EndTick
    BY <1>1, <1>12 DEF processDraining, cancelUnwanted, ListUnwanted, EndTick
  <1>13. ASSUME NEW j \in JobIds, NEW f \in Faults, StopDue(j, f) PROVE [Promise!Next]_Promise!vars
    <2>1. gens[j[1]] # j[2] /\ stopJob(j, f) /\ UNCHANGED <<gens, snap>>
      BY <1>13 DEF StopDue, StopsOldOnly, RegistryIsLive
    <2>. QED  BY <2>1, RetireStep
  <1>14. ASSUME NEW j \in JobIds, NEW f \in Faults, stopUnwanted(j, f)
         PROVE  [Promise!Next]_Promise!vars
    BY <1>14, TakeDownStep
  <1>15. CASE UNCHANGED vars
    BY <1>1, <1>15 DEF vars
  <1>. QED
    BY <1>1, <1>2, <1>3, <1>4, <1>5, <1>6, <1>7, <1>8, <1>9, <1>10, <1>11, <1>12, <1>13,
       <1>14, <1>15 DEF Next, TickStep, ReconcileStep

\* The package's promise of a warm handoff: with a drain no longer than the stabilize
\* time, and for any failures, crashes, restarts and late Ticks, a generation the registry
\* names is never restarted, and is told to stop only after the registry moved on or when
\* its composition is not wanted any more.
THEOREM HandoffIsKept == BriefDrain => (Spec => HandoffPromise)
  <1>. SUFFICES ASSUME BriefDrain PROVE Spec => HandoffPromise
    OBVIOUS
  <1>1. Init => Promise!Init
    BY DEF Init, Promise!Init
  <1>2. SInv /\ LInv /\ DInv /\ [Next]_vars => [Promise!Next]_Promise!vars
    BY PromiseSteps DEF LInv
  <1>. QED
    BY <1>1, <1>2, InductiveInvariant, LeakInvariant, DrainsOver, PTL
       DEF Spec, HandoffPromise, Promise!Spec
=============================================================================
