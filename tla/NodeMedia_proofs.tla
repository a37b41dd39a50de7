-------------------------- MODULE NodeMedia_proofs --------------------------
(***************************************************************************)
(* Theorems about the media side of the version 1 server, for any number   *)
(* of streams, configurations, destinations, processes, overlapping polls  *)
(* and ticks, failures, edits and operator actions, and for any subset of  *)
(* the three supervisors.                                                  *)
(*                                                                         *)
(* compositor.js: one fact carries the proofs.  While apply() sleeps no    *)
(* encoder is tracked, because apply() forgot the old one before its sleep *)
(* and nothing but start() tracks one (AsleepUntracked).  So start() never *)
(* overwrites an encoder that still runs.                                  *)
(*                                                                         *)
(* relays.js and audioRelay.js: `running` and the processes agree because  *)
(* everything that clears an entry of `running` signals its process in the *)
(* same step, because a tick fills an entry only when, after its await, it *)
(* is empty, and because the exit handler checks which process the entry   *)
(* holds before it clears it.  The health of a destination is honest       *)
(* because only output marks it live, and the exit of the last process     *)
(* always overwrites that: the one exit that does not is of a process that *)
(* was replaced.                                                           *)
(*                                                                         *)
(* The three share the sources and the shutdown only, so that their        *)
(* invariants compose as they are.                                         *)
(***************************************************************************)
EXTENDS NodeMedia, TLAPS

(* compositor.js *)

USE DEF programmeVars, ingestVars

AsleepUntracked == sleep # None => proc = None

Encoding == NoOrphanEncoder /\ AsleepUntracked /\ StopIsFinal

ProgrammeInv == ProgrammeTypeOK /\ Encoding /\ NothingForgotten

----------------------------------------------------------------------------
(* Type correctness. *)

LEMMA SignatureType ==
    ASSUME NEW c \in Configs, NEW snap \in Snapshots
    PROVE  signatureOf(c, snap) \in Signatures
  <1>1. c \in [enabled : BOOLEAN, mode : {"server", "web"}, hidden : SUBSET Streams]
    BY ConfigsAssumption
  <1>2. Ready(snap) \subseteq Streams
    BY DEF Ready
  <1>. QED  BY <1>1, <1>2 DEF signatureOf, selectSources, Signatures

LEMMA PollType ==
    ASSUME IngestTypeOK, ProgrammeTypeOK, NEW k \in Polls, NEW c \in Configs, Poll(k, c)
    PROVE  polls' \in [Polls -> {None} \cup [comp : Configs, live : Snapshots]]
  BY DEF IngestTypeOK, ProgrammeTypeOK, Poll

LEMMA InspectType ==
    ASSUME IngestTypeOK, ProgrammeTypeOK, NEW snap \in Snapshots, InspectAll(snap)
    PROVE  /\ cache' \in [Streams -> [since : 0 .. MaxSession, checking : BOOLEAN, saw : 0 .. MaxSession]]
           /\ probes' \subseteq [key : Streams, since : 1 .. MaxSession, from : 0 .. MaxSession]
  <1>. USE SessionsAssumption
  <1>1. snap \in [Streams -> 0 .. MaxSession] /\ sessions \in [Streams -> 0 .. MaxSession]
    BY DEF IngestTypeOK, Snapshots
  <1>2. cache' \in [Streams -> [since : 0 .. MaxSession, checking : BOOLEAN, saw : 0 .. MaxSession]]
    BY <1>1 DEF ProgrammeTypeOK, InspectAll, NoEntry
  <1>3. \A s \in Unprobed(snap) : s \in Streams /\ snap[s] \in 1 .. MaxSession
    BY <1>1 DEF Unprobed, Ready
  <1>. QED  BY <1>1, <1>2, <1>3 DEF ProgrammeTypeOK, InspectAll

LEMMA PollAnsweredType ==
    ASSUME IngestTypeOK, ProgrammeTypeOK, NEW k \in Polls, PollAnswered(k)
    PROVE  ProgrammeTypeOK'
  <1>1. polls[k].comp \in Configs /\ polls[k].live \in Snapshots
    BY DEF ProgrammeTypeOK, PollAnswered
  <1>. DEFINE g == signatureOf(polls[k].comp, polls[k].live)
  <1>2. g \in Signatures
    BY <1>1, SignatureType
  <1>3. polls' \in [Polls -> {None} \cup [comp : Configs, live : Snapshots]]
    BY DEF ProgrammeTypeOK, PollAnswered
  <1>4. /\ cache' \in [Streams -> [since : 0 .. MaxSession, checking : BOOLEAN, saw : 0 .. MaxSession]]
        /\ probes' \subseteq [key : Streams, since : 1 .. MaxSession, from : 0 .. MaxSession]
    BY <1>1, InspectType DEF PollAnswered
  <1>5. desired' \in Signatures \cup {None} /\ settle' \in {None} \cup Timers
        /\ pending' \in {"no", "fresh", "long"}
    <2>1. CASE Unchanged(g)
      BY <2>1, <1>2 DEF PollAnswered, ProgrammeTypeOK
    <2>2. CASE ~Unchanged(g) /\ g # desired
      <3>1. Settle(g)
        BY <2>2 DEF PollAnswered
      <3>. QED  BY <3>1, <1>2 DEF Settle, ProgrammeTypeOK, Timers
    <2>3. CASE ~Unchanged(g) /\ g = desired
      BY <2>3 DEF PollAnswered, ProgrammeTypeOK
    <2>. QED  BY <2>1, <2>2, <2>3
  <1>6. UNCHANGED <<comp, quick, current, sleep, restart, proc, encoders, edits>>
    BY DEF PollAnswered
  <1>. QED  BY <1>3, <1>4, <1>5, <1>6 DEF ProgrammeTypeOK

LEMMA SettleTimerType == ASSUME ProgrammeTypeOK, SettleTimer PROVE ProgrammeTypeOK'
  <1>1. settle.sig \in Signatures
    BY DEF ProgrammeTypeOK, SettleTimer, Timers
  <1>2. proc' \in Procs \cup {None} /\ encoders' \in [Procs -> {"free", "run", "told"}]
    BY DEF ProgrammeTypeOK, SettleTimer, killCurrent
  <1>3. current' \in Signatures \cup {None} /\ sleep' \in Signatures \cup {None}
        /\ pending' \in {"no", "fresh", "long"}
    BY <1>1 DEF ProgrammeTypeOK, SettleTimer
  <1>. QED  BY <1>2, <1>3 DEF ProgrammeTypeOK, SettleTimer

LEMMA ProbeAnsweredType ==
    ASSUME IngestTypeOK, ProgrammeTypeOK, NEW q \in probes, ProbeAnswered(q)
    PROVE  ProgrammeTypeOK'
  <1>. USE SessionsAssumption
  <1>1. q \in [key : Streams, since : 1 .. MaxSession, from : 0 .. MaxSession]
    BY DEF ProgrammeTypeOK
  <1>2. sessions[q.key] \in 0 .. MaxSession
    BY <1>1 DEF IngestTypeOK, Snapshots
  <1>3. PICK saw \in {0} \cup (q.from .. sessions[q.key]) :
          cache' = IF cache[q.key].since = q.since
                     THEN [cache EXCEPT ![q.key] = [since |-> q.since, checking |-> FALSE, saw |-> saw]]
                     ELSE cache
    BY DEF ProbeAnswered
  <1>4. saw \in 0 .. MaxSession /\ q.since \in 0 .. MaxSession
    BY <1>1, <1>2
  <1>5. cache' \in [Streams -> [since : 0 .. MaxSession, checking : BOOLEAN, saw : 0 .. MaxSession]]
    BY <1>3, <1>4 DEF ProgrammeTypeOK
  <1>. QED  BY <1>5 DEF ProgrammeTypeOK, ProbeAnswered

LEMMA ProgrammeType ==
    ASSUME IngestTypeOK, ProgrammeTypeOK, ProgrammeNext \/ StopProgramme
    PROVE  ProgrammeTypeOK'
  <1>1. ASSUME NEW p \in Procs, EncoderExits(p) \/ Start(p) PROVE ProgrammeTypeOK'
    BY <1>1 DEF EncoderExits, Start, scheduleRestart, IngestTypeOK, ProgrammeTypeOK
  <1>2. ASSUME NEW k \in Polls, PollTimer(k) \/ PollFails(k) PROVE ProgrammeTypeOK'
    BY <1>2, PollType DEF PollTimer, PollFails, ProgrammeTypeOK
  <1>3. ASSUME NEW k \in Polls, PollAnswered(k) PROVE ProgrammeTypeOK'
    BY <1>3, PollAnsweredType
  <1>4. ASSUME NEW k \in Polls, RestartTimer(k) PROVE ProgrammeTypeOK'
    <2>1. polls' \in [Polls -> {None} \cup [comp : Configs, live : Snapshots]]
      BY <1>4, PollType DEF RestartTimer, ProgrammeTypeOK
    <2>. QED  BY <1>4, <2>1 DEF RestartTimer, ProgrammeTypeOK
  <1>5. ASSUME NEW k \in Polls, NEW c \in Configs, Nudge(k, c) PROVE ProgrammeTypeOK'
    <2>1. polls' \in [Polls -> {None} \cup [comp : Configs, live : Snapshots]]
      BY <1>5, PollType DEF Nudge
    <2>. QED  BY <1>5, <2>1, ProcsAssumption DEF Nudge, ProgrammeTypeOK
  <1>6. ASSUME NEW q \in probes, ProbeAnswered(q) PROVE ProgrammeTypeOK'
    BY <1>6, ProbeAnsweredType
  <1>7. CASE TimePasses \/ WakeUp \/ StartFails
    BY <1>7 DEF TimePasses, WakeUp, StartFails, scheduleRestart, IngestTypeOK, ProgrammeTypeOK
  <1>8. CASE SettleTimer
    BY <1>8, SettleTimerType
  <1>9. CASE StopProgramme
    BY <1>9 DEF StopProgramme, killCurrent, ProgrammeTypeOK
  <1>. QED  BY <1>1, <1>2, <1>3, <1>4, <1>5, <1>6, <1>7, <1>8, <1>9 DEF ProgrammeNext

----------------------------------------------------------------------------
(* Which encoders run.                                                      *)

LEMMA ProgrammeInitially == ASSUME IngestInit, ProgrammeInit PROVE ProgrammeInv
  <1>1. ProgrammeTypeOK
    <2>1. NoEntry \in [since : 0 .. MaxSession, checking : BOOLEAN, saw : 0 .. MaxSession]
      BY SessionsAssumption DEF NoEntry
    <2>2. cache \in [Streams -> [since : 0 .. MaxSession, checking : BOOLEAN, saw : 0 .. MaxSession]]
      BY <2>1 DEF ProgrammeInit
    <2>3. polls \in [Polls -> {None} \cup [comp : Configs, live : Snapshots]]
      BY DEF ProgrammeInit
    <2>4. encoders \in [Procs -> {"free", "run", "told"}] /\ edits \in 0 .. MaxEdits
      BY ProcsAssumption DEF ProgrammeInit
    <2>. QED  BY <2>2, <2>3, <2>4 DEF ProgrammeInit, ProgrammeTypeOK
  <1>2. Encoding
    BY ProcsAssumption
       DEF ProgrammeInit, Encoding, NoOrphanEncoder, AsleepUntracked, StopIsFinal
  <1>. QED  BY <1>1, <1>2 DEF ProgrammeInit, ProgrammeInv, NothingForgotten

\* killCurrent signals the tracked encoder, and only then forgets it.
LEMMA KillKeeps ==
    ASSUME ProgrammeTypeOK, NoOrphanEncoder, killCurrent
    PROVE  NoOrphanEncoder' /\ proc' = None
  BY ProcsAssumption DEF ProgrammeTypeOK, NoOrphanEncoder, killCurrent

\* What touches neither encoders nor apply().
LEMMA EncodingRests ==
    ASSUME Encoding, UNCHANGED <<proc, encoders, sleep>>, stopping' = stopping
    PROVE  Encoding'
  BY DEF Encoding, NoOrphanEncoder, AsleepUntracked, StopIsFinal

LEMMA EncodingStops == ASSUME ProgrammeTypeOK, Encoding, StopProgramme PROVE Encoding'
  <1>1. NoOrphanEncoder' /\ proc' = None
    BY KillKeeps DEF Encoding, StopProgramme
  <1>. QED  BY <1>1 DEF Encoding, AsleepUntracked, StopIsFinal

LEMMA StoppingRests == ASSUME ProgrammeNext PROVE stopping' = stopping
  BY DEF ProgrammeNext, Fault, EncoderExits, Start, PollTimer, PollFails, PollAnswered,
         RestartTimer, Nudge, ProbeAnswered, TimePasses, SettleTimer, WakeUp, StartFails

LEMMA EncodingSteps == ASSUME ProgrammeTypeOK, Encoding, ProgrammeNext PROVE Encoding'
  <1>. USE ProcsAssumption
  <1>1. ASSUME NEW p \in Procs, EncoderExits(p) PROVE Encoding'
    BY <1>1, StoppingRests
       DEF EncoderExits, ProgrammeTypeOK, Encoding, NoOrphanEncoder, AsleepUntracked, StopIsFinal
  \* nothing is tracked while apply() sleeps, so nothing is overwritten
  <1>2. ASSUME NEW p \in Procs, Start(p) PROVE Encoding'
    <2>1. proc = None /\ ~stopping
      BY <1>2 DEF Start, Encoding, AsleepUntracked, Superseded
    <2>2. NoOrphanEncoder'
      BY <1>2, <2>1 DEF Start, ProgrammeTypeOK, Encoding, NoOrphanEncoder
    <2>. QED  BY <1>2, <2>1, <2>2 DEF Start, Encoding, AsleepUntracked, StopIsFinal
  <1>3. ASSUME NEW k \in Polls, PollTimer(k) \/ PollFails(k) \/ PollAnswered(k) \/ RestartTimer(k)
        PROVE  Encoding'
    BY <1>3, EncodingRests, StoppingRests DEF PollTimer, PollFails, PollAnswered, RestartTimer
  <1>4. ASSUME NEW k \in Polls, NEW c \in Configs, Nudge(k, c) PROVE Encoding'
    BY <1>4, EncodingRests, StoppingRests DEF Nudge
  <1>5. ASSUME NEW q \in probes, ProbeAnswered(q) PROVE Encoding'
    BY <1>5, EncodingRests, StoppingRests DEF ProbeAnswered
  <1>6. CASE TimePasses
    BY <1>6, EncodingRests, StoppingRests DEF TimePasses
  <1>7. CASE SettleTimer
    <2>1. CASE killCurrent
      <3>1. NoOrphanEncoder' /\ proc' = None
        BY <2>1, KillKeeps DEF Encoding
      <3>. QED  BY <3>1, <1>7, StoppingRests DEF Encoding, AsleepUntracked, StopIsFinal
    <2>2. CASE UNCHANGED <<sleep, proc, encoders>>
      BY <2>2, EncodingRests, StoppingRests
    <2>. QED  BY <1>7, <2>1, <2>2 DEF SettleTimer
  <1>8. CASE WakeUp
    BY <1>8, StoppingRests DEF WakeUp, Encoding, NoOrphanEncoder, AsleepUntracked, StopIsFinal
  <1>9. CASE StartFails
    BY <1>9, StoppingRests DEF StartFails, Encoding, NoOrphanEncoder, AsleepUntracked, StopIsFinal
  <1>. QED  BY <1>1, <1>2, <1>3, <1>4, <1>5, <1>6, <1>7, <1>8, <1>9 DEF ProgrammeNext

----------------------------------------------------------------------------
(* Nothing is forgotten.                                                    *)

\* A poll's answer is either as applied, or already on its way, or gets a timer.
LEMMA PollForgetsNothing ==
    ASSUME IngestTypeOK, ProgrammeTypeOK, NothingForgotten, NEW k \in Polls, PollAnswered(k)
    PROVE  NothingForgotten'
  <1>. DEFINE g == signatureOf(polls[k].comp, polls[k].live)
  <1>1. g \in Signatures
    BY SignatureType DEF ProgrammeTypeOK, PollAnswered
  <1>2. UNCHANGED <<quick, stopping, current, sleep, restart, proc>>
    BY DEF PollAnswered
  <1>3. CASE Unchanged(g)
    <2>1. desired' = g /\ g = current /\ (Encodes(current) => proc # None)
      BY <1>3 DEF PollAnswered, Unchanged, Encodes
    <2>2. Encodes(current') <=> Encodes(current)
      BY <1>2
    <2>. QED  BY <2>1, <2>2, <1>2 DEF NothingForgotten
  <1>4. CASE ~Unchanged(g) /\ g # desired
    <2>1. desired' = g /\ settle' = [sig |-> g, now |-> pending = "long"]
      BY <1>4 DEF PollAnswered, Settle
    <2>2. settle' \in Timers
      BY <2>1, <1>1 DEF Timers
    <2>3. settle' # None /\ settle'.sig = desired'
      BY <2>1, <2>2, SignaturesAssumption
    <2>. QED  BY <2>3 DEF NothingForgotten
  <1>5. CASE ~Unchanged(g) /\ g = desired
    <2>1. UNCHANGED <<desired, settle>>
      BY <1>5 DEF PollAnswered
    <2>. QED  BY <2>1, <1>2 DEF NothingForgotten, Encodes
  <1>. QED  BY <1>3, <1>4, <1>5

\* The timer hands over to apply(), which applies at once or sleeps first.
LEMMA TimerForgetsNothing ==
    ASSUME ProgrammeTypeOK, NothingForgotten, SettleTimer
    PROVE  NothingForgotten'
  <1>. SUFFICES ASSUME ~quick, ~stopping, desired # None, desired' = desired,
                       UNCHANGED <<quick, stopping, restart>>
                PROVE  NothingForgotten'
    BY DEF SettleTimer, NothingForgotten
  <1>. DEFINE g == settle.sig
  <1>1. ~Applying /\ settle # None
    BY DEF SettleTimer
  <1>2. CASE g # desired
    <2>1. UNCHANGED <<current, sleep, proc>>
      BY <1>2 DEF SettleTimer, Superseded
    <2>. QED  BY <1>2, <2>1 DEF NothingForgotten, Encodes
  <1>3. CASE g = desired
    <2>1. IF Encodes(g) THEN sleep' = g ELSE current' = g
      BY <1>1, <1>3 DEF SettleTimer, Superseded
    <2>. QED  BY <1>3, <2>1 DEF NothingForgotten, Encodes
  <1>. QED  BY <1>2, <1>3

LEMMA ForgetsNothing ==
    ASSUME IngestTypeOK, ProgrammeTypeOK, NothingForgotten, ProgrammeNext
    PROVE  NothingForgotten'
  <1>. USE ProcsAssumption DEF Encodes
  <1>1. ASSUME NEW p \in Procs, EncoderExits(p) PROVE NothingForgotten'
    <2>1. /\ UNCHANGED <<quick, desired, settle, sleep, current>> /\ stopping' = stopping
          /\ (~stopping /\ restart') \/ UNCHANGED <<proc, restart>> \/ stopping
      BY <1>1, StoppingRests DEF EncoderExits, scheduleRestart
    <2>2. Encodes(current') <=> Encodes(current)
      BY <2>1
    <2>. QED  BY <2>1, <2>2 DEF NothingForgotten
  <1>2. ASSUME NEW p \in Procs, Start(p) PROVE NothingForgotten'
    BY <1>2 DEF Start, Superseded, NothingForgotten
  <1>3. ASSUME NEW k \in Polls, PollTimer(k) \/ PollFails(k) PROVE NothingForgotten'
    BY <1>3, StoppingRests DEF PollTimer, PollFails, NothingForgotten
  <1>4. ASSUME NEW k \in Polls, PollAnswered(k) PROVE NothingForgotten'
    BY <1>4, PollForgetsNothing
  <1>5. ASSUME NEW k \in Polls, RestartTimer(k) PROVE NothingForgotten'
    BY <1>5 DEF RestartTimer, NothingForgotten
  <1>6. ASSUME NEW k \in Polls, NEW c \in Configs, Nudge(k, c) PROVE NothingForgotten'
    BY <1>6 DEF Nudge, NothingForgotten
  <1>7. ASSUME NEW q \in probes, ProbeAnswered(q) PROVE NothingForgotten'
    BY <1>7 DEF ProbeAnswered, NothingForgotten
  <1>8. CASE TimePasses
    BY <1>8 DEF TimePasses, NothingForgotten
  <1>9. CASE SettleTimer
    BY <1>9, TimerForgetsNothing
  <1>10. CASE WakeUp
    BY <1>10 DEF WakeUp, Superseded, NothingForgotten
  <1>11. CASE StartFails
    BY <1>11, StoppingRests DEF StartFails, scheduleRestart, Superseded, NothingForgotten
  <1>. QED
    BY <1>1, <1>2, <1>3, <1>4, <1>5, <1>6, <1>7, <1>8, <1>9, <1>10, <1>11 DEF ProgrammeNext

----------------------------------------------------------------------------
\* One step of compositor.js.
LEMMA ProgrammeSteps == ASSUME IngestTypeOK, ProgrammeInv, ProgrammeNext PROVE ProgrammeInv'
  BY ProgrammeType, EncodingSteps, ForgetsNothing DEF ProgrammeInv

\* stop(), as a part of shutdown.
LEMMA ProgrammeStops ==
    ASSUME IngestTypeOK, ProgrammeInv, StopProgramme, stopping' = TRUE
    PROVE  ProgrammeInv'
  BY ProgrammeType, EncodingStops DEF ProgrammeInv, NothingForgotten

LEMMA ProgrammeRests ==
    ASSUME ProgrammeInv, UNCHANGED programmeVars, stopping' = stopping
    PROVE  ProgrammeInv'
  <1>1. ProgrammeTypeOK'
    BY DEF ProgrammeInv, ProgrammeTypeOK
  <1>2. NothingForgotten'
    BY DEF ProgrammeInv, NothingForgotten, Encodes
  <1>. QED  BY <1>1, <1>2, EncodingRests DEF ProgrammeInv

\* Of what the supervisors share it changes the count of failures only.
LEMMA ProgrammeShares == ASSUME ProgrammeNext PROVE Fault \/ UNCHANGED ingestVars
  BY DEF ProgrammeNext, EncoderExits, Start, PollTimer, PollFails, PollAnswered,
         RestartTimer, Nudge, ProbeAnswered, TimePasses, SettleTimer, WakeUp, StartFails

\* playability.js: a step that is not the answer to a poll leaves every verdict
\* with the session it was filed under.
LEMMA OnlyPollsRefile ==
    ASSUME IngestTypeOK, ProgrammeTypeOK, ProgrammeNext, polls' = polls, NEW s \in Streams
    PROVE  cache'[s].since = cache[s].since
  <1>1. ASSUME NEW k \in Polls, PollAnswered(k) PROVE FALSE
    BY <1>1 DEF PollAnswered, ProgrammeTypeOK
  <1>2. ASSUME NEW q \in probes, ProbeAnswered(q) PROVE cache'[s].since = cache[s].since
    <2>1. q.key \in Streams
      BY DEF ProgrammeTypeOK
    <2>. QED  BY <1>2, <2>1 DEF ProbeAnswered, ProgrammeTypeOK
  <1>. QED
    BY <1>1, <1>2
       DEF ProgrammeNext, EncoderExits, Start, PollTimer, PollFails, RestartTimer, Nudge,
           TimePasses, SettleTimer, WakeUp, StartFails

----------------------------------------------------------------------------
(* relays.js *)

USE DEF restreamVars, audioVars

RestreamInv == RestreamTypeOK /\ OneFeedPerDestination /\ NothingLiveWithoutProcess

LEMMA RestreamInitially == RestreamInit => RestreamInv
  <1>. SUFFICES ASSUME RestreamInit PROVE RestreamInv
    OBVIOUS
  <1>1. RestreamTypeOK
    BY FeedsAssumption DEF RestreamInit, RestreamTypeOK, NoFeed
  <1>. QED
    BY <1>1, FeedsAssumption
       DEF RestreamInit, RestreamInv, OneFeedPerDestination, NothingLiveWithoutProcess, NoFeed

LEMMA RestreamRests == ASSUME RestreamInv, UNCHANGED restreamVars PROVE RestreamInv'
  BY DEF RestreamInv, RestreamTypeOK, OneFeedPerDestination, NothingLiveWithoutProcess

\* stopOne forgets exactly the processes it signals, and gives none to anybody.
LEMMA StopAllKeeps ==
    ASSUME RestreamTypeOK, OneFeedPerDestination, NEW R \in SUBSET Relays, stopAll(R)
    PROVE  /\ running' \in [Relays -> Feeds \cup {None}]
           /\ feed' \in [Feeds -> [of : Relays \cup {None}, told : BOOLEAN]]
           /\ OneFeedPerDestination'
           /\ \A p \in Feeds : feed'[p].of = feed[p].of
  <1>1. running' \in [Relays -> Feeds \cup {None}]
    BY DEF RestreamTypeOK, stopAll
  <1>2. /\ feed' \in [Feeds -> [of : Relays \cup {None}, told : BOOLEAN]]
        /\ \A p \in Feeds : /\ feed'[p].of = feed[p].of
                            /\ feed'[p].told <=> feed[p].told \/ \E r \in R : running[r] = p
    BY DEF RestreamTypeOK, stopAll
  <1>3. \A r \in Relays : running'[r] = IF r \in R THEN None ELSE running[r]
    BY DEF stopAll
  <1>4. OneFeedPerDestination'
    BY <1>2, <1>3, FeedsAssumption DEF OneFeedPerDestination
  <1>. QED  BY <1>1, <1>2, <1>4

\* Where processes stay whose they are, honest health stays so if no destination
\* newly claims to be live or connecting.
LEMMA HonestKeeps ==
    ASSUME NothingLiveWithoutProcess, \A p \in Feeds : feed'[p].of = feed[p].of,
           \A r \in Relays : status'[r] \in {"live", "connecting"} => status[r] \in {"live", "connecting"}
    PROVE  NothingLiveWithoutProcess'
  BY DEF NothingLiveWithoutProcess

LEMMA RestreamStops == ASSUME RestreamInv, StopRestream PROVE RestreamInv'
  <1>1. /\ running' \in [Relays -> Feeds \cup {None}]
        /\ feed' \in [Feeds -> [of : Relays \cup {None}, told : BOOLEAN]]
        /\ OneFeedPerDestination'
        /\ \A p \in Feeds : feed'[p].of = feed[p].of
    BY StopAllKeeps DEF RestreamInv, StopRestream
  <1>2. RestreamTypeOK'
    BY <1>1 DEF RestreamInv, RestreamTypeOK, StopRestream
  <1>3. NothingLiveWithoutProcess'
    BY <1>1, HonestKeeps DEF RestreamInv, StopRestream
  <1>. QED  BY <1>1, <1>2, <1>3 DEF RestreamInv

LEMMA CarriesKeeps == ASSUME RestreamInv, NEW p \in Feeds, Carries(p) PROVE RestreamInv'
  <1>1. feed[p].of \in Relays
    BY DEF RestreamInv, RestreamTypeOK, Carries
  <1>2. RestreamTypeOK'
    BY <1>1 DEF RestreamInv, RestreamTypeOK, Carries
  <1>3. OneFeedPerDestination'
    BY DEF RestreamInv, OneFeedPerDestination, Carries
  <1>4. NothingLiveWithoutProcess'
    BY <1>1 DEF RestreamInv, RestreamTypeOK, NothingLiveWithoutProcess, Carries
  <1>. QED  BY <1>2, <1>3, <1>4 DEF RestreamInv

LEMMA FeedExitsKeeps ==
    ASSUME RestreamInv, NEW p \in Feeds, NEW b \in BOOLEAN, FeedExits(p, b)
    PROVE  RestreamInv'
  <1>. DEFINE r == feed[p].of
              Replaced == running[r] \notin {None, p}
  <1>1. r \in Relays
    BY DEF RestreamInv, RestreamTypeOK, FeedExits
  <1>2. /\ feed' = [feed EXCEPT ![p] = NoFeed]
        /\ Replaced => UNCHANGED <<running, status, backingOff>>
        /\ ~Replaced => /\ running' = [running EXCEPT ![r] = None]
                        /\ \/ status' = [status EXCEPT ![r] = "off"] /\ UNCHANGED backingOff
                           \/ /\ status' = [status EXCEPT ![r] = "retrying"]
                              /\ backingOff' = backingOff \cup {r}
        /\ UNCHANGED <<relay, offered, ticks, changes>>
    BY DEF FeedExits, scheduleRetry
  <1>3. RestreamTypeOK'
    BY <1>1, <1>2 DEF RestreamInv, RestreamTypeOK, NoFeed
  <1>4. OneFeedPerDestination'
    <2>. SUFFICES ASSUME NEW q \in Feeds, NEW t \in Relays
                  PROVE  running'[t] = q <=> feed'[q].of = t /\ ~feed'[q].told
      BY DEF OneFeedPerDestination
    <2>1. running'[r] # p
      BY <1>1, <1>2, FeedsAssumption DEF RestreamInv, RestreamTypeOK
    <2>2. t # r => running'[t] = running[t]
      BY <1>2, <1>1 DEF RestreamInv, RestreamTypeOK
    <2>3. CASE q = p
      <3>1. feed'[q].of = None
        BY <1>2, <2>3 DEF RestreamInv, RestreamTypeOK, NoFeed
      <3>2. t # r => running[t] # p
        BY DEF RestreamInv, OneFeedPerDestination
      <3>. QED  BY <3>1, <3>2, <2>1, <2>2, <2>3, FeedsAssumption
    <2>4. CASE q # p
      <3>1. feed'[q] = feed[q]
        BY <1>2, <2>4 DEF RestreamInv, RestreamTypeOK
      <3>2. running'[t] = q <=> running[t] = q
        BY <1>1, <1>2, <2>2, <2>4, FeedsAssumption DEF RestreamInv, RestreamTypeOK
      <3>. QED  BY <3>1, <3>2 DEF RestreamInv, OneFeedPerDestination
    <2>. QED  BY <2>3, <2>4
  <1>5. NothingLiveWithoutProcess'
    <2>. SUFFICES ASSUME NEW t \in Relays, \A q \in Feeds : feed'[q].of # t
                  PROVE  status'[t] \notin {"live", "connecting"}
      BY DEF NothingLiveWithoutProcess
    <2>1. \A q \in Feeds : q # p => feed'[q] = feed[q]
      BY <1>2 DEF RestreamInv, RestreamTypeOK
    <2>2. CASE t # r
      <3>1. \A q \in Feeds : feed[q].of # t
        BY <2>1, <2>2
      <3>2. status'[t] = status[t]
        BY <1>1, <1>2, <2>2 DEF RestreamInv, RestreamTypeOK
      <3>. QED  BY <3>1, <3>2 DEF RestreamInv, NothingLiveWithoutProcess
    <2>3. CASE t = r
      \* what replaced p is of the same destination, and is still there
      <3>1. ~Replaced
        <4>. SUFFICES ASSUME Replaced PROVE FALSE
          OBVIOUS
        <4>1. running[r] \in Feeds /\ running[r] # p
          BY <1>1 DEF RestreamInv, RestreamTypeOK
        <4>2. feed[running[r]].of = r
          BY <4>1, <1>1 DEF RestreamInv, OneFeedPerDestination
        <4>. QED  BY <4>1, <4>2, <2>1, <2>3
      <3>. QED  BY <3>1, <1>1, <1>2, <2>3 DEF RestreamInv, RestreamTypeOK
    <2>. QED  BY <2>2, <2>3
  <1>. QED  BY <1>3, <1>4, <1>5 DEF RestreamInv

LEMMA TickKeeps == ASSUME IngestTypeOK, RestreamInv, NEW k \in Ticks, Tick(k) PROVE RestreamInv'
  <1>1. /\ running' \in [Relays -> Feeds \cup {None}]
        /\ feed' \in [Feeds -> [of : Relays \cup {None}, told : BOOLEAN]]
        /\ OneFeedPerDestination'
        /\ \A p \in Feeds : feed'[p].of = feed[p].of
    BY StopAllKeeps DEF RestreamInv, Tick
  <1>2. RestreamTypeOK'
    BY <1>1 DEF RestreamInv, RestreamTypeOK, Tick, IngestTypeOK, Wanted
  <1>3. NothingLiveWithoutProcess'
    BY <1>1, HonestKeeps DEF RestreamInv, Tick
  <1>. QED  BY <1>1, <1>2, <1>3 DEF RestreamInv

LEMMA TickAnsweredKeeps ==
    ASSUME IngestTypeOK, RestreamInv, NEW k \in Ticks, TickAnswered(k)
    PROVE  RestreamInv'
  <1>. DEFINE halted == Unavailable(k) \cup Silent(k)
              Outcome(started, with) ==
                /\ \A r, q \in started : with[r] = with[q] => r = q
                /\ running' = [r \in Relays |->
                                 IF r \in halted THEN None
                                 ELSE IF r \in started THEN with[r] ELSE running[r]]
                /\ feed' = [p \in Feeds |->
                              IF \E r \in started : with[r] = p
                                THEN [of |-> CHOOSE r \in started : with[r] = p, told |-> FALSE]
                              ELSE IF \E r \in halted : running[r] = p
                                THEN [feed[p] EXCEPT !.told = TRUE]
                              ELSE feed[p]]
                /\ status' = [r \in Relays |->
                                CASE r \in Unavailable(k)   -> "off"
                                  [] r \in Silent(k)        -> "waiting"
                                  [] r \in started          -> "connecting"
                                  [] r \in Due(k) \ started -> "retrying"
                                  [] OTHER                  -> status[r]]
                /\ backingOff' = (backingOff \ Silent(k)) \cup (Due(k) \ started)
  <1>0. PICK started \in SUBSET Due(k) : \E with \in [started -> FreeFeeds] : Outcome(started, with)
    BY DEF TickAnswered
  <1>1. PICK with \in [started -> FreeFeeds] : Outcome(started, with)
    BY <1>0
  <1>2. /\ ticks[k].wanted \subseteq Relays
        /\ halted \subseteq Relays /\ started \subseteq Relays
        /\ Due(k) \cap halted = {} /\ Unavailable(k) \cap Silent(k) = {}
        /\ \A r \in started : running[r] = None
    BY DEF RestreamInv, RestreamTypeOK, TickAnswered, Due, Unavailable, Silent
  <1>3. \A r \in started : with[r] \in Feeds /\ feed[with[r]].of = None
    BY DEF FreeFeeds
  <1>4. \A p \in Feeds, r \in started : with[r] = p => feed'[p] = [of |-> r, told |-> FALSE]
    <2>. SUFFICES ASSUME NEW p \in Feeds, NEW r \in started, with[r] = p
                  PROVE  feed'[p] = [of |-> r, told |-> FALSE]
      OBVIOUS
    <2>1. (CHOOSE q \in started : with[q] = p) = r
      BY <1>1
    <2>. QED  BY <2>1, <1>1
  <1>5. ASSUME NEW p \in Feeds, \A r \in started : with[r] # p
        PROVE  /\ feed'[p].of = feed[p].of
               /\ feed'[p] \in [of : Relays \cup {None}, told : BOOLEAN]
               /\ feed'[p].told <=> feed[p].told \/ \E r \in halted : running[r] = p
    <2>1. feed'[p] = IF \E r \in halted : running[r] = p
                       THEN [feed[p] EXCEPT !.told = TRUE] ELSE feed[p]
      BY <1>1, <1>5
    <2>2. feed[p] \in [of : Relays \cup {None}, told : BOOLEAN]
      BY DEF RestreamInv, RestreamTypeOK
    <2>. QED  BY <2>1, <2>2
  <1>6. RestreamTypeOK'
    <2>1. running' \in [Relays -> Feeds \cup {None}]
      BY <1>1, <1>3 DEF RestreamInv, RestreamTypeOK
    <2>2. feed' \in [Feeds -> [of : Relays \cup {None}, told : BOOLEAN]]
      <3>. SUFFICES ASSUME NEW p \in Feeds
                    PROVE  feed'[p] \in [of : Relays \cup {None}, told : BOOLEAN]
        BY <1>1
      <3>1. CASE \E r \in started : with[r] = p
        <4>1. PICK r \in started : with[r] = p
          BY <3>1
        <4>2. feed'[p] = [of |-> r, told |-> FALSE]
          BY <4>1, <1>4
        <4>. QED  BY <4>2, <1>2
      <3>2. CASE \A r \in started : with[r] # p
        BY <3>2, <1>5
      <3>. QED  BY <3>1, <3>2
    <2>3. status' \in [Relays -> {"off", "connecting", "live", "retrying", "waiting"}]
      BY <1>1 DEF RestreamInv, RestreamTypeOK
    <2>4. backingOff' \subseteq Relays /\ ticks' \in [Ticks -> {None} \cup [wanted : SUBSET Relays, live : Snapshots]]
      BY <1>1, <1>2 DEF RestreamInv, RestreamTypeOK, TickAnswered, Due
    <2>. QED  BY <2>1, <2>2, <2>3, <2>4 DEF RestreamInv, RestreamTypeOK, TickAnswered
  <1>7. OneFeedPerDestination'
    <2>. SUFFICES ASSUME NEW p \in Feeds, NEW t \in Relays
                  PROVE  running'[t] = p <=> feed'[p].of = t /\ ~feed'[p].told
      BY DEF OneFeedPerDestination
    <2>1. running'[t] = IF t \in halted THEN None ELSE IF t \in started THEN with[t] ELSE running[t]
      BY <1>1
    <2>2. \A r \in Relays : running[r] = p <=> feed[p].of = r /\ ~feed[p].told
      BY DEF RestreamInv, OneFeedPerDestination
    <2>3. CASE \E r \in started : with[r] = p
      <3>1. PICK r \in started : with[r] = p
        BY <2>3
      <3>2. feed'[p] = [of |-> r, told |-> FALSE] /\ feed[p].of = None
        BY <3>1, <1>3, <1>4
      <3>3. running[t] # p
        BY <3>2, <2>2, FeedsAssumption
      <3>4. t \in started /\ with[t] = p => t = r
        BY <3>1, <1>1
      <3>. QED  BY <3>1, <3>2, <3>3, <3>4, <2>1, <1>2, FeedsAssumption
    <2>4. CASE \A r \in started : with[r] # p
      <3>1. /\ feed'[p].of = feed[p].of
            /\ feed'[p].told <=> feed[p].told \/ \E r \in halted : running[r] = p
        BY <2>4, <1>5
      <3>2. CASE t \in halted
        BY <3>1, <3>2, <2>1, <2>2, FeedsAssumption
      <3>3. CASE t \notin halted
        <4>1. running'[t] = p <=> running[t] = p
          BY <3>3, <2>1, <2>4, <1>2, FeedsAssumption
        <4>2. feed[p].of = t => ~\E r \in halted : running[r] = p
          BY <3>3, <2>2, <1>2
        <4>. QED  BY <3>1, <4>1, <4>2, <2>2
      <3>. QED  BY <3>2, <3>3
    <2>. QED  BY <2>3, <2>4
  <1>8. NothingLiveWithoutProcess'
    <2>. SUFFICES ASSUME NEW t \in Relays, status'[t] \in {"live", "connecting"}
                  PROVE  \E p \in Feeds : feed'[p].of = t
      BY DEF NothingLiveWithoutProcess
    <2>1. CASE t \in started
      <3>1. with[t] \in Feeds /\ feed'[with[t]] = [of |-> t, told |-> FALSE]
        BY <2>1, <1>3, <1>4
      <3>. QED  BY <3>1
    <2>2. CASE t \notin started
      <3>1. status'[t] \in {"off", "waiting", "retrying", status[t]}
        BY <2>2, <1>1
      <3>2. PICK p \in Feeds : feed[p].of = t
        BY <3>1 DEF RestreamInv, NothingLiveWithoutProcess
      <3>3. \A r \in started : with[r] # p
        BY <3>2, <1>3, FeedsAssumption
      <3>. QED  BY <3>2, <3>3, <1>5
    <2>. QED  BY <2>1, <2>2
  <1>. QED  BY <1>6, <1>7, <1>8 DEF RestreamInv

\* create, update, remove and the streams: what the operator does.
LEMMA OperatorKeeps ==
    ASSUME RestreamInv,
           \/ \E r \in Relays, on \in BOOLEAN : create(r, on) \/ update(r, on)
           \/ \E r \in Relays : remove(r)
           \/ \E s \in Streams : OfferStream(s)
    PROVE  RestreamInv'
  <1>1. ASSUME NEW r \in Relays, NEW on \in BOOLEAN, create(r, on) PROVE RestreamInv'
    BY <1>1, FeedsAssumption
       DEF create, Change, Switch, RestreamInv, RestreamTypeOK, OneFeedPerDestination,
           NothingLiveWithoutProcess
  <1>2. ASSUME NEW s \in Streams, OfferStream(s) PROVE RestreamInv'
    BY <1>2, FeedsAssumption
       DEF OfferStream, Change, RestreamInv, RestreamTypeOK, OneFeedPerDestination,
           NothingLiveWithoutProcess
  <1>3. ASSUME NEW r \in Relays, stopAll({r}), Change,
               \E new \in {"off", "on", "deleted"} : relay' = [relay EXCEPT ![r] = new],
               status' \in {status, [status EXCEPT ![r] = "off"]},
               backingOff' = backingOff \ {r}, UNCHANGED offered
        PROVE  RestreamInv'
    <2>1. /\ running' \in [Relays -> Feeds \cup {None}]
          /\ feed' \in [Feeds -> [of : Relays \cup {None}, told : BOOLEAN]]
          /\ OneFeedPerDestination'
          /\ \A p \in Feeds : feed'[p].of = feed[p].of
      BY <1>3, StopAllKeeps DEF RestreamInv
    <2>2. RestreamTypeOK'
      <3>1. relay' \in [Relays -> {"new", "off", "on", "deleted"}]
        BY <1>3 DEF RestreamInv, RestreamTypeOK
      <3>2. status' \in [Relays -> {"off", "connecting", "live", "retrying", "waiting"}]
        BY <1>3 DEF RestreamInv, RestreamTypeOK
      <3>3. changes' \in 0 .. MaxChanges /\ ticks' = ticks
        BY <1>3, FeedsAssumption DEF RestreamInv, RestreamTypeOK, Change
      <3>. QED  BY <1>3, <2>1, <3>1, <3>2, <3>3 DEF RestreamInv, RestreamTypeOK
    <2>3. \A q \in Relays : status'[q] \in {"live", "connecting"} => status[q] \in {"live", "connecting"}
      BY <1>3 DEF RestreamInv, RestreamTypeOK
    <2>4. NothingLiveWithoutProcess'
      BY <2>1, <2>3, HonestKeeps DEF RestreamInv
    <2>. QED  BY <2>1, <2>2, <2>4 DEF RestreamInv
  <1>4. ASSUME NEW r \in Relays, NEW on \in BOOLEAN, update(r, on) PROVE RestreamInv'
    BY <1>3, <1>4 DEF update, Switch
  <1>5. ASSUME NEW r \in Relays, remove(r) PROVE RestreamInv'
    BY <1>3, <1>5 DEF remove
  <1>. QED  BY <1>1, <1>2, <1>4, <1>5

\* One step of relays.js, or of its operator.
LEMMA RestreamSteps == ASSUME IngestTypeOK, RestreamInv, RestreamNext PROVE RestreamInv'
  <1>1. ASSUME NEW p \in Feeds, Carries(p) PROVE RestreamInv'
    BY <1>1, CarriesKeeps
  <1>2. ASSUME NEW p \in Feeds, NEW b \in BOOLEAN, FeedExits(p, b) PROVE RestreamInv'
    BY <1>2, FeedExitsKeeps
  <1>3. ASSUME NEW r \in Relays, BackoffElapses(r) PROVE RestreamInv'
    BY <1>3 DEF BackoffElapses, RestreamInv, RestreamTypeOK, OneFeedPerDestination,
                NothingLiveWithoutProcess
  <1>4. ASSUME NEW k \in Ticks, Tick(k) PROVE RestreamInv'
    BY <1>4, TickKeeps
  <1>5. ASSUME NEW k \in Ticks, TickFails(k) PROVE RestreamInv'
    BY <1>5 DEF TickFails, RestreamInv, RestreamTypeOK, OneFeedPerDestination,
                NothingLiveWithoutProcess
  <1>6. ASSUME NEW k \in Ticks, TickAnswered(k) PROVE RestreamInv'
    BY <1>6, TickAnsweredKeeps
  <1>. QED  BY <1>1, <1>2, <1>3, <1>4, <1>5, <1>6, OperatorKeeps DEF RestreamNext

\* Of what the supervisors share it changes the count of failures only.
LEMMA RestreamShares == ASSUME RestreamNext PROVE Fault \/ UNCHANGED ingestVars
  BY DEF RestreamNext, Carries, FeedExits, BackoffElapses, Tick, TickFails, TickAnswered,
         create, update, remove, OfferStream, Change

----------------------------------------------------------------------------
(* audioRelay.js *)

AudioInv == AudioTypeOK /\ OneTranscodePerSource

LEMMA AudioInitially == AudioInit => AudioInv
  BY NoneAssumption, CodecsAssumption DEF AudioInit, AudioInv, AudioTypeOK, OneTranscodePerSource, NoCodec

\* Whatever happens to the sources alone.
LEMMA AudioRests == ASSUME AudioInv, UNCHANGED audioVars PROVE AudioInv'
  BY DEF AudioInv, AudioTypeOK, OneTranscodePerSource

\* stopOne forgets exactly the processes it signals.
LEMMA AudioStops == ASSUME AudioInv, StopAudio PROVE AudioInv'
  <1>1. AudioTypeOK'
    BY DEF AudioInv, AudioTypeOK, StopAudio, haltAll
  <1>2. OneTranscodePerSource'
    BY CodecsAssumption DEF AudioInv, AudioTypeOK, OneTranscodePerSource, StopAudio, haltAll
  <1>. QED  BY <1>1, <1>2 DEF AudioInv

LEMMA TranscodeExitsKeeps ==
    ASSUME AudioInv, NEW p \in Codecs, NEW b \in BOOLEAN, TranscodeExits(p, b)
    PROVE  AudioInv'
  <1>. DEFINE s == codec[p].of
  <1>1. s \in Streams
    BY DEF AudioInv, AudioTypeOK, TranscodeExits
  <1>2. AudioTypeOK'
    BY <1>1, NoneAssumption DEF AudioInv, AudioTypeOK, TranscodeExits, NoCodec
  <1>3. OneTranscodePerSource'
    <2>. SUFFICES ASSUME NEW q \in Codecs, NEW t \in Streams
                  PROVE  transcoder'[t] = q <=> codec'[q].of = t /\ ~codec'[q].told
      BY DEF OneTranscodePerSource
    <2>1. codec' = [codec EXCEPT ![p] = NoCodec]
      BY DEF TranscodeExits
    <2>2. transcoder' = transcoder \/ transcoder' = [transcoder EXCEPT ![s] = None]
      BY DEF TranscodeExits
    <2>3. transcoder'[s] # p
      BY <1>1, CodecsAssumption DEF TranscodeExits, AudioInv, AudioTypeOK
    <2>4. CASE q = p
      <3>1. codec'[q].of = None
        BY <2>1, <2>4 DEF AudioInv, AudioTypeOK, NoCodec
      <3>2. t # s => transcoder'[t] = transcoder[t]
        BY <2>2, <1>1 DEF AudioInv, AudioTypeOK
      <3>3. t # s => transcoder[t] # p
        BY DEF AudioInv, OneTranscodePerSource
      <3>. QED  BY <3>1, <3>2, <3>3, <2>3, <2>4, NoneAssumption
    <2>5. CASE q # p
      <3>1. codec'[q] = codec[q]
        BY <2>1, <2>5 DEF AudioInv, AudioTypeOK
      <3>2. transcoder[s] = q => transcoder' = transcoder
        BY <2>5, CodecsAssumption DEF TranscodeExits
      <3>3. transcoder'[t] = q <=> transcoder[t] = q
        BY <2>2, <3>2, <1>1, CodecsAssumption DEF AudioInv, AudioTypeOK
      <3>. QED  BY <3>1, <3>3 DEF AudioInv, OneTranscodePerSource
    <2>. QED  BY <2>4, <2>5
  <1>. QED  BY <1>2, <1>3 DEF AudioInv

LEMMA AudioTickAnsweredKeeps ==
    ASSUME IngestTypeOK, AudioInv, NEW k \in AudioTicks, AudioTickAnswered(k)
    PROVE  AudioInv'
  <1>. DEFINE gone == Streams \ Ready(audioTicks[k])
              free == {p \in Codecs : codec[p].of = None}
  <1>1. PICK with \in [ToStart(k) -> free \cup {None}] :
          /\ \A s, t \in ToStart(k) : with[s] = with[t] => s = t \/ with[s] = None
          /\ transcoder' = [s \in Streams |->
                              IF s \in gone THEN None
                              ELSE IF s \in ToStart(k) THEN with[s] ELSE transcoder[s]]
          /\ codec' = [p \in Codecs |->
                         IF \E s \in ToStart(k) : with[s] = p
                           THEN [of |-> CHOOSE s \in ToStart(k) : with[s] = p, told |-> FALSE]
                         ELSE IF \E s \in gone : transcoder[s] = p
                           THEN [codec[p] EXCEPT !.told = TRUE]
                         ELSE codec[p]]
          /\ resting' = (resting \ gone) \cup {s \in ToStart(k) : with[s] = None}
    BY DEF AudioTickAnswered
  <1>2. ToStart(k) \subseteq Streams /\ ToStart(k) \cap gone = {}
    BY DEF ToStart, Ready
  <1>3. \A s \in ToStart(k) : transcoder[s] = None
    BY DEF ToStart
  <1>4. \A p \in Codecs, s \in ToStart(k) :
          with[s] = p => codec'[p] = [of |-> s, told |-> FALSE] /\ codec[p].of = None
    <2>. SUFFICES ASSUME NEW p \in Codecs, NEW s \in ToStart(k), with[s] = p
                  PROVE  codec'[p] = [of |-> s, told |-> FALSE] /\ codec[p].of = None
      OBVIOUS
    <2>1. (CHOOSE t \in ToStart(k) : with[t] = p) = s
      BY <1>1, CodecsAssumption
    <2>. QED  BY <2>1, <1>1, CodecsAssumption
  <1>5. \A p \in Codecs :
          (\A s \in ToStart(k) : with[s] # p) =>
            codec'[p] = IF \E s \in gone : transcoder[s] = p
                          THEN [codec[p] EXCEPT !.told = TRUE] ELSE codec[p]
    BY <1>1
  <1>6. AudioTypeOK'
    <2>1. transcoder' \in [Streams -> Codecs \cup {None}]
      BY <1>1, <1>2 DEF AudioInv, AudioTypeOK
    <2>2. codec' \in [Codecs -> [of : Streams \cup {None}, told : BOOLEAN]]
      <3>. SUFFICES ASSUME NEW p \in Codecs
                    PROVE  codec'[p] \in [of : Streams \cup {None}, told : BOOLEAN]
        BY <1>1
      <3>1. CASE \E s \in ToStart(k) : with[s] = p
        <4>1. PICK s \in ToStart(k) : with[s] = p
          BY <3>1
        <4>2. codec'[p] = [of |-> s, told |-> FALSE]
          BY <4>1, <1>4
        <4>. QED  BY <4>2, <1>2
      <3>2. CASE \A s \in ToStart(k) : with[s] # p
        <4>1. codec'[p] = codec[p] \/ codec'[p] = [codec[p] EXCEPT !.told = TRUE]
          BY <3>2, <1>5
        <4>. QED  BY <4>1 DEF AudioInv, AudioTypeOK
      <3>. QED  BY <3>1, <3>2
    <2>3. resting' \subseteq Streams /\ audioTicks' \in [AudioTicks -> Snapshots \cup {None}]
      BY <1>1, <1>2 DEF AudioInv, AudioTypeOK, AudioTickAnswered
    <2>. QED  BY <2>1, <2>2, <2>3 DEF AudioTypeOK
  <1>7. OneTranscodePerSource'
    <2>. SUFFICES ASSUME NEW p \in Codecs, NEW t \in Streams
                  PROVE  transcoder'[t] = p <=> codec'[p].of = t /\ ~codec'[p].told
      BY DEF OneTranscodePerSource
    <2>1. transcoder'[t] = IF t \in gone THEN None
                           ELSE IF t \in ToStart(k) THEN with[t] ELSE transcoder[t]
      BY <1>1
    <2>2. \A s \in Streams : transcoder[s] = p <=> codec[p].of = s /\ ~codec[p].told
      BY DEF AudioInv, OneTranscodePerSource
    <2>3. CASE \E s \in ToStart(k) : with[s] = p
      <3>1. PICK s \in ToStart(k) : with[s] = p
        BY <2>3
      <3>2. codec'[p] = [of |-> s, told |-> FALSE] /\ codec[p].of = None
        BY <3>1, <1>4
      <3>3. transcoder[t] # p
        BY <3>2, <2>2, NoneAssumption
      <3>4. t \in ToStart(k) /\ with[t] = p => t = s
        BY <3>1, <1>1, CodecsAssumption
      <3>. QED  BY <3>1, <3>2, <3>3, <3>4, <2>1, <1>2, CodecsAssumption
    <2>4. CASE \A s \in ToStart(k) : with[s] # p
      <3>1. codec'[p] = IF \E s \in gone : transcoder[s] = p
                          THEN [codec[p] EXCEPT !.told = TRUE] ELSE codec[p]
        BY <2>4, <1>5
      <3>2. codec[p] \in [of : Streams \cup {None}, told : BOOLEAN]
        BY DEF AudioInv, AudioTypeOK
      <3>3. /\ codec'[p].of = codec[p].of
            /\ codec'[p].told <=> codec[p].told \/ \E s \in gone : transcoder[s] = p
        BY <3>1, <3>2
      <3>4. CASE t \in gone
        BY <3>3, <3>4, <2>1, <2>2, CodecsAssumption
      <3>5. CASE t \notin gone
        <4>1. transcoder'[t] = p <=> transcoder[t] = p
          BY <3>5, <2>1, <2>4, <1>3, CodecsAssumption
        <4>2. codec[p].of = t => ~\E s \in gone : transcoder[s] = p
          BY <3>5, <2>2
        <4>. QED  BY <3>3, <4>1, <4>2, <2>2
      <3>. QED  BY <3>4, <3>5
    <2>. QED  BY <2>3, <2>4
  <1>. QED  BY <1>6, <1>7 DEF AudioInv

\* One step of audioRelay.js.
LEMMA AudioSteps == ASSUME IngestTypeOK, AudioInv, AudioNext PROVE AudioInv'
  <1>1. ASSUME NEW p \in Codecs, Transcodes(p) PROVE AudioInv'
    BY <1>1 DEF Transcodes, AudioInv, AudioTypeOK, OneTranscodePerSource
  <1>2. ASSUME NEW p \in Codecs, NEW b \in BOOLEAN, TranscodeExits(p, b) PROVE AudioInv'
    BY <1>2, TranscodeExitsKeeps
  <1>3. ASSUME NEW s \in Streams, AudioRetryDue(s) PROVE AudioInv'
    BY <1>3 DEF AudioRetryDue, AudioInv, AudioTypeOK, OneTranscodePerSource
  <1>4. ASSUME NEW k \in AudioTicks, AudioTick(k) \/ AudioTickFails(k) PROVE AudioInv'
    BY <1>4 DEF AudioTick, AudioTickFails, IngestTypeOK, AudioInv, AudioTypeOK, OneTranscodePerSource
  <1>5. ASSUME NEW k \in AudioTicks, AudioTickAnswered(k) PROVE AudioInv'
    BY <1>5, AudioTickAnsweredKeeps
  <1>. QED  BY <1>1, <1>2, <1>3, <1>4, <1>5 DEF AudioNext

\* Of what the supervisors share it changes the count of failures only.
LEMMA AudioShares == ASSUME AudioNext PROVE Fault \/ UNCHANGED ingestVars
  BY DEF AudioNext, Transcodes, TranscodeExits, AudioRetryDue, AudioTick, AudioTickFails,
         AudioTickAnswered

----------------------------------------------------------------------------
(* The whole. *)

USE DEF mediaVars

MediaInv == IngestTypeOK /\ ProgrammeInv /\ RestreamInv /\ AudioInv

LEMMA IngestSteps ==
    ASSUME IngestTypeOK,
           \/ \E s \in Streams : Publish(s) \/ Unpublish(s)
           \/ Fault
           \/ UNCHANGED ingestVars
           \/ stopping' = TRUE /\ UNCHANGED <<live, sessions, faults>>
    PROVE  IngestTypeOK'
  <1>. USE SessionsAssumption DEF IngestTypeOK, Snapshots
  <1>1. ASSUME NEW s \in Streams, Publish(s) PROVE IngestTypeOK'
    BY <1>1 DEF Publish
  <1>2. ASSUME NEW s \in Streams, Unpublish(s) PROVE IngestTypeOK'
    BY <1>2 DEF Unpublish
  <1>3. CASE Fault
    BY <1>3 DEF Fault
  <1>4. CASE UNCHANGED ingestVars \/ (stopping' = TRUE /\ UNCHANGED <<live, sessions, faults>>)
    BY <1>4
  <1>. QED  BY <1>1, <1>2, <1>3, <1>4

LEMMA MediaInitially == MediaInit => MediaInv
  <1>. SUFFICES ASSUME MediaInit PROVE MediaInv
    OBVIOUS
  <1>1. IngestTypeOK
    <2>1. /\ live = [s \in Streams |-> 0] /\ sessions = [s \in Streams |-> 0]
          /\ 0 \in 0 .. MaxSession /\ 0 \in 0 .. MaxFaults
      BY SessionsAssumption DEF MediaInit, IngestInit
    <2>. QED  BY <2>1 DEF MediaInit, IngestInit, IngestTypeOK, Snapshots
  <1>. QED
    BY <1>1, ProgrammeInitially, RestreamInitially, AudioInitially DEF MediaInit, MediaInv

LEMMA MediaSteps == MediaInv /\ [MediaNext]_mediaVars => MediaInv'
  <1>. SUFFICES ASSUME MediaInv, [MediaNext]_mediaVars PROVE MediaInv'
    OBVIOUS
  <1>1. CASE Encoders
    <2>1. IngestTypeOK' /\ stopping' = stopping
      BY <1>1, IngestSteps DEF Encoders, MediaInv, Publish, Unpublish
    <2>. QED
      BY <1>1, <2>1, ProgrammeRests, RestreamRests, AudioRests DEF Encoders, MediaInv
  <1>2. CASE Shutdown
    <2>1. IngestTypeOK'
      BY <1>2, IngestSteps DEF Shutdown, MediaInv
    <2>. QED
      BY <1>2, <2>1, ProgrammeStops, RestreamStops, AudioStops DEF Shutdown, MediaInv
  <1>3. CASE Composes
    <2>1. IngestTypeOK'
      BY <1>3, IngestSteps, ProgrammeShares DEF Composes, MediaInv
    <2>. QED
      BY <1>3, <2>1, ProgrammeSteps, RestreamRests, AudioRests DEF Composes, MediaInv
  <1>4. CASE Restreams
    <2>1. Fault \/ UNCHANGED ingestVars
      BY <1>4, RestreamShares DEF Restreams
    <2>2. IngestTypeOK' /\ stopping' = stopping
      BY <2>1, IngestSteps DEF MediaInv, Fault
    <2>. QED
      BY <1>4, <2>2, ProgrammeRests, RestreamSteps, AudioRests DEF Restreams, MediaInv
  <1>5. CASE Monitors
    <2>1. Fault \/ UNCHANGED ingestVars
      BY <1>5, AudioShares DEF Monitors
    <2>2. IngestTypeOK' /\ stopping' = stopping
      BY <2>1, IngestSteps DEF MediaInv, Fault
    <2>. QED
      BY <1>5, <2>2, ProgrammeRests, RestreamRests, AudioSteps DEF Monitors, MediaInv
  <1>6. CASE UNCHANGED mediaVars
    <2>1. IngestTypeOK' /\ stopping' = stopping
      BY <1>6, IngestSteps DEF MediaInv
    <2>. QED
      BY <1>6, <2>1, ProgrammeRests, RestreamRests, AudioRests DEF MediaInv
  <1>. QED  BY <1>1, <1>2, <1>3, <1>4, <1>5, <1>6 DEF MediaNext

THEOREM MediaInvariant == MediaSpec => []MediaInv
  BY MediaInitially, MediaSteps, PTL DEF MediaSpec

----------------------------------------------------------------------------
\* Every variable keeps to its type: no session, poll, timer, process or health
\* is ever what the code has no value for.
THEOREM MediaTypes == MediaSpec => []MediaTypeOK
  <1>1. MediaInv => MediaTypeOK
    BY DEF MediaInv, ProgrammeInv, RestreamInv, AudioInv, MediaTypeOK
  <1>. QED  BY <1>1, MediaInvariant, PTL

\* compositor.js never loses an encoder that runs: at most one runs untold, and
\* it is the one killCurrent would signal, however polls, timers, crashes and
\* edits interleave with the sleep of apply().
THEOREM NoEncoderIsOrphaned == MediaSpec => []NoOrphanEncoder
  <1>1. MediaInv => NoOrphanEncoder
    BY DEF MediaInv, ProgrammeInv, Encoding
  <1>. QED  BY <1>1, MediaInvariant, PTL

\* Once shutdown() was called no encoder is tracked again, though an apply() may
\* be asleep and polls under way when it is called.
THEOREM StoppedIsFinal == MediaSpec => []StopIsFinal
  <1>1. MediaInv => StopIsFinal
    BY DEF MediaInv, ProgrammeInv, Encoding
  <1>. QED  BY <1>1, MediaInvariant, PTL

\* A change of the set or the configuration that compositor.js has seen is
\* applied, or has a timer or a sleeping apply() that will apply it.
THEOREM NoChangeIsForgotten == MediaSpec => []NothingForgotten
  <1>1. MediaInv => NothingForgotten
    BY DEF MediaInv, ProgrammeInv
  <1>. QED  BY <1>1, MediaInvariant, PTL

\* relays.js never feeds a destination twice: the process `running` holds is the
\* only one of its destination that was not told to stop.
THEOREM DestinationsAreFedOnce == MediaSpec => []OneFeedPerDestination
  <1>1. MediaInv => OneFeedPerDestination
    BY DEF MediaInv, RestreamInv
  <1>. QED  BY <1>1, MediaInvariant, PTL

\* relays.js reports no destination live or connecting that has no process left,
\* though its output and exit handlers hold the health and not the process.
THEOREM HealthIsHonest == MediaSpec => []NothingLiveWithoutProcess
  <1>1. MediaInv => NothingLiveWithoutProcess
    BY DEF MediaInv, RestreamInv
  <1>. QED  BY <1>1, MediaInvariant, PTL

\* audioRelay.js never has two transcodes publish one source.
THEOREM SourcesAreTranscodedOnce == MediaSpec => []OneTranscodePerSource
  <1>1. MediaInv => OneTranscodePerSource
    BY DEF MediaInv, AudioInv
  <1>. QED  BY <1>1, MediaInvariant, PTL

\* playability.js: no late ffprobe moves a verdict to another session or brings
\* back a source that was forgotten.
THEOREM LateProbesChangeNothing == MediaSpec => LateProbesAreDropped
  <1>. DEFINE Keeps == polls' = polls => \A s \in Streams : cache'[s].since = cache[s].since
  <1>1. MediaInv /\ [MediaNext]_mediaVars => [Keeps]_<<programmeVars, ingestVars>>
    <2>. SUFFICES ASSUME MediaInv, [MediaNext]_mediaVars PROVE Keeps
      OBVIOUS
    <2>1. CASE Composes
      BY <2>1, OnlyPollsRefile DEF Composes, MediaInv, ProgrammeInv
    <2>2. CASE UNCHANGED cache
      BY <2>2
    <2>. QED
      BY <2>1, <2>2 DEF MediaNext, Encoders, Shutdown, StopProgramme, Restreams, Monitors
  <1>. QED  BY <1>1, MediaInvariant, PTL DEF MediaSpec, LateProbesAreDropped

=============================================================================
