----------------------------- MODULE Programme -----------------------------
(***************************************************************************)
(* The version 1 compositor: compositor.js and the playability cache its   *)
(* poll keeps.  One encoder publishes the composed programme; a poll that  *)
(* finds the set of sources or the configuration changed arms a settling   *)
(* timer, and when that fires the encoder is replaced.                     *)
(*                                                                         *)
(* Everything runs on one thread and is cut where the code awaits or sets  *)
(* a timer: a poll at its call of MediaMTX, apply() in its sleep of 250ms. *)
(***************************************************************************)
EXTENDS Ingest

CONSTANTS Configs,      \* the compositions an administrator may save
          Procs,        \* encoder processes that may exist at once (a bound)
          Polls,        \* polls that may wait for MediaMTX at once (a bound)
          MaxEdits,     \* bound: calls of nudge()
          LongWaits     \* bound: whether a set stays unsettled for the longest wait

ASSUME ConfigsAssumption ==
    Configs \subseteq [enabled : BOOLEAN, mode : {"server", "web"}, hidden : SUBSET Streams]
ASSUME ProcsAssumption == None \notin Procs /\ MaxEdits \in Nat

VARIABLES comp,         \* the composition in the store
          quick,        \* settings.stabilizeMs is below apply()'s sleep
          polls,        \* polls[k]: what tick() read before its await, and MediaMTX's answer
          desired,      \* desiredSignature
          current,      \* currentSignature
          pending,      \* pendingSince: "no", "fresh", or "long" ago
          settle,       \* the signature stabiliseTimer was armed for
          sleep,        \* the signature apply() sleeps for (applying)
          restart,      \* restartTimer is armed
          proc,         \* the process the module tracks
          encoders,     \* encoders[p]: "free", "run" or "told" (signalled)
          cache,        \* playability: what is known about each source
          probes,       \* playability: the ffprobes that run
          edits         \* calls of nudge() so far, for the bound only

programmeVars == <<comp, quick, polls, desired, current, pending, settle, sleep,
                   restart, proc, encoders, cache, probes, edits>>

Signatures == [src : SUBSET Streams, enabled : BOOLEAN, mode : {"server", "web"}]
Timers == [sig : Signatures, now : BOOLEAN]

ASSUME SignaturesAssumption == None \notin Signatures \cup Timers

\* The sources of one answer that go on air.  Which streams are shown is read
\* from the store as it is when the answer comes.
selectSources(snap) == Ready(snap) \ comp.hidden

\* c is the configuration tick() read before its await.
signatureOf(c, snap) ==
    [src |-> IF c.enabled THEN selectSources(snap) ELSE {}, enabled |-> c.enabled, mode |-> c.mode]

\* Whether apply() ends by starting an encoder for signature g.
Encodes(g) == g.enabled /\ g.mode = "server" /\ g.src # {}

NoEntry == [since |-> 0, checking |-> FALSE, saw |-> 0]

ProgrammeInit ==
    /\ comp \in Configs
    /\ quick \in BOOLEAN
    /\ polls = [k \in Polls |-> None]
    /\ desired = None /\ current = None
    /\ pending = "no"
    /\ settle = None /\ sleep = None
    /\ restart = FALSE
    /\ proc = None
    /\ encoders = [p \in Procs |-> "free"]
    /\ cache = [s \in Streams |-> NoEntry]
    /\ probes = {}
    /\ edits = 0

-----------------------------------------------------------------------------
(* Processes.                                                              *)

killCurrent_OnlyForgets ==
    /\ proc' = None
    /\ UNCHANGED encoders

\* killCurrent: SIGTERM, and SIGKILL three seconds later.
killCurrent ==
    /\ proc' = None
    /\ encoders' = IF proc = None THEN encoders ELSE [encoders EXCEPT ![proc] = "told"]

\* scheduleRestart: one timer at a time.  How long it waits is not kept.
scheduleRestart == restart' = (restart \/ ~stopping)

\* The encoder ends: by itself, or because it was told to.
EncoderExits(p) ==
    /\ \/ encoders[p] = "run" /\ Fault
       \/ encoders[p] = "told" /\ UNCHANGED ingestVars
    /\ encoders' = [encoders EXCEPT ![p] = "free"]
    /\ IF proc = p
         THEN proc' = None /\ scheduleRestart
         ELSE UNCHANGED <<proc, restart>>
    /\ UNCHANGED <<comp, quick, polls, desired, current, pending, settle, sleep,
                   cache, probes, edits>>

-----------------------------------------------------------------------------
(* Polls.                                                                  *)

\* tick() up to its await: the configuration is read now, and MediaMTX answers
\* with what is live now; the answer arrives later.
Poll(k, c) ==
    /\ polls[k] = None
    /\ polls' = [polls EXCEPT ![k] = [comp |-> c, live |-> live]]

\* The interval fires, whether or not an earlier poll still waits.
PollTimer(k) ==
    /\ ~stopping
    /\ Poll(k, comp)
    /\ UNCHANGED <<comp, quick, desired, current, pending, settle, sleep, restart,
                   proc, encoders, cache, probes, edits, ingestVars>>

\* listIngest fails: the poll ends without having seen anything.
PollFails(k) ==
    /\ polls[k] # None
    /\ Fault
    /\ polls' = [polls EXCEPT ![k] = None]
    /\ UNCHANGED <<comp, quick, desired, current, pending, settle, sleep, restart,
                   proc, encoders, cache, probes, edits>>

Unprobed_EvenSilent(snap) == {s \in Streams : cache[s].since # snap[s]}

\* playability.keep and playability.inspect for one answer: what stopped
\* publishing is forgotten, what has a session not probed yet is probed.
Unprobed(snap) == {s \in Ready(snap) : cache[s].since # snap[s]}

InspectAll(snap) ==
    /\ cache' = [s \in Streams |->
                   IF s \notin Ready(snap) THEN NoEntry
                   ELSE IF s \in Unprobed(snap)
                          THEN [since |-> snap[s], checking |-> TRUE, saw |-> 0]
                          ELSE cache[s]]
    /\ probes' = probes \cup
                   {[key |-> s, since |-> snap[s], from |-> sessions[s]] : s \in Unprobed(snap)}

\* The set is as it was applied: nothing to do.
Unchanged(g) ==
    /\ g = current
    /\ proc # None \/ g.src = {}

Settle_KeepingItsTimer(g) ==
    /\ desired' = g
    /\ settle' = IF settle # None THEN settle ELSE [sig |-> g, now |-> pending = "long"]
    /\ pending' = IF pending = "no" THEN "fresh" ELSE pending

\* The set differs from what is settling: (re-)arm the timer, which fires at
\* once when the set has been unsettled for the longest wait allowed.
Settle(g) ==
    /\ desired' = g
    /\ settle' = [sig |-> g, now |-> pending = "long"]
    /\ pending' = IF pending = "no" THEN "fresh" ELSE pending

\* tick() from its await on.
PollAnswered(k) ==
    /\ polls[k] # None
    /\ polls' = [polls EXCEPT ![k] = None]
    /\ LET g == signatureOf(polls[k].comp, polls[k].live)
       IN /\ InspectAll(polls[k].live)
          /\ CASE Unchanged(g)              -> desired' = g /\ UNCHANGED <<settle, pending>>
               [] ~Unchanged(g) /\ g # desired -> Settle(g)
               [] OTHER                     -> UNCHANGED <<desired, settle, pending>>
    /\ UNCHANGED <<comp, quick, current, sleep, restart, proc, encoders, edits, ingestVars>>

ProbeAnswered_Unchecked(q) ==
    /\ q \in probes
    /\ probes' = probes \ {q}
    /\ \E saw \in {0} \cup (q.from .. sessions[q.key]) :
          cache' = [cache EXCEPT ![q.key] = [since |-> q.since, checking |-> FALSE, saw |-> saw]]
    /\ UNCHANGED <<comp, quick, polls, desired, current, pending, settle, sleep,
                   restart, proc, encoders, edits, ingestVars>>

\* An ffprobe answers, having read the stream at some time since it was started,
\* or fails.  A source seen with another session meanwhile keeps its entry.
ProbeAnswered(q) ==
    /\ q \in probes
    /\ probes' = probes \ {q}
    /\ \E saw \in {0} \cup (q.from .. sessions[q.key]) :
          cache' = IF cache[q.key].since = q.since
                     THEN [cache EXCEPT ![q.key] = [since |-> q.since, checking |-> FALSE, saw |-> saw]]
                     ELSE cache
    /\ UNCHANGED <<comp, quick, polls, desired, current, pending, settle, sleep,
                   restart, proc, encoders, edits, ingestVars>>

-----------------------------------------------------------------------------
(* Applying a signature.                                                   *)

\* At least ten seconds pass, longer than any sleep.
TimePasses ==
    /\ LongWaits
    /\ pending = "fresh" /\ sleep = None
    /\ pending' = "long"
    /\ UNCHANGED <<comp, quick, polls, desired, current, settle, sleep, restart,
                   proc, encoders, cache, probes, edits, ingestVars>>

Superseded_IgnoringShutdown(g) == g # desired

\* Why an apply() that starts now does nothing.
Superseded(g) == stopping \/ g # desired
Applying == sleep # None

\* stabiliseTimer fires and calls apply().  A timer armed while another apply()
\* sleeps outlasts the sleep unless settling is quick.
SettleTimer ==
    /\ settle # None
    /\ Applying => quick
    /\ settle' = None
    /\ LET g == settle.sig
       IN IF Superseded(g) \/ Applying
            THEN UNCHANGED <<pending, current, sleep, proc, encoders>>
            ELSE /\ pending' = "no"
                 /\ killCurrent
                 /\ IF Encodes(g)
                      THEN sleep' = g /\ UNCHANGED current
                      ELSE current' = g /\ UNCHANGED sleep
    /\ UNCHANGED <<comp, quick, polls, desired, restart, cache, probes, edits, ingestVars>>

\* apply() wakes up: anything may have changed meanwhile.
WakeUp ==
    /\ sleep # None
    /\ Superseded(sleep)
    /\ sleep' = None
    /\ UNCHANGED <<comp, quick, polls, desired, current, pending, settle, restart,
                   proc, encoders, cache, probes, edits, ingestVars>>

\* start(): the encoder is spawned and is now the one tracked.
Start(p) ==
    /\ sleep # None
    /\ ~Superseded(sleep)
    /\ encoders[p] = "free"
    /\ encoders' = [encoders EXCEPT ![p] = "run"]
    /\ proc' = p
    /\ current' = sleep
    /\ sleep' = None
    /\ UNCHANGED <<comp, quick, polls, desired, pending, settle, restart, cache,
                   probes, edits, ingestVars>>

\* start() with an ffmpeg that cannot be launched: the "error" event.
StartFails ==
    /\ sleep # None
    /\ ~Superseded(sleep)
    /\ Fault
    /\ proc' = None
    /\ scheduleRestart
    /\ current' = sleep
    /\ sleep' = None
    /\ UNCHANGED <<comp, quick, polls, desired, pending, settle, encoders, cache, probes, edits>>

-----------------------------------------------------------------------------
RestartTimer_RemembersTheSet(k) ==
    /\ restart
    /\ restart' = FALSE
    /\ Poll(k, comp)
    /\ UNCHANGED <<comp, quick, desired, current, pending, settle, sleep, proc, encoders,
                   cache, probes, edits, ingestVars>>

\* restartTimer fires: both signatures are forgotten, so that the poll acts.
RestartTimer(k) ==
    /\ restart
    /\ restart' = FALSE
    /\ current' = None /\ desired' = None
    /\ Poll(k, comp)
    /\ UNCHANGED <<comp, quick, pending, settle, sleep, proc, encoders, cache, probes, edits, ingestVars>>

\* An administrator saves a composition, or changes a stream: nudge().
Nudge(k, c) ==
    /\ ~stopping
    /\ edits < MaxEdits
    /\ edits' = edits + 1
    /\ comp' = c
    /\ current' = None /\ desired' = None
    /\ pending' = "no"
    /\ Poll(k, c)
    /\ UNCHANGED <<quick, settle, sleep, restart, proc, encoders, cache, probes, ingestVars>>

\* stop(), one part of shutdown.
StopProgramme ==
    /\ settle' = None
    /\ restart' = FALSE
    /\ killCurrent
    /\ UNCHANGED <<comp, quick, polls, desired, current, pending, sleep, cache, probes, edits>>

ProgrammeNext ==
    \/ \E p \in Procs : EncoderExits(p) \/ Start(p)
    \/ \E k \in Polls : PollTimer(k) \/ PollFails(k) \/ PollAnswered(k) \/ RestartTimer(k)
    \/ \E k \in Polls, c \in Configs : Nudge(k, c)
    \/ \E q \in probes : ProbeAnswered(q)
    \/ TimePasses
    \/ SettleTimer
    \/ WakeUp
    \/ StartFails

-----------------------------------------------------------------------------
(* Properties.                                                             *)

ProgrammeTypeOK ==
    /\ comp \in Configs
    /\ quick \in BOOLEAN
    /\ polls \in [Polls -> {None} \cup [comp : Configs, live : Snapshots]]
    /\ {desired, current, sleep} \subseteq Signatures \cup {None}
    /\ pending \in {"no", "fresh", "long"}
    /\ settle \in {None} \cup Timers
    /\ restart \in BOOLEAN
    /\ proc \in Procs \cup {None}
    /\ encoders \in [Procs -> {"free", "run", "told"}]
    /\ cache \in [Streams -> [since : 0 .. MaxSession, checking : BOOLEAN, saw : 0 .. MaxSession]]
    /\ probes \subseteq [key : Streams, since : 1 .. MaxSession, from : 0 .. MaxSession]
    /\ edits \in 0 .. MaxEdits

\* No encoder is orphaned: every one that was not told to stop is the tracked
\* one.  compositor.js: "two processes publishing to the same path, one of them
\* no longer tracked or killable" is what apply()'s guard is there against.
NoOrphanEncoder ==
    \A p \in Procs : encoders[p] = "run" <=> proc = p

\* Whoever shuts the server down leaves no encoder of the programme behind:
\* apply() does not start one after its sleep.
StopIsFinal == stopping => proc = None

\* While settling is slower than apply()'s sleep nothing is forgotten: what is
\* desired and was not applied has a timer or a sleeping apply(), and a crashed
\* encoder has its restart.  A poll acts only when the signature changes, so
\* what nobody is responsible for would stay undone.
NothingForgotten ==
    ~quick /\ ~stopping /\ desired # None =>
        \/ settle # None /\ settle.sig = desired
        \/ sleep = desired
        \/ /\ current = desired
           /\ Encodes(current) => proc # None \/ restart
        \/ restart

\* A late ffprobe never changes which session a verdict is filed under, and
\* never brings back a source that was forgotten (playability.js: a republish
\* "re-probes rather than reporting a stale verdict").
LateProbesAreDropped ==
    [][polls' = polls => \A s \in Streams : cache'[s].since = cache[s].since]_<<programmeVars, ingestVars>>

\* compositor.js: "The set changed - wait for it to settle before acting."  A
\* change of a set that was at rest arms a timer that waits, whatever happened
\* long before.
SettlesBeforeActing ==
    [][settle = None /\ desired = current /\ settle' # None => ~settle'.now]_<<programmeVars, ingestVars>>

\* What was applied is what the configuration and the live sources call for, and
\* an encoder is tracked exactly when that calls for one.
Followed ==
    LET g == signatureOf(comp, live)
    IN current = g /\ (proc # None <=> Encodes(g))
=============================================================================
