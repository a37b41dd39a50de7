----------------------------- MODULE NodeMedia -----------------------------
(***************************************************************************)
(* The media side of the version 1 server as one process: compositor.js,   *)
(* relays.js and audioRelay.js over one MediaMTX, started and shut down    *)
(* together by index.js.                                                   *)
(*                                                                         *)
(* The three supervisors share nothing but what Ingest declares.  To check *)
(* them in one run without the product of their states, `site` picks       *)
(* which of them this installation uses: the others poll and find nothing  *)
(* to do, which is left out.  Where the browser composes compositor.js     *)
(* starts no encoder and probes every source: the fourth kind of site.     *)
(***************************************************************************)
EXTENDS Programme, Restream, AudioMonitor

CONSTANT ComposedSessions  \* bound: sessions per stream where one composes

VARIABLE site            \* what is in use: one of Sites

Sites == {"composes", "web", "restreams", "monitors"}

mediaVars == <<ingestVars, programmeVars, restreamVars, audioVars, site>>

MediaInit ==
    /\ IngestInit
    /\ ProgrammeInit
    /\ RestreamInit
    /\ AudioInit
    /\ site \in Sites
    \* what a supervisor that is not used was configured with does not matter
    /\ comp.mode = "server" <=> site = "composes"
    /\ quick => site = "composes"
    /\ site # "restreams" => \A r \in Relays : relay[r] = "new"

\* Encoders connect and go.
Encoders ==
    /\ \E s \in Streams :
          \/ Publish(s) /\ (site = "composes" => sessions[s] < ComposedSessions)
          \/ Unpublish(s)
    /\ UNCHANGED <<programmeVars, restreamVars, audioVars, site>>

\* shutdown() in index.js: the loops are stopped one after the other without an
\* await in between.
Shutdown ==
    /\ ~stopping
    /\ stopping' = TRUE
    /\ StopProgramme
    /\ StopRestream
    /\ StopAudio
    /\ UNCHANGED <<live, sessions, faults, site>>

Composes ==
    /\ site \in {"composes", "web"} /\ ProgrammeNext
    /\ site = "web" => edits' = edits
    /\ UNCHANGED <<restreamVars, audioVars, site>>
Restreams == site = "restreams" /\ RestreamNext /\ UNCHANGED <<programmeVars, audioVars, site>>
Monitors == site = "monitors" /\ AudioNext /\ UNCHANGED <<programmeVars, restreamVars, site>>

MediaNext == Encoders \/ Shutdown \/ Composes \/ Restreams \/ Monitors

(***************************************************************************)
(* Fairness: the event loop runs the timers and the answers that are due,  *)
(* and a process that was signalled ends, by SIGKILL if need be.  Nothing  *)
(* is assumed of encoders, operators or of a process that runs.  As `site` *)
(* never changes, one condition can speak of all three supervisors.        *)
(***************************************************************************)
Only(step, others) == step /\ UNCHANGED others
OnlyProgramme(step) == site \in {"composes", "web"} /\ Only(step, <<restreamVars, audioVars, site>>)
OnlyRestream(step) == site = "restreams" /\ Only(step, <<programmeVars, audioVars, site>>)
OnlyAudio(step) == site = "monitors" /\ Only(step, <<programmeVars, restreamVars, site>>)

IntervalFires ==
    \/ OnlyProgramme(\E k \in Polls : PollTimer(k))
    \/ OnlyRestream(\E k \in Ticks : Tick(k))
    \/ OnlyAudio(\E k \in AudioTicks : AudioTick(k))
AnswerArrives ==
    \/ OnlyProgramme(\E k \in Polls : PollAnswered(k))
    \/ OnlyRestream(\E k \in Ticks : TickAnswered(k))
    \/ OnlyAudio(\E k \in AudioTicks : AudioTickAnswered(k))
SignalledEnds ==
    \/ OnlyProgramme(\E p \in Procs : encoders[p] = "told" /\ EncoderExits(p))
    \/ OnlyRestream(\E p \in Feeds, b \in BOOLEAN : feed[p].told /\ FeedExits(p, b))
    \/ OnlyAudio(\E p \in Codecs, b \in BOOLEAN : codec[p].told /\ TranscodeExits(p, b))
RetryDue ==
    \/ OnlyProgramme(\E k \in Polls : RestartTimer(k))
    \/ OnlyRestream(\E r \in Relays : BackoffElapses(r))
    \/ OnlyAudio(\E s \in Streams : AudioRetryDue(s))

\* The restart timer is strongly fair because it may find every one of Polls
\* taken, which the code does not limit.
MediaSpec ==
    /\ MediaInit /\ [][MediaNext]_mediaVars
    /\ WF_mediaVars(IntervalFires)
    /\ WF_mediaVars(AnswerArrives)
    /\ WF_mediaVars(SignalledEnds)
    /\ SF_mediaVars(RetryDue)
    /\ WF_mediaVars(OnlyProgramme(SettleTimer))
    /\ WF_mediaVars(OnlyProgramme(WakeUp \/ \E p \in Procs : Start(p)))

-----------------------------------------------------------------------------
MediaTypeOK == IngestTypeOK /\ ProgrammeTypeOK /\ RestreamTypeOK /\ AudioTypeOK

\* Once operators, sources and failures are done, what runs is what is wanted:
\* the encoder has the configured set of sources (when settling is slower than
\* apply()'s sleep), "when OBS reconnects the relay comes back on its own"
\* (relays.js), and one transcode "runs per live source with audio"
\* (audioRelay.js).
Settled ==
    CASE site \in {"composes", "web"} -> quick \/ Followed
      [] site = "restreams" -> Forwarded
      [] site = "monitors"  -> Transcoded
EverythingFollows == <>[](stopping \/ Settled)
=============================================================================
