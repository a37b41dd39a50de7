---------------------------- MODULE AudioMonitor ----------------------------
(***************************************************************************)
(* audioRelay.js: one ffmpeg per publishing source with audio transcodes   *)
(* that source to Opus, listened to or not.  Every source here has audio:  *)
(* one without is to this module as one that does not publish.             *)
(*                                                                         *)
(* Unlike relays.js, tick() has nothing to do before its await, and the    *)
(* health of a source that is gone is thrown away, its backoff with it.    *)
(***************************************************************************)
EXTENDS Ingest

CONSTANTS Codecs,        \* ffmpeg processes that may exist at once (a bound)
          AudioTicks     \* ticks that may wait for MediaMTX at once (a bound)

ASSUME CodecsAssumption == None \notin Codecs

VARIABLES transcoder,    \* `running`: the process of each source
          codec,         \* codec[p]: whose process p is and whether it was signalled
          resting,       \* sources whose retryAt is in the future
          audioTicks     \* audioTicks[k]: MediaMTX's answer

audioVars == <<transcoder, codec, resting, audioTicks>>

NoCodec == [of |-> None, told |-> FALSE]

AudioInit ==
    /\ transcoder = [s \in Streams |-> None]
    /\ codec = [p \in Codecs |-> NoCodec]
    /\ resting = {}
    /\ audioTicks = [k \in AudioTicks |-> None]

\* stopOne for every source of S.
haltAll(S) ==
    /\ transcoder' = [s \in Streams |-> IF s \in S THEN None ELSE transcoder[s]]
    /\ codec' = [p \in Codecs |-> IF \E s \in S : transcoder[s] = p
                                    THEN [codec[p] EXCEPT !.told = TRUE] ELSE codec[p]]

\* A source whose ffmpeg makes progress has its backoff forgotten.
Transcodes(p) ==
    /\ codec[p].of \in resting
    /\ resting' = resting \ {codec[p].of}
    /\ UNCHANGED <<transcoder, codec, audioTicks, ingestVars>>

\* The "exit" handler; see Restream for the two ways a signalled ffmpeg ends.
TranscodeExits(p, bySignal) ==
    /\ codec[p].of # None
    /\ IF codec[p].told THEN UNCHANGED ingestVars ELSE ~bySignal /\ Fault
    /\ codec' = [codec EXCEPT ![p] = NoCodec]
    /\ LET s == codec[p].of
       IN IF transcoder[s] \notin {None, p}
            THEN UNCHANGED <<transcoder, resting>>
            ELSE /\ transcoder' = [transcoder EXCEPT ![s] = None]
                 /\ resting' = IF stopping \/ bySignal THEN resting ELSE resting \cup {s}
    /\ UNCHANGED audioTicks

AudioRetryDue(s) ==
    /\ s \in resting
    /\ resting' = resting \ {s}
    /\ UNCHANGED <<transcoder, codec, audioTicks, ingestVars>>

\* tick() up to its await, and a failing listIngest.
AudioTick(k) ==
    /\ ~stopping
    /\ audioTicks[k] = None
    /\ audioTicks' = [audioTicks EXCEPT ![k] = live]
    /\ UNCHANGED <<transcoder, codec, resting, ingestVars>>

AudioTickFails(k) ==
    /\ audioTicks[k] # None
    /\ Fault
    /\ audioTicks' = [audioTicks EXCEPT ![k] = None]
    /\ UNCHANGED <<transcoder, codec, resting>>

ToStart_EvenRunning(k) == {s \in Ready(audioTicks[k]) : s \notin resting}

\* tick() from its await on: stop what is gone, forget its health, start what
\* is there and neither runs nor backs off.
ToStart(k) == {s \in Ready(audioTicks[k]) : transcoder[s] = None /\ s \notin resting}

AudioTickAnswered(k) ==
    /\ audioTicks[k] # None
    /\ \E with \in [ToStart(k) -> {p \in Codecs : codec[p].of = None} \cup {None}] :
          LET gone   == Streams \ Ready(audioTicks[k])
              failed == {s \in ToStart(k) : with[s] = None}
          IN /\ \A s, t \in ToStart(k) : with[s] = with[t] => s = t \/ with[s] = None
             /\ IF failed = {} THEN UNCHANGED ingestVars ELSE Fault
             /\ transcoder' = [s \in Streams |->
                                 IF s \in gone THEN None
                                 ELSE IF s \in ToStart(k) THEN with[s] ELSE transcoder[s]]
             /\ codec' = [p \in Codecs |->
                            IF \E s \in ToStart(k) : with[s] = p
                              THEN [of |-> CHOOSE s \in ToStart(k) : with[s] = p, told |-> FALSE]
                            ELSE IF \E s \in gone : transcoder[s] = p
                              THEN [codec[p] EXCEPT !.told = TRUE]
                            ELSE codec[p]]
             /\ resting' = (resting \ gone) \cup failed
    /\ audioTicks' = [audioTicks EXCEPT ![k] = None]

\* stop(), one part of shutdown.
StopAudio == haltAll(Streams) /\ UNCHANGED <<resting, audioTicks>>

AudioNext ==
    \/ \E p \in Codecs : Transcodes(p) \/ TranscodeExits(p, TRUE) \/ TranscodeExits(p, FALSE)
    \/ \E s \in Streams : AudioRetryDue(s)
    \/ \E k \in AudioTicks : AudioTick(k) \/ AudioTickFails(k) \/ AudioTickAnswered(k)

-----------------------------------------------------------------------------
AudioTypeOK ==
    /\ transcoder \in [Streams -> Codecs \cup {None}]
    /\ codec \in [Codecs -> [of : Streams \cup {None}, told : BOOLEAN]]
    /\ resting \subseteq Streams
    /\ audioTicks \in [AudioTicks -> Snapshots \cup {None}]

\* One transcode per source, and every ffmpeg that was not signalled is the one
\* `running` holds: two would publish to one path of MediaMTX.
OneTranscodePerSource ==
    \A p \in Codecs, s \in Streams :
        transcoder[s] = p <=> codec[p].of = s /\ ~codec[p].told

\* Exactly the sources that publish have a transcode.
Transcoded == \A s \in Streams : transcoder[s] # None <=> live[s] > 0
=============================================================================
