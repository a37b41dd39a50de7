------------------------------ MODULE Restream ------------------------------
(***************************************************************************)
(* relays.js, the restreaming of the version 1 server: one supervised      *)
(* ffmpeg per switched-on destination whose source is publishing.          *)
(*                                                                         *)
(* tick() is cut at its call of MediaMTX.  What it holds over the await is *)
(* the list of destinations that were switched on; the destinations are    *)
(* the store's own objects, so what an edit changes is seen afterwards,    *)
(* while one that is deleted is still on the list.                         *)
(***************************************************************************)
EXTENDS Ingest

CONSTANTS Relays,        \* destinations
          SourceOf,      \* SourceOf[r]: the stream a destination forwards
          Feeds,         \* ffmpeg processes that may exist at once (a bound)
          Ticks,         \* ticks that may wait for MediaMTX at once (a bound)
          MaxChanges     \* bound: operator actions

ASSUME SourceOfAssumption == SourceOf \in [Relays -> Streams]
ASSUME FeedsAssumption == None \notin Relays \cup Feeds /\ MaxChanges \in Nat

VARIABLES relay,         \* relay[r]: "new" (not made yet), "off", "on" or "deleted"
          offered,       \* the streams that exist and are enabled
          running,       \* `running`: the process of each destination
          feed,          \* feed[p]: whose process p is and whether it was signalled
          status,        \* health.status
          backingOff,    \* health.retryAt is in the future
          ticks,         \* ticks[k]: the destinations listed, and MediaMTX's answer
          changes        \* operator actions so far, for the bound only

restreamVars == <<relay, offered, running, feed, status, backingOff, ticks, changes>>

NoFeed == [of |-> None, told |-> FALSE]

Kept == {r \in Relays : relay[r] \in {"off", "on"}}
Wanted == {r \in Relays : relay[r] = "on"}

RestreamInit ==
    /\ relay \in [Relays -> {"new", "off", "on"}]
    /\ offered = Streams
    /\ running = [r \in Relays |-> None]
    /\ feed = [p \in Feeds |-> NoFeed]
    /\ status = [r \in Relays |-> "off"]
    /\ backingOff = {}
    /\ ticks = [k \in Ticks |-> None]
    /\ changes = 0

-----------------------------------------------------------------------------
(* Processes.                                                              *)

\* stopOne for every destination of R that has a process: SIGTERM, and SIGKILL
\* three seconds later.  With none there is nothing to do.
stopAll(R) ==
    /\ running' = [r \in Relays |-> IF r \in R THEN None ELSE running[r]]
    /\ feed' = [p \in Feeds |-> IF \E r \in R : running[r] = p
                                  THEN [feed[p] EXCEPT !.told = TRUE] ELSE feed[p]]

\* ffmpeg reports bytes on its way out.  Its handler holds the destination's
\* health, not the process: any process of a destination marks it live.
Carries(p) ==
    /\ feed[p].of # None
    /\ status' = [status EXCEPT ![feed[p].of] = "live"]
    /\ backingOff' = IF status[feed[p].of] = "live" THEN backingOff
                     ELSE backingOff \ {feed[p].of}
    /\ UNCHANGED <<relay, offered, running, feed, ticks, changes, ingestVars>>

scheduleRetry_KeepsStatus(r) ==
    /\ UNCHANGED status
    /\ backingOff' = backingOff \cup {r}

scheduleRetry(r) ==
    /\ status' = [status EXCEPT ![r] = "retrying"]
    /\ backingOff' = backingOff \cup {r}

\* The "exit" handler.  An ffmpeg that was signalled ends by the signal, or
\* catches it and ends with a code of its own, as a failing one does.
FeedExits(p, bySignal) ==
    /\ feed[p].of # None
    /\ IF feed[p].told THEN UNCHANGED ingestVars ELSE ~bySignal /\ Fault
    /\ feed' = [feed EXCEPT ![p] = NoFeed]
    /\ LET r == feed[p].of
       IN IF running[r] \notin {None, p}
            THEN UNCHANGED <<running, status, backingOff>>
            ELSE /\ running' = [running EXCEPT ![r] = None]
                 /\ IF stopping \/ bySignal
                      THEN status' = [status EXCEPT ![r] = "off"] /\ UNCHANGED backingOff
                      ELSE scheduleRetry(r)
    /\ UNCHANGED <<relay, offered, ticks, changes>>

\* retryAt passes.
BackoffElapses(r) ==
    /\ r \in backingOff
    /\ backingOff' = backingOff \ {r}
    /\ UNCHANGED <<relay, offered, running, feed, status, ticks, changes, ingestVars>>

-----------------------------------------------------------------------------
(* The loop.                                                               *)

\* tick() up to its await, of the interval or of a nudge: what should not run
\* is stopped; with nothing wanted the tick is over.
Tick(k) ==
    /\ ~stopping
    /\ ticks[k] = None
    /\ stopAll(Relays \ Wanted)
    /\ status' = [r \in Relays |-> IF r \in Wanted THEN status[r] ELSE "off"]
    /\ ticks' = IF Wanted = {} THEN ticks
                ELSE [ticks EXCEPT ![k] = [wanted |-> Wanted, live |-> live]]
    /\ UNCHANGED <<relay, offered, backingOff, changes, ingestVars>>

\* listIngest fails.
TickFails(k) ==
    /\ ticks[k] # None
    /\ Fault
    /\ ticks' = [ticks EXCEPT ![k] = None]
    /\ UNCHANGED <<relay, offered, running, feed, status, backingOff, changes>>

\* tick() from its await on: destinations without a source are stopped, those
\* without a process are started unless they back off.  A start takes a free
\* process, or fails to launch one.
Unavailable(k) == {r \in ticks[k].wanted : SourceOf[r] \notin offered}
Silent(k) ==
    {r \in ticks[k].wanted \ Unavailable(k) : SourceOf[r] \notin Ready(ticks[k].live)}
Due_EvenRunning(k) ==
    {r \in ticks[k].wanted \ (Unavailable(k) \cup Silent(k)) : r \notin backingOff}

Due(k) ==
    {r \in ticks[k].wanted \ (Unavailable(k) \cup Silent(k)) :
        running[r] = None /\ r \notin backingOff}
FreeFeeds == {p \in Feeds : feed[p].of = None}

TickAnswered(k) ==
    /\ ticks[k] # None
    /\ \E started \in SUBSET Due(k) :
       \E with \in [started -> FreeFeeds] :
          LET failed == Due(k) \ started
              halted == Unavailable(k) \cup Silent(k)
          IN /\ \A r, q \in started : with[r] = with[q] => r = q
             /\ IF failed = {} THEN UNCHANGED ingestVars ELSE Fault
             /\ running' = [r \in Relays |->
                              IF r \in halted THEN None
                              ELSE IF r \in started THEN with[r] ELSE running[r]]
             /\ feed' = [p \in Feeds |->
                           IF \E r \in started : with[r] = p
                             THEN [of |-> CHOOSE r \in started : with[r] = p, told |-> FALSE]
                           ELSE IF \E r \in halted : running[r] = p
                             THEN [feed[p] EXCEPT !.told = TRUE]
                           ELSE feed[p]]
             /\ status' = [r \in Relays |->
                             CASE r \in Unavailable(k) -> "off"
                               [] r \in Silent(k)      -> "waiting"
                               [] r \in started        -> "connecting"
                               [] r \in failed         -> "retrying"
                               [] OTHER                -> status[r]]
             /\ backingOff' = (backingOff \ Silent(k)) \cup failed
    /\ ticks' = [ticks EXCEPT ![k] = None]
    /\ UNCHANGED <<relay, offered, changes>>

-----------------------------------------------------------------------------
(* The operator.  A change may end in a nudge: a tick of its own, which may  *)
(* come any time after.                                                    *)

Change ==
    /\ ~stopping
    /\ changes < MaxChanges
    /\ changes' = changes + 1
    /\ UNCHANGED <<ticks, ingestVars>>

Switch(on) == IF on THEN "on" ELSE "off"

\* An identifier is never given again.
create(r, on) ==
    /\ Change
    /\ relay[r] = "new"
    /\ relay' = [relay EXCEPT ![r] = Switch(on)]
    /\ UNCHANGED <<offered, running, feed, status, backingOff>>

\* update() with a new address, key or audio mode, or with the switch: the
\* process is stopped and the backoff forgotten.
update(r, on) ==
    /\ Change
    /\ r \in Kept
    /\ relay' = [relay EXCEPT ![r] = Switch(on)]
    /\ stopAll({r})
    /\ status' = IF running[r] = None THEN status ELSE [status EXCEPT ![r] = "off"]
    /\ backingOff' = backingOff \ {r}
    /\ UNCHANGED offered

\* remove(): a tick that has the object on its list goes on using it.
remove(r) ==
    /\ Change
    /\ r \in Kept
    /\ relay' = [relay EXCEPT ![r] = "deleted"]
    /\ stopAll({r})
    /\ status' = [status EXCEPT ![r] = "off"]
    /\ backingOff' = backingOff \ {r}
    /\ UNCHANGED offered

\* The source stream is disabled or deleted, or enabled again.
OfferStream(s) ==
    /\ Change
    /\ offered' = IF s \in offered THEN offered \ {s} ELSE offered \cup {s}
    /\ UNCHANGED <<relay, running, feed, status, backingOff>>

\* stop(), one part of shutdown.
StopRestream ==
    /\ stopAll(Relays)
    /\ status' = [r \in Relays |-> IF running[r] # None THEN "off" ELSE status[r]]
    /\ UNCHANGED <<relay, offered, backingOff, ticks, changes>>

RestreamNext ==
    \/ \E p \in Feeds : Carries(p) \/ FeedExits(p, TRUE) \/ FeedExits(p, FALSE)
    \/ \E r \in Relays : BackoffElapses(r) \/ remove(r)
    \/ \E r \in Relays, on \in BOOLEAN : create(r, on) \/ update(r, on)
    \/ \E k \in Ticks : Tick(k) \/ TickFails(k) \/ TickAnswered(k)
    \/ \E s \in Streams : OfferStream(s)

-----------------------------------------------------------------------------
(* Properties.                                                             *)

RestreamTypeOK ==
    /\ relay \in [Relays -> {"new", "off", "on", "deleted"}]
    /\ offered \subseteq Streams
    /\ running \in [Relays -> Feeds \cup {None}]
    /\ feed \in [Feeds -> [of : Relays \cup {None}, told : BOOLEAN]]
    /\ status \in [Relays -> {"off", "connecting", "live", "retrying", "waiting"}]
    /\ backingOff \subseteq Relays
    /\ ticks \in [Ticks -> {None} \cup [wanted : SUBSET Relays, live : Snapshots]]
    /\ changes \in 0 .. MaxChanges

\* Every ffmpeg that was not told to stop is the one `running` holds for its
\* destination, so a platform is never fed twice at once with one key, however
\* ticks overlap, and none escapes stopOne.
OneFeedPerDestination ==
    \A p \in Feeds, r \in Relays :
        running[r] = p <=> feed[p].of = r /\ ~feed[p].told

\* A destination none of whose processes is left, signalled or not, is not
\* reported as live or connecting, whatever late output and late exits did to
\* its health before (routes/admin.js shows this as the number "carrying").
NothingLiveWithoutProcess ==
    \A r \in Relays :
        (\A p \in Feeds : feed[p].of # r) => status[r] \notin {"live", "connecting"}

\* Exactly the destinations that are switched on and whose source is publishing
\* have a process.  A tick that was waiting for MediaMTX may start one that was
\* switched off or deleted meanwhile: it must not stay.
Forwarded ==
    \A r \in Relays :
        running[r] # None <=>
            r \in Wanted /\ SourceOf[r] \in offered /\ live[SourceOf[r]] > 0
=============================================================================
