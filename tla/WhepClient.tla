----------------------------- MODULE WhepClient -----------------------------
(***************************************************************************)
(* One WHEP client of a viewer's page (react-app/src/lib/whep.ts; version  *)
(* 1's assets/whep.js is the same program), the media proxy it talks       *)
(* through, and the sessions MediaMTX keeps for it.                        *)
(*                                                                         *)
(* connect() is cut at its awaits; `step` is where it waits.  stop() may   *)
(* come at any of them.  The pages never start a client twice.             *)
(***************************************************************************)
EXTENDS Naturals

CONSTANTS Sessions,      \* WHEP sessions that may exist at once (a bound)
          MaxTroubles,   \* bound: failures, and times the stream comes or goes
          NoSession      \* the absence of a session

ASSUME NoSessionAssumption == NoSession \notin Sessions
ASSUME TroublesAssumption == MaxTroubles \in Nat

VARIABLES
    client,     \* the client object
    step,       \* where connect() waits: "none", "ice", "offer", "post", "text", "remote"
    halted,     \* stop() was called
    session,    \* session[s]: "free", "open", or "deleting" when its DELETE is on the way
    slipped,    \* sessions MediaMTX opened for a client that had been stopped
    lost,       \* sessions whose DELETE did not get through
    path,       \* "unknown" (no such stream, disabled, or not for this viewer), "off" or "on" air
    troubles    \* counted for the bound only

whepVars == <<client, step, halted, session, slipped, lost, path, troubles>>

States == {"idle", "connecting", "playing", "reconnecting", "offline", "error"}
Peers == {"none", "new", "up", "down"}

WhepInit ==
    /\ client = [stopped |-> TRUE, decodes |-> TRUE, timer |-> FALSE, peer |-> "none",
                 url |-> NoSession, state |-> "idle"]
    /\ step = "none"
    /\ halted = FALSE
    /\ session = [s \in Sessions |-> "free"]
    /\ slipped = {} /\ lost = {}
    /\ path \in {"unknown", "off", "on"}
    /\ troubles = 0

Trouble == troubles < MaxTroubles /\ troubles' = troubles + 1

-----------------------------------------------------------------------------
(* The parts connect() and stop() share.                                   *)

\* teardownPeer: DELETE the session, without waiting, and close the peer.
Deleted == [session EXCEPT ![client.url] = "deleting"]
teardownPeer_OnlyCloses == UNCHANGED session

teardownPeer == session' = IF client.url = NoSession THEN session ELSE Deleted
TornDown == [client EXCEPT !.url = NoSession, !.peer = "none"]

scheduleReconnect_InNameOnly(c) ==
    IF c.stopped \/ c.timer THEN c ELSE [c EXCEPT !.state = "reconnecting"]

\* scheduleReconnect: one timer, and none for a client that was stopped.
scheduleReconnect(c) ==
    IF c.stopped \/ c.timer THEN c ELSE [c EXCEPT !.timer = TRUE, !.state = "reconnecting"]

\* connect() up to its first await.
Connect(c) ==
    /\ teardownPeer
    /\ IF c.decodes
         THEN client' = [c EXCEPT !.state = "connecting"] /\ step' = "ice"
         ELSE client' = [c EXCEPT !.state = "error", !.stopped = TRUE] /\ step' = "none"

\* The catch clause of connect().
Caught ==
    /\ step' = "none"
    /\ client' = IF client.stopped THEN client
                 ELSE scheduleReconnect([client EXCEPT !.state = "error"])

-----------------------------------------------------------------------------
(* The client.                                                             *)

\* The page makes the client and starts it, in a browser that decodes H.264 or not.
start(decodes) ==
    /\ client.state = "idle" /\ ~halted /\ step = "none" /\ client.stopped
    /\ Connect([TornDown EXCEPT !.stopped = FALSE, !.decodes = decodes])
    /\ UNCHANGED <<halted, slipped, lost, path, troubles>>

stop ==
    /\ ~halted
    /\ halted' = TRUE
    /\ teardownPeer
    /\ client' = [TornDown EXCEPT !.stopped = TRUE, !.timer = FALSE, !.state = "idle"]
    /\ UNCHANGED <<step, slipped, lost, path, troubles>>

\* The retry timer fires.
Retry ==
    /\ client.timer
    /\ Connect([TornDown EXCEPT !.timer = FALSE])
    /\ UNCHANGED <<halted, slipped, lost, path, troubles>>

\* The answer to OPTIONS, or its failure, which counts as no ICE servers.
IceServers ==
    /\ step = "ice"
    /\ IF client.stopped
         THEN step' = "none" /\ UNCHANGED client
         ELSE step' = "offer" /\ client' = [client EXCEPT !.peer = "new"]
    /\ UNCHANGED <<halted, session, slipped, lost, path, troubles>>

\* createOffer, setLocalDescription, waitForIce.
OfferReady ==
    /\ step = "offer"
    /\ step' = IF client.stopped THEN "none" ELSE "post"
    /\ UNCHANGED <<client, halted, session, slipped, lost, path, troubles>>

\* Creating the offer, or the POST, fails; or the proxy cannot reach MediaMTX.
RequestFails ==
    /\ step \in {"offer", "post"}
    /\ Trouble
    /\ Caught
    /\ UNCHANGED <<halted, session, slipped, lost, path>>

\* The proxy resolves what is there for this viewer; MediaMTX refuses a path
\* nobody publishes to with the same status.
Missing == path # "on"

Answer404 ==
    /\ step = "post"
    /\ Missing
    /\ step' = "none"
    /\ client' = scheduleReconnect([client EXCEPT !.state = "offline"])
    /\ UNCHANGED <<halted, session, slipped, lost, path, troubles>>

\* A proxy in front asks the viewer to sign in again.
Answer401 ==
    /\ step = "post"
    /\ Trouble
    /\ step' = "none"
    /\ client' = [client EXCEPT !.state = "error", !.stopped = TRUE]
    /\ UNCHANGED <<halted, session, slipped, lost, path>>

\* 201: MediaMTX has opened a session and its URL is kept, whether or not the
\* client was stopped meanwhile.
Answer201(s) ==
    /\ step = "post"
    /\ path = "on"
    /\ session[s] = "free"
    /\ session' = [session EXCEPT ![s] = "open"]
    /\ client' = [client EXCEPT !.url = s]
    /\ slipped' = IF client.stopped THEN slipped \cup {s} ELSE slipped
    /\ step' = "text"
    /\ UNCHANGED <<halted, lost, path, troubles>>

\* The body of the answer, which is then given to the peer.
BodyArrives ==
    /\ step = "text"
    /\ step' = IF client.stopped THEN "none" ELSE "remote"
    /\ UNCHANGED <<client, halted, session, slipped, lost, path, troubles>>

RemoteSet ==
    /\ step = "remote"
    /\ step' = "none"
    /\ UNCHANGED <<client, halted, session, slipped, lost, path, troubles>>

AnswerFails ==
    /\ step \in {"text", "remote"}
    /\ Trouble
    /\ Caught
    /\ UNCHANGED <<halted, session, slipped, lost, path>>

-----------------------------------------------------------------------------
(* connectionstatechange, of a peer that is still this.pc.                 *)

Attached == client.url # NoSession /\ session[client.url] = "open" /\ step = "none"

PeerConnects ==
    /\ client.peer \in {"new", "down"}
    /\ Attached /\ path = "on"
    /\ client' = [client EXCEPT !.peer = "up", !.state = "playing"]
    /\ UNCHANGED <<step, halted, session, slipped, lost, path, troubles>>

\* The connection fails, by itself or because MediaMTX closed the session.
PeerDrops ==
    /\ client.peer \in {"new", "up"} /\ step = "none" /\ client.url # NoSession
    /\ IF Attached /\ path = "on" THEN Trouble ELSE UNCHANGED troubles
    /\ client' = scheduleReconnect([client EXCEPT !.peer = "down"])
    /\ UNCHANGED <<step, halted, session, slipped, lost, path>>

-----------------------------------------------------------------------------
(* MediaMTX.                                                               *)

DeleteArrives(s) ==
    /\ session[s] = "deleting"
    /\ session' = [session EXCEPT ![s] = "free"]
    /\ slipped' = slipped \ {s}
    /\ UNCHANGED <<client, step, halted, lost, path, troubles>>

DeleteLost(s) ==
    /\ session[s] = "deleting"
    /\ Trouble
    /\ session' = [session EXCEPT ![s] = "open"]
    /\ lost' = lost \cup {s}
    /\ UNCHANGED <<client, step, halted, slipped, path>>

\* MediaMTX closes a session whose peer is gone, and every one of a stream that
\* stops.
Reaped(s) ==
    /\ session[s] = "open"
    /\ path # "on" \/ client.url # s \/ client.peer = "none"
    /\ session' = [session EXCEPT ![s] = "free"]
    /\ slipped' = slipped \ {s} /\ lost' = lost \ {s}
    /\ UNCHANGED <<client, step, halted, path, troubles>>

\* The stream starts, stops, or is disabled or withdrawn from this viewer.
PathChanges(p) ==
    /\ p # path
    /\ Trouble
    /\ path' = p
    /\ UNCHANGED <<client, step, halted, session, slipped, lost>>

WhepNext ==
    \/ \E decodes \in BOOLEAN : start(decodes)
    \/ stop \/ Retry
    \/ IceServers \/ OfferReady \/ RequestFails
    \/ Answer404 \/ Answer401
    \/ BodyArrives \/ RemoteSet \/ AnswerFails
    \/ PeerConnects \/ PeerDrops
    \/ \E s \in Sessions : Answer201(s) \/ DeleteArrives(s) \/ DeleteLost(s) \/ Reaped(s)
    \/ \E p \in {"unknown", "off", "on"} : PathChanges(p)

\* What goes on by itself: answers arrive and timers fire.
WhepProgress ==
    \/ Retry \/ IceServers \/ OfferReady \/ Answer404 \/ BodyArrives \/ RemoteSet
    \/ PeerConnects \/ PeerDrops
    \/ \E s \in Sessions : Answer201(s)

WhepSpec == WhepInit /\ [][WhepNext]_whepVars

-----------------------------------------------------------------------------
WhepTypeOK ==
    /\ client \in [stopped : BOOLEAN, decodes : BOOLEAN, timer : BOOLEAN, peer : Peers,
                   url : Sessions \cup {NoSession}, state : States]
    /\ step \in {"none", "ice", "offer", "post", "text", "remote"}
    /\ halted \in BOOLEAN
    /\ session \in [Sessions -> {"free", "open", "deleting"}]
    /\ slipped \subseteq Sessions /\ lost \subseteq Sessions
    /\ path \in {"unknown", "off", "on"}
    /\ troubles \in 0 .. MaxTroubles

\* "Best-effort session teardown so MediaMTX releases the reader promptly"
\* (whep.ts): every session MediaMTX holds is the client's own, or one whose
\* POST was still in progress when the client was stopped, or one whose DELETE
\* was lost; and a client that was stopped holds no connection and no timer,
\* whichever await stop() interrupted.
NoForgottenSession ==
    /\ \A s \in Sessions : session[s] = "open" => s = client.url \/ s \in slipped \cup lost
    /\ halted => client.peer = "none" /\ ~client.timer

\* A client that nobody stopped, and that was not told to sign in again, plays
\* once the stream is on air and failures end.
Plays ==
    \/ client.stopped
    \/ path # "on"
    \/ client.state = "playing" /\ client.peer = "up"
=============================================================================
