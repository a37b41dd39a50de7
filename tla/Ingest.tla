------------------------------- MODULE Ingest -------------------------------
(***************************************************************************)
(* What the three supervisors of the version 1 server (compositor.js,      *)
(* relays.js, audioRelay.js) share: the list of publishing sources that    *)
(* mediamtx.js reads from MediaMTX, and the shutdown of the process.       *)
(*                                                                         *)
(* A source is the number of its publishing session, 0 while nobody        *)
(* publishes; the number stands for the readyTime MediaMTX reports.        *)
(***************************************************************************)
EXTENDS Naturals, FiniteSets

CONSTANTS Streams,      \* the ingest streams of the configuration
          MaxSession,   \* bound: publishing sessions per stream
          MaxFaults,    \* bound: failures of processes and of MediaMTX
          None          \* the absence of a value

ASSUME NoneAssumption == None \notin Nat \cup Streams
ASSUME SessionsAssumption == MaxSession \in Nat /\ MaxFaults \in Nat

VARIABLES live,         \* live[s]: the session publishing s, 0 for none
          sessions,     \* sessions[s]: how many sessions s has had
          faults,       \* failures so far, for the bound only
          stopping      \* every module's `stopping`: set together by shutdown

ingestVars == <<live, sessions, faults, stopping>>

IngestInit ==
    /\ live = [s \in Streams |-> 0]
    /\ sessions = [s \in Streams |-> 0]
    /\ faults = 0
    /\ stopping = FALSE

Snapshots == [Streams -> 0 .. MaxSession]

\* The keys of the ready paths in one answer of listIngest.
Ready(snap) == {s \in Streams : snap[s] > 0}

\* An encoder connects, or connects again: a new session.
Publish(s) ==
    /\ live[s] = 0
    /\ sessions[s] < MaxSession
    /\ sessions' = [sessions EXCEPT ![s] = @ + 1]
    /\ live' = [live EXCEPT ![s] = sessions[s] + 1]
    /\ UNCHANGED <<faults, stopping>>

Unpublish(s) ==
    /\ live[s] > 0
    /\ live' = [live EXCEPT ![s] = 0]
    /\ UNCHANGED <<sessions, faults, stopping>>

\* One more failure, while the bound allows one.
Fault ==
    /\ faults < MaxFaults
    /\ faults' = faults + 1
    /\ UNCHANGED <<live, sessions, stopping>>

IngestTypeOK ==
    /\ live \in Snapshots
    /\ sessions \in Snapshots
    /\ \A s \in Streams : live[s] \in {0, sessions[s]}
    /\ faults \in 0 .. MaxFaults
    /\ stopping \in BOOLEAN
=============================================================================
