-------------------------------- MODULE Viewer --------------------------------
(***************************************************************************)
(* The version 1 viewer page (server/public/assets/app.js): one programme  *)
(* composed by the server, or a grid of tiles composed here, and one       *)
(* audible source.                                                         *)
(*                                                                         *)
(* refresh() fetches the state every three seconds without waiting for the *)
(* answer to the previous fetch, so answers may come in any order.  Each   *)
(* tile's <video> is known by a number; a WHEP client or an hls.js object  *)
(* plays into it.                                                          *)
(***************************************************************************)
EXTENDS Naturals, FiniteSets

CONSTANTS Sources,      \* playback ids
          Tiles,        \* numbers of tiles (a bound)
          Fetches,      \* fetches of the state in flight at once (a bound)
          MaxEvents,    \* bound: changes at the server, clicks on the pill, what fails to load
          Nothing       \* null

VARIABLES
    server,    \* what a fetch would answer now
    answers,   \* answers[f]: the answer on its way, or Nothing
    app,       \* the page's `app` object, with tileSignature and wasComposingHere
    playing,   \* numbers of the tiles a running WHEP client or hls.js object plays into
    loading,   \* numbers of the tiles that wait for the hls.js script
    events     \* counted for the bound only

viewerVars == <<server, answers, app, playing, loading, events>>

\* /c/<slug> shows a channel: always composed here, and the only page on which
\* a source may be restricted.  MediaMTX serves a source with a `problem` over
\* HLS only.  The solo layout has one cell.
Snapshots ==
    [channel : BOOLEAN, mode : {"web", "server"}, live : SUBSET Sources,
     problem : SUBSET Sources, restricted : SUBSET Sources, solo : BOOLEAN, hidden : BOOLEAN]
Tile == [no : Tiles, transport : {"private", "hls", "whep"}, hls : BOOLEAN]
Signatures == [onAir : SUBSET Sources, problem : SUBSET Sources, solo : BOOLEAN]

ASSUME EventsAreCounted == MaxEvents \in Nat

\* `null` is none of these.
ASSUME NothingApart == Nothing \notin Sources \cup Snapshots \cup Tile \cup Signatures

ViewerInit ==
    /\ \E channel \in BOOLEAN :
         server = [channel |-> channel, mode |-> "web", live |-> {}, problem |-> {},
                   restricted |-> {}, solo |-> FALSE, hidden |-> FALSE]
    /\ answers = [f \in Fetches |-> Nothing]
    /\ app = [state |-> Nothing, booted |-> FALSE, hideRestricted |-> FALSE,
              program |-> FALSE, tiles |-> [s \in Sources |-> Nothing],
              tileSignature |-> Nothing, wasComposingHere |-> FALSE,
              audioKey |-> Nothing, audio |-> Nothing]
    /\ playing = {} /\ loading = {}
    /\ events = 0

Event == events < MaxEvents /\ events' = events + 1

-----------------------------------------------------------------------------
(* What the page makes of an answer.                                       *)

OnAir(st) == st.live \ (IF st.hidden THEN st.restricted ELSE {})
Celled(st) ==
    IF st.solo /\ OnAir(st) # {} THEN {CHOOSE s \in OnAir(st) : TRUE} ELSE OnAir(st)

\* A restricted source is sent without its problem, and `restricted` itself is
\* no part of the signature.
gridSignature(st) ==
    [onAir |-> OnAir(st), problem |-> st.problem \ st.restricted, solo |-> st.solo]

composingHere(st) == st # Nothing /\ st.mode = "web"

\* How a new tile shows s: a placeholder, over HLS, or over WHEP.
Transport(st, s) ==
    IF s \in st.restricted THEN "private" ELSE IF s \in st.problem THEN "hls" ELSE "whep"

Shown(tiles) == {s \in Sources : tiles[s] # Nothing}
Numbers(tiles) == {tiles[s].no : s \in Shown(tiles)}

\* Sources that leave the air lose their tile; one whose access changed has it
\* made anew, if it has a cell.
Stale(st, tiles) ==
    {s \in Shown(tiles) :
        \/ s \notin OnAir(st)
        \/ s \in Celled(st) /\ (tiles[s].transport = "private") # (s \in st.restricted)}

\* The cells that get a new tile, and the ways to number them with numbers that
\* nothing plays into or waits for.
New(st, tiles) == {s \in Celled(st) : tiles[s] = Nothing \/ s \in Stale(st, tiles)}
Numberings(st, tiles) ==
    {no \in [New(st, tiles) -> Tiles \ (Numbers(tiles) \cup loading)] :
        \A s, t \in New(st, tiles) : no[s] = no[t] => s = t}

\* startWebGrid: the tiles after it, numbered in one of those ways.
startWebGrid(st, tiles) ==
    LET no == CHOOSE n \in Numberings(st, tiles) : TRUE
    IN  [s \in Sources |->
            IF s \in New(st, tiles) THEN [no |-> no[s], transport |-> Transport(st, s), hls |-> FALSE]
            ELSE IF s \in Stale(st, tiles) THEN Nothing ELSE tiles[s]]

\* A WHEP client starts with its tile and stops with it; so does an hls.js
\* object the tile holds.  startTileHls waits for its script.
Over(tiles, transport) == {tiles[s].no : s \in {t \in Shown(tiles) : tiles[t].transport = transport}}
Replace(old, new) ==
    /\ playing' = (playing \ (Numbers(old) \ Numbers(new))) \cup Over(new, "whep")
    /\ loading' = loading \cup (Over(new, "hls") \ Numbers(old))

\* startProgram: stopProgram first, which clears the grid and its signature.
\* (Numberings # {} is the bound Tiles.)
NoTiles == [s \in Sources |-> Nothing]
startProgram(a, st) ==
    LET tiles == IF composingHere(st) THEN startWebGrid(st, NoTiles) ELSE NoTiles
    IN  /\ composingHere(st) => Numberings(st, NoTiles) # {}
        /\ app' = [a EXCEPT !.program = ~composingHere(st), !.tiles = tiles,
                            !.tileSignature = Nothing]
        /\ playing' = (playing \ Numbers(app.tiles)) \cup Over(tiles, "whep")
        /\ loading' = loading \cup Over(tiles, "hls")

\* syncWebGrid: rebuilt when the signature changed.  With nothing on air the
\* grid is cleared, the signature with it.
syncWebGrid(a, st) ==
    IF gridSignature(st) = app.tileSignature
    THEN app' = a /\ UNCHANGED <<playing, loading>>
    ELSE LET tiles == startWebGrid(st, app.tiles)
         IN  /\ Numberings(st, app.tiles) # {}
             /\ app' = [a EXCEPT !.tiles = tiles,
                                 !.tileSignature = IF OnAir(st) = {} THEN Nothing ELSE gridSignature(st)]
             /\ Replace(app.tiles, tiles)

\* selectAudio: stop the client there is, start one for the key.
selectAudio(a, key) ==
    [a EXCEPT !.audioKey = key, !.audio = key]

-----------------------------------------------------------------------------
(* refresh().                                                              *)

\* The first fetch is made when the page loads, the others once it has ended.
\* The server answers with what it has when the request reaches it.
Fetch(f) ==
    /\ answers[f] = Nothing
    /\ app.booted \/ \A g \in Fetches : answers[g] = Nothing
    /\ answers' = [answers EXCEPT ![f] =
                     [server EXCEPT !.hidden = server.channel /\ app.hideRestricted]]
    /\ UNCHANGED <<server, app, playing, loading, events>>

FetchFails(f) ==
    /\ answers[f] # Nothing
    /\ Event
    /\ answers' = [answers EXCEPT ![f] = Nothing]
    /\ app' = [app EXCEPT !.booted = TRUE]
    /\ UNCHANGED <<server, playing, loading>>

\* When the source that is listened to went away, fall back to muted; looked at
\* only when what is live differs from the last answer.
Muted(a, st) ==
    IF /\ app.state = Nothing \/ app.state.live # st.live
       /\ app.audioKey # Nothing /\ app.audioKey \notin st.live
    THEN selectAudio(a, Nothing)
    ELSE a

Answer(f) ==
    /\ answers[f] # Nothing
    /\ answers' = [answers EXCEPT ![f] = Nothing]
    /\ LET st == answers[f]
           a  == Muted([app EXCEPT !.state = st, !.booted = TRUE,
                                   !.wasComposingHere = composingHere(st)], st)
       IN  IF app.state = Nothing THEN startProgram(a, st)
           ELSE IF composingHere(st) THEN syncWebGrid(a, st)
           ELSE IF app.wasComposingHere THEN startProgram(a, st)
           ELSE app' = a /\ UNCHANGED <<playing, loading>>
    /\ UNCHANGED <<server, events>>

-----------------------------------------------------------------------------
(* The viewer's clicks, and the script that was loading.                   *)

\* An audio chip: of a live source that is sent with its audio path.
PickAudio(key) ==
    /\ app.state # Nothing
    /\ key # Nothing => key \in app.state.live \ app.state.restricted
    /\ app' = selectAudio(app, key)
    /\ UNCHANGED <<server, answers, playing, loading, events>>

\* The pill that hides private sources; it also calls refresh().
HidePill(f) ==
    /\ app.state # Nothing /\ app.state.channel
    /\ app.state.live \cap app.state.restricted # {}
    /\ answers[f] = Nothing
    /\ Event
    /\ app' = [app EXCEPT !.hideRestricted = ~@]
    /\ answers' = [answers EXCEPT ![f] = [server EXCEPT !.hidden = ~app.hideRestricted]]
    /\ UNCHANGED <<server, playing, loading>>

HlsReady_Unchecked(i) ==
    /\ i \in loading
    /\ loading' = loading \ {i}
    /\ playing' = playing \cup {i}
    /\ app' = [app EXCEPT !.tiles = [s \in Sources |->
                  IF s \in Shown(@) /\ @[s].no = i THEN [@[s] EXCEPT !.hls = TRUE] ELSE @[s]]]
    /\ UNCHANGED <<server, answers, events>>

\* The tile that waited for the script may be gone, or another may have taken
\* its place; then the new object is destroyed.
HlsReady(i) ==
    /\ i \in loading
    /\ loading' = loading \ {i}
    /\ LET mine == {s \in Shown(app.tiles) : app.tiles[s].no = i}
       IN  IF mine = {} THEN UNCHANGED <<app, playing>>
           ELSE /\ app' = [app EXCEPT !.tiles = [s \in Sources |->
                              IF s \in mine THEN [app.tiles[s] EXCEPT !.hls = TRUE] ELSE app.tiles[s]]]
                /\ playing' = playing \cup {i}
    /\ UNCHANGED <<server, answers, events>>

HlsFails(i) ==
    /\ i \in loading
    /\ Event
    /\ loading' = loading \ {i}
    /\ UNCHANGED <<server, answers, app, playing>>

-----------------------------------------------------------------------------
(* The server.                                                             *)

Flip(S, s) == IF s \in S THEN S \ {s} ELSE S \cup {s}

ServerChanges ==
    /\ Event
    /\ \/ \E s \in Sources : server' = [server EXCEPT !.live = Flip(@, s)]
       \/ \E s \in Sources : server' = [server EXCEPT !.problem = Flip(@, s)]
       \/ \E s \in Sources : server.channel /\ server' = [server EXCEPT !.restricted = Flip(@, s)]
       \/ ~server.channel /\ server' = [server EXCEPT !.mode = IF @ = "web" THEN "server" ELSE "web"]
       \/ server' = [server EXCEPT !.solo = ~@]
    /\ UNCHANGED <<answers, app, playing, loading>>

ViewerNext ==
    \/ \E f \in Fetches : Fetch(f) \/ FetchFails(f) \/ Answer(f) \/ HidePill(f)
    \/ \E key \in Sources \cup {Nothing} : PickAudio(key)
    \/ \E i \in Tiles : HlsReady(i) \/ HlsFails(i)
    \/ ServerChanges

ViewerSpec == ViewerInit /\ [][ViewerNext]_viewerVars

-----------------------------------------------------------------------------
ViewerTypeOK ==
    /\ server \in Snapshots
    /\ answers \in [Fetches -> Snapshots \cup {Nothing}]
    /\ app \in [state : Snapshots \cup {Nothing}, booted : BOOLEAN, hideRestricted : BOOLEAN,
                 program : BOOLEAN, tiles : [Sources -> Tile \cup {Nothing}],
                 tileSignature : Signatures \cup {Nothing}, wasComposingHere : BOOLEAN,
                 audioKey : Sources \cup {Nothing}, audio : Sources \cup {Nothing}]
    /\ playing \subseteq Tiles /\ loading \subseteq Tiles
    /\ events \in 0 .. MaxEvents

\* However the answers, the clicks and the script interleave, the page keeps hold
\* of every WHEP client and hls.js object that plays into a tile: each belongs to
\* a tile in app.tiles, through which alone the page can stop it, and plays as long
\* as that tile is there.  Every cell has its tile, and no tile is of a source
\* that went off air; without the solo layout the tiles are those on air.  While
\* the server composes there is a programme and there are no tiles.  Nobody hears
\* a source that is not on air.
\* app.tiles is more than what can be seen: when a layout has fewer cells than
\* there are sources, startWebGrid takes a tile without a cell off the page and
\* keeps it, so that it plays on unseen until its source goes off air.
PlayersAreHeld ==
    /\ playing = Over(app.tiles, "whep")
                   \cup {app.tiles[s].no : s \in {t \in Shown(app.tiles) : app.tiles[t].hls}}
    /\ app.state # Nothing =>
         IF composingHere(app.state)
         THEN Celled(app.state) \subseteq Shown(app.tiles) /\ Shown(app.tiles) \subseteq OnAir(app.state)
         ELSE app.program /\ Shown(app.tiles) = {}
    /\ app.audio # Nothing => app.audio \in app.state.live

\* The page has what the server has now, asked for with the pill as it is.
ShowsTheState ==
    /\ app.state # Nothing
    /\ app.state = [server EXCEPT !.hidden = server.channel /\ app.hideRestricted]
===============================================================================
