--------------------------- MODULE Viewers_proofs ---------------------------
(***************************************************************************)
(* Proofs about what viewers see and hear: version 1's viewer page, the    *)
(* React viewer, the layouts both place their tiles by, and the WHEP       *)
(* client behind a tile; for any number of streams, channels, polls,       *)
(* clicks, sessions and failures.                                          *)
(***************************************************************************)
EXTENDS Viewer, Watch, Layout, WhepClient, FiniteSetTheorems, WellFoundedInduction, TLAPS

-----------------------------------------------------------------------------
(* Version 1's viewer page.  A tile that is not in the grid plays nothing, *)
(* because the grid is what its signature says, and whatever rebuilds the  *)
(* one rebuilds the other: no two tiles have one number, so stopping the   *)
(* tiles that went stops what played in them and nothing else.             *)

TileGrids == [Sources -> Tile \cup {Nothing}]
Apps == [state : Snapshots \cup {Nothing}, booted : BOOLEAN, hideRestricted : BOOLEAN,
         program : BOOLEAN, tiles : TileGrids,
         tileSignature : Signatures \cup {Nothing}, wasComposingHere : BOOLEAN,
         audioKey : Sources \cup {Nothing}, audio : Sources \cup {Nothing}]

\* No two tiles have one number.
Distinct(tiles) == \A s, t \in Shown(tiles) : tiles[s].no = tiles[t].no => s = t

\* What is played into when the tiles are these.
PlayedInto(tiles) ==
    Over(tiles, "whep") \cup {tiles[s].no : s \in {t \in Shown(tiles) : tiles[t].hls}}

\* The cells a grid with that signature has.
CellsOf(sig) == IF sig.solo /\ sig.onAir # {} THEN {CHOOSE s \in sig.onAir : TRUE} ELSE sig.onAir
Tiled(tiles, cells, air) == cells \subseteq Shown(tiles) /\ Shown(tiles) \subseteq air

\* The signature is of the tiles there are, the flag of the state there is, and
\* what is heard is what was picked.
Remembered ==
    /\ Distinct(app.tiles)
    /\ app.tileSignature # Nothing => Tiled(app.tiles, CellsOf(app.tileSignature), app.tileSignature.onAir)
    /\ app.state # Nothing => app.wasComposingHere = composingHere(app.state)
    /\ app.audio = app.audioKey /\ (app.audio # Nothing => app.state # Nothing)

ViewerInv == ViewerTypeOK /\ Remembered /\ PlayersAreHeld

LEMMA ViewerTypes == ViewerTypeOK => app \in Apps /\ app.tiles \in TileGrids
BY DEF ViewerTypeOK, Apps, TileGrids

LEMMA CelledIsOnAir ==
    ASSUME NEW st \in Snapshots
    PROVE  /\ OnAir(st) \in SUBSET Sources /\ Celled(st) \subseteq OnAir(st)
           /\ gridSignature(st) \in Signatures
           /\ CellsOf(gridSignature(st)) = Celled(st) /\ gridSignature(st).onAir = OnAir(st)
<1>1. OnAir(st) \in SUBSET Sources /\ st.solo \in BOOLEAN /\ st.problem \in SUBSET Sources
  BY DEF Snapshots, OnAir
<1>2. Celled(st) \subseteq OnAir(st)
  BY DEF Celled
<1>3. gridSignature(st) \in Signatures
  BY <1>1 DEF gridSignature, Signatures
<1>4. CellsOf(gridSignature(st)) = Celled(st) /\ gridSignature(st).onAir = OnAir(st)
  BY DEF gridSignature, CellsOf, Celled
<1> QED BY <1>1, <1>2, <1>3, <1>4

\* The grid startWebGrid leaves: the cells, and of the old tiles those that may stay.
LEMMA GridStarted ==
    ASSUME NEW st \in Snapshots, NEW tiles \in TileGrids, Numberings(st, tiles) # {}
    PROVE  \E new \in TileGrids :
              /\ new = startWebGrid(st, tiles)
              /\ Shown(new) = New(st, tiles) \cup (Shown(tiles) \ Stale(st, tiles))
              /\ Tiled(new, Celled(st), OnAir(st))
              /\ \A s \in Shown(new) \ New(st, tiles) : new[s] = tiles[s] /\ s \in Shown(tiles)
              /\ \A s \in New(st, tiles) : new[s].hls = FALSE /\ new[s].no \notin Numbers(tiles)
              /\ Distinct(tiles) => Distinct(new)
<1> DEFINE new == startWebGrid(st, tiles)
           fresh == New(st, tiles)
           no == CHOOSE n \in Numberings(st, tiles) : TRUE
           Made(s) == [no |-> no[s], transport |-> Transport(st, s), hls |-> FALSE]
<1>1. no \in Numberings(st, tiles)
  OBVIOUS
<1>2. /\ \A s \in fresh : no[s] \in Tiles /\ no[s] \notin Numbers(tiles)
      /\ \A s, t \in fresh : no[s] = no[t] => s = t
  BY <1>1 DEF Numberings
<1>3. fresh \subseteq Celled(st) /\ Celled(st) \subseteq OnAir(st) /\ OnAir(st) \subseteq Sources
  BY CelledIsOnAir DEF New
<1>4. new = [s \in Sources |-> IF s \in fresh THEN Made(s) ELSE IF s \in Stale(st, tiles) THEN Nothing ELSE tiles[s]]
  BY DEF startWebGrid
<1> HIDE DEF no
<1>5. \A s \in fresh : Made(s) \in Tile
  BY <1>2 DEF Tile, Transport
<1>16. \A s : Made(s).hls = FALSE /\ Made(s).no = no[s]
  OBVIOUS
<1> HIDE DEF Made
<1>6. \A s \in fresh : new[s] = Made(s) /\ new[s] # Nothing
  BY <1>3, <1>4, <1>5, NothingApart
<1>7. \A s \in Sources \ fresh : new[s] = IF s \in Stale(st, tiles) THEN Nothing ELSE tiles[s]
  BY <1>4
<1>8. \A s \in Sources : new[s] \in Tile \cup {Nothing}
  BY <1>5, <1>6, <1>7 DEF TileGrids
<1>9. new \in TileGrids
  BY <1>4, <1>8 DEF TileGrids
<1> HIDE DEF new, fresh
<1>10. Shown(new) = fresh \cup (Shown(tiles) \ Stale(st, tiles))
  BY <1>3, <1>6, <1>7 DEF Shown
<1>11. Shown(new) \subseteq OnAir(st)
  BY <1>3, <1>10 DEF Stale
<1>12. Celled(st) \subseteq Shown(new)
  BY <1>3, <1>10 DEF New, Shown, fresh
<1>13. \A s \in fresh : new[s].hls = FALSE /\ new[s].no = no[s]
  BY <1>6, <1>16
<1>14. \A s \in Shown(new) \ fresh : new[s] = tiles[s] /\ s \in Shown(tiles)
  BY <1>7, <1>10 DEF Shown
<1>15. ASSUME Distinct(tiles) PROVE Distinct(new)
  BY <1>2, <1>13, <1>14, <1>15 DEF Distinct, Numbers
<1> QED BY <1>2, <1>9, <1>10, <1>11, <1>12, <1>13, <1>14, <1>15 DEF Tiled, new, fresh

LEMMA NothingInNoTiles ==
    NoTiles \in TileGrids /\ Shown(NoTiles) = {} /\ Numbers(NoTiles) = {} /\ PlayedInto(NoTiles) = {} /\ Distinct(NoTiles)
BY DEF NoTiles, TileGrids, Shown, Numbers, PlayedInto, Over, Distinct

LEMMA PlayedAreNumbers == ASSUME NEW tiles \in TileGrids PROVE PlayedInto(tiles) \subseteq Numbers(tiles) /\ Numbers(tiles) \subseteq Tiles
BY DEF PlayedInto, Over, Numbers, Shown, TileGrids, Tile

LEMMA ViewerInitInv == ViewerInit => ViewerInv
<1> SUFFICES ASSUME ViewerInit PROVE ViewerInv
  OBVIOUS
<1>1. app.tiles = NoTiles
  BY DEF ViewerInit, NoTiles
<1>2. ViewerTypeOK
  BY NothingInNoTiles, EventsAreCounted DEF ViewerInit, ViewerTypeOK, Snapshots, NoTiles, TileGrids
<1>3. Remembered
  BY <1>1, NothingInNoTiles DEF ViewerInit, Remembered
<1>4. PlayersAreHeld
  BY <1>1, NothingInNoTiles DEF ViewerInit, PlayersAreHeld, PlayedInto
<1> QED BY <1>2, <1>3, <1>4 DEF ViewerInv

\* A step that leaves the page alone.
LEMMA PageAlone ==
    ASSUME ViewerInv, UNCHANGED <<app, playing>>
    PROVE  Remembered' /\ PlayersAreHeld'
BY DEF ViewerInv, Remembered, PlayersAreHeld, Distinct, Tiled, Shown, Over, Numbers

LEMMA FetchStep == ASSUME ViewerInv, NEW f \in Fetches, Fetch(f) PROVE ViewerInv'
<1>1. [server EXCEPT !.hidden = server.channel /\ app.hideRestricted] \in Snapshots
  BY ViewerTypes DEF ViewerInv, ViewerTypeOK, Snapshots, Apps
<1>2. ViewerTypeOK'
  BY <1>1 DEF Fetch, ViewerInv, ViewerTypeOK
<1> QED BY <1>2, PageAlone DEF Fetch, ViewerInv

\* A step that changes nothing of the page but the flags.
LEMMA FlagStep ==
    ASSUME ViewerInv, UNCHANGED playing, NEW a \in Apps, app' = a,
           a.tiles = app.tiles, a.tileSignature = app.tileSignature, a.state = app.state,
           a.wasComposingHere = app.wasComposingHere, a.program = app.program,
           a.audio = a.audioKey, a.audio # Nothing => app.state # Nothing /\ a.audio \in app.state.live
    PROVE  Remembered' /\ PlayersAreHeld'
BY DEF ViewerInv, Remembered, PlayersAreHeld, Distinct, Tiled, Shown, Over, Numbers

LEMMA FetchFailsStep == ASSUME ViewerInv, NEW f \in Fetches, FetchFails(f) PROVE ViewerInv'
<1> DEFINE a == [app EXCEPT !.booted = TRUE]
<1>1. app' = a /\ a \in Apps
  BY ViewerTypes DEF FetchFails, ViewerInv, Apps
<1>2. ViewerTypeOK'
  BY <1>1, EventsAreCounted DEF FetchFails, Event, ViewerInv, ViewerTypeOK, Apps, TileGrids
<1>3. /\ a.tiles = app.tiles /\ a.tileSignature = app.tileSignature /\ a.state = app.state
      /\ a.wasComposingHere = app.wasComposingHere /\ a.program = app.program
      /\ a.audio = app.audio /\ a.audioKey = app.audioKey
  BY ViewerTypes DEF ViewerInv, Apps
<1>4. Remembered' /\ PlayersAreHeld'
  BY <1>1, <1>3, FlagStep DEF FetchFails, ViewerInv, Remembered, PlayersAreHeld
<1> QED BY <1>2, <1>4 DEF ViewerInv

LEMMA PickStep == ASSUME ViewerInv, NEW key \in Sources \cup {Nothing}, PickAudio(key) PROVE ViewerInv'
<1> DEFINE a == [app EXCEPT !.audioKey = key, !.audio = key]
<1>1. app' = a /\ a \in Apps
  BY ViewerTypes DEF PickAudio, selectAudio, ViewerInv, Apps
<1>2. ViewerTypeOK'
  BY <1>1 DEF PickAudio, ViewerInv, ViewerTypeOK, Apps, TileGrids
<1>3. /\ a.tiles = app.tiles /\ a.tileSignature = app.tileSignature /\ a.state = app.state
      /\ a.wasComposingHere = app.wasComposingHere /\ a.program = app.program
      /\ a.audio = key /\ a.audioKey = key
  BY ViewerTypes DEF ViewerInv, Apps
<1>4. Remembered' /\ PlayersAreHeld'
  BY <1>1, <1>3, FlagStep DEF PickAudio
<1> QED BY <1>2, <1>4 DEF ViewerInv

LEMMA HidePillStep == ASSUME ViewerInv, NEW f \in Fetches, HidePill(f) PROVE ViewerInv'
<1> DEFINE a == [app EXCEPT !.hideRestricted = ~@]
<1>1. app' = a /\ a \in Apps
  BY ViewerTypes DEF HidePill, ViewerInv, Apps
<1>2. [server EXCEPT !.hidden = ~app.hideRestricted] \in Snapshots
  BY ViewerTypes DEF ViewerInv, ViewerTypeOK, Snapshots, Apps
<1>3. ViewerTypeOK'
  BY <1>1, <1>2, EventsAreCounted DEF HidePill, Event, ViewerInv, ViewerTypeOK, Apps, TileGrids
<1>4. /\ a.tiles = app.tiles /\ a.tileSignature = app.tileSignature /\ a.state = app.state
      /\ a.wasComposingHere = app.wasComposingHere /\ a.program = app.program
      /\ a.audio = app.audio /\ a.audioKey = app.audioKey
  BY ViewerTypes DEF ViewerInv, Apps
<1>5. Remembered' /\ PlayersAreHeld'
  BY <1>1, <1>4, FlagStep DEF HidePill, ViewerInv, Remembered, PlayersAreHeld
<1> QED BY <1>3, <1>5 DEF ViewerInv

LEMMA HlsFailsStep == ASSUME ViewerInv, NEW i \in Tiles, HlsFails(i) PROVE ViewerInv'
<1>1. ViewerTypeOK'
  BY EventsAreCounted DEF HlsFails, Event, ViewerInv, ViewerTypeOK
<1> QED BY <1>1, PageAlone DEF HlsFails, ViewerInv

LEMMA ServerStep == ASSUME ViewerInv, ServerChanges PROVE ViewerInv'
<1>1. server' \in Snapshots
  <2>1. \A S \in SUBSET Sources, s \in Sources : Flip(S, s) \in SUBSET Sources
    BY DEF Flip
  <2>2. server \in Snapshots
    BY DEF ViewerInv, ViewerTypeOK
  <2>3. ASSUME NEW s \in Sources PROVE /\ [server EXCEPT !.live = Flip(@, s)] \in Snapshots
                                      /\ [server EXCEPT !.problem = Flip(@, s)] \in Snapshots
                                      /\ [server EXCEPT !.restricted = Flip(@, s)] \in Snapshots
    BY <2>1, <2>2 DEF Snapshots
  <2>4. /\ [server EXCEPT !.mode = IF @ = "web" THEN "server" ELSE "web"] \in Snapshots
        /\ [server EXCEPT !.solo = ~@] \in Snapshots
    BY <2>2 DEF Snapshots
  <2> QED BY <2>3, <2>4 DEF ServerChanges
<1>2. ViewerTypeOK'
  BY <1>1, EventsAreCounted DEF ServerChanges, Event, ViewerInv, ViewerTypeOK
<1> QED BY <1>2, PageAlone DEF ServerChanges, ViewerInv

LEMMA HlsReadyStep == ASSUME ViewerInv, NEW i \in Tiles, HlsReady(i) PROVE ViewerInv'
<1> DEFINE mine == {s \in Shown(app.tiles) : app.tiles[s].no = i}
           tiles == [s \in Sources |-> IF s \in mine THEN [app.tiles[s] EXCEPT !.hls = TRUE] ELSE app.tiles[s]]
<1>1. loading' = loading \ {i} /\ UNCHANGED <<server, answers, events>>
  BY DEF HlsReady
<1>2. CASE mine = {}
  <2>1. UNCHANGED <<app, playing>>
    BY <1>2 DEF HlsReady
  <2>2. ViewerTypeOK'
    BY <1>1, <2>1 DEF ViewerInv, ViewerTypeOK
  <2> QED BY <2>1, <2>2, PageAlone DEF ViewerInv
<1>3. CASE mine # {}
  <2>1. app' = [app EXCEPT !.tiles = tiles] /\ playing' = playing \cup {i}
    BY <1>3 DEF HlsReady
  <2>2. app \in Apps /\ app.tiles \in TileGrids
    BY ViewerTypes DEF ViewerInv
  <2>3. \A s \in mine : /\ app.tiles[s] \in Tile /\ [app.tiles[s] EXCEPT !.hls = TRUE] \in Tile
                        /\ tiles[s].no = app.tiles[s].no /\ tiles[s].transport = app.tiles[s].transport
                        /\ tiles[s].hls
    BY <2>2 DEF TileGrids, Tile, Shown
  <2>4. \A s \in Sources \ mine : tiles[s] = app.tiles[s]
    OBVIOUS
  <2>5. \A s \in mine : tiles[s] \in Tile
    BY <2>3 DEF Shown
  <2>6. tiles \in TileGrids
    BY <2>2, <2>4, <2>5 DEF TileGrids
  <2> HIDE DEF tiles
  <2>7. Shown(tiles) = Shown(app.tiles) /\ mine \subseteq Shown(tiles)
    BY <2>4, <2>5, NothingApart DEF Shown
  <2>8. \A s \in Shown(tiles) : tiles[s].no = app.tiles[s].no /\ tiles[s].transport = app.tiles[s].transport
    BY <2>3, <2>4 DEF Shown
  <2>9. Over(tiles, "whep") = Over(app.tiles, "whep")
    BY <2>7, <2>8 DEF Over
  <2>10. {tiles[s].no : s \in {t \in Shown(tiles) : tiles[t].hls}}
           = {app.tiles[s].no : s \in {t \in Shown(app.tiles) : app.tiles[t].hls}} \cup {i}
    <3> DEFINE Fed(t) == {t[s].no : s \in {r \in Shown(t) : t[r].hls}}
    <3>1. ASSUME NEW n \in Fed(tiles) PROVE n \in Fed(app.tiles) \cup {i}
      <4>1. PICK s \in Shown(tiles) : tiles[s].hls /\ n = tiles[s].no
        OBVIOUS
      <4> QED BY <4>1, <2>3, <2>4, <2>7, <2>8 DEF Shown
    <3>2. ASSUME NEW n \in Fed(app.tiles) PROVE n \in Fed(tiles)
      <4>1. PICK s \in Shown(app.tiles) : app.tiles[s].hls /\ n = app.tiles[s].no
        OBVIOUS
      <4>2. tiles[s].hls
        BY <2>3, <2>4, <4>1 DEF Shown
      <4> QED BY <4>1, <4>2, <2>7, <2>8
    <3>3. i \in Fed(tiles)
      BY <1>3, <2>3, <2>7
    <3> QED BY <3>1, <3>2, <3>3
  <2>11. app' \in Apps /\ app'.tiles = tiles
         /\ \A field \in {"state", "program", "tileSignature", "wasComposingHere", "audioKey", "audio"} : app'[field] = app[field]
    BY <2>1, <2>2, <2>6 DEF Apps
  <2>12. ViewerTypeOK'
    BY <1>1, <2>1, <2>11 DEF ViewerInv, ViewerTypeOK, Apps, TileGrids
  <2>13. Remembered'
    BY <2>7, <2>8, <2>11 DEF ViewerInv, Remembered, Distinct, Tiled
  <2>14. PlayersAreHeld'
    BY <2>1, <2>7, <2>9, <2>10, <2>11 DEF ViewerInv, PlayersAreHeld
  <2> QED BY <2>12, <2>13, <2>14 DEF ViewerInv
<1> QED BY <1>2, <1>3

\* The page after an answer, before its tiles are looked at.
Noted(st) == [app EXCEPT !.state = st, !.booted = TRUE, !.wasComposingHere = composingHere(st)]

LEMMA MutedApp ==
    ASSUME ViewerInv, NEW st \in Snapshots
    PROVE  \E a \in Apps :
              /\ a = Muted(Noted(st), st) /\ a.state = st /\ a.wasComposingHere = composingHere(st)
              /\ a.tiles = app.tiles /\ a.program = app.program /\ a.tileSignature = app.tileSignature
              /\ a.audio = a.audioKey /\ (a.audio # Nothing => a.audio \in st.live)
<1> DEFINE n == Noted(st)
           a == Muted(n, st)
<1>1. app \in Apps /\ composingHere(st) \in BOOLEAN
  BY ViewerTypes DEF ViewerInv, composingHere
<1>2. n \in Apps /\ n.state = st /\ n.wasComposingHere = composingHere(st) /\ n.tiles = app.tiles
      /\ n.program = app.program /\ n.tileSignature = app.tileSignature
      /\ n.audio = app.audio /\ n.audioKey = app.audioKey
  BY <1>1 DEF Apps, Noted
<1> DEFINE Good(x) ==
             /\ x.state = st /\ x.wasComposingHere = composingHere(st)
             /\ x.tiles = app.tiles /\ x.program = app.program /\ x.tileSignature = app.tileSignature
             /\ x.audio = x.audioKey /\ (x.audio # Nothing => x.audio \in st.live)
<1> HIDE DEF n
<1>3. /\ app.audio = app.audioKey
      /\ app.audio # Nothing => app.state # Nothing /\ app.audio \in app.state.live
  BY DEF ViewerInv, Remembered, PlayersAreHeld
<1>4. ASSUME a = selectAudio(n, Nothing) PROVE a \in Apps /\ Good(a)
  <2>1. [n EXCEPT !.audioKey = Nothing, !.audio = Nothing] \in Apps
    BY <1>2 DEF Apps
  <2> QED BY <1>2, <1>4, <2>1 DEF Apps, selectAudio
<1>5. ASSUME a # selectAudio(n, Nothing) PROVE a \in Apps /\ Good(a)
  <2>1. a = n
    BY <1>5 DEF Muted
  <2>2. app.audio # Nothing => app.audio \in st.live
    BY <1>3, <1>5 DEF Muted
  <2> QED BY <1>2, <1>3, <2>1, <2>2
<1> QED BY <1>4, <1>5 DEF n

\* startProgram: the grid anew, or the programme and no grid.
LEMMA ProgramStep ==
    ASSUME ViewerInv, NEW st \in Snapshots, NEW a \in Apps, startProgram(a, st),
           a.state = st, a.wasComposingHere = composingHere(st),
           a.audio = a.audioKey, a.audio # Nothing => a.audio \in st.live
    PROVE  app' \in Apps /\ playing' \subseteq Tiles /\ (loading \subseteq Tiles => loading' \subseteq Tiles)
           /\ Remembered' /\ PlayersAreHeld'
<1> DEFINE tiles == IF composingHere(st) THEN startWebGrid(st, NoTiles) ELSE NoTiles
<1>1. /\ composingHere(st) => Numberings(st, NoTiles) # {}
      /\ app' = [a EXCEPT !.program = ~composingHere(st), !.tiles = tiles, !.tileSignature = Nothing]
      /\ playing' = (playing \ Numbers(app.tiles)) \cup Over(tiles, "whep")
      /\ loading' = loading \cup Over(tiles, "hls")
  BY DEF startProgram
<1>2. /\ tiles \in TileGrids /\ Distinct(tiles)
      /\ \A s \in Shown(tiles) : ~tiles[s].hls
      /\ IF composingHere(st) THEN Tiled(tiles, Celled(st), OnAir(st)) ELSE Shown(tiles) = {}
  <2>1. CASE composingHere(st)
    <3>1. NoTiles \in TileGrids /\ Shown(NoTiles) = {} /\ Distinct(NoTiles)
      BY NothingInNoTiles
    <3>2. PICK new \in TileGrids :
              /\ new = startWebGrid(st, NoTiles)
              /\ Shown(new) = New(st, NoTiles) \cup (Shown(NoTiles) \ Stale(st, NoTiles))
              /\ Tiled(new, Celled(st), OnAir(st))
              /\ \A s \in Shown(new) \ New(st, NoTiles) : new[s] = NoTiles[s] /\ s \in Shown(NoTiles)
              /\ \A s \in New(st, NoTiles) : new[s].hls = FALSE /\ new[s].no \notin Numbers(NoTiles)
              /\ Distinct(NoTiles) => Distinct(new)
      BY <1>1, <2>1, <3>1, GridStarted
    <3>3. tiles = new
      BY <2>1, <3>2
    <3>4. \A s \in Shown(tiles) : ~tiles[s].hls
      BY <3>1, <3>2, <3>3
    <3> QED BY <2>1, <3>1, <3>2, <3>3, <3>4
  <2>2. CASE ~composingHere(st)
    BY <2>2, NothingInNoTiles
  <2> QED BY <2>1, <2>2
<1>3. PlayedInto(tiles) = Over(tiles, "whep")
  BY <1>2 DEF PlayedInto
<1> HIDE DEF tiles
<1>4. app' \in Apps /\ app'.tiles = tiles /\ app'.program = ~composingHere(st) /\ app'.tileSignature = Nothing
      /\ app'.state = st /\ app'.wasComposingHere = composingHere(st) /\ app'.audio = a.audio /\ app'.audioKey = a.audioKey
  BY <1>1, <1>2 DEF Apps, composingHere
<1>5. playing \subseteq Numbers(app.tiles)
  BY PlayedAreNumbers, ViewerTypes DEF ViewerInv, PlayersAreHeld, PlayedInto
<1>6. playing' = PlayedInto(tiles)
  BY <1>1, <1>3, <1>5
<1>7. Over(tiles, "hls") \subseteq Tiles /\ PlayedInto(tiles) \subseteq Tiles
  BY <1>2, PlayedAreNumbers DEF Over, Shown, TileGrids, Tile
<1>8. Remembered'
  BY <1>2, <1>4, NothingApart DEF Remembered
<1>9. PlayersAreHeld'
  BY <1>2, <1>4, <1>6 DEF PlayersAreHeld, PlayedInto, Tiled
<1> QED BY <1>1, <1>4, <1>6, <1>7, <1>8, <1>9

\* What moves from one grid to the next keeps its player, and only that.
LEMMA PlayersFollow ==
    ASSUME ViewerInv, NEW new \in TileGrids, NEW fresh \in SUBSET Shown(new), Replace(app.tiles, new),
           \A s \in Shown(new) \ fresh : new[s] = app.tiles[s] /\ s \in Shown(app.tiles),
           \A s \in fresh : new[s].hls = FALSE /\ new[s].no \notin Numbers(app.tiles)
    PROVE  playing' = PlayedInto(new)
<1> DEFINE old == app.tiles
<1>1. playing = PlayedInto(old) /\ Distinct(old)
  BY DEF ViewerInv, PlayersAreHeld, PlayedInto, Remembered
<1>2. playing' = (playing \ (Numbers(old) \ Numbers(new))) \cup Over(new, "whep")
  BY DEF Replace
<1>3. ASSUME NEW n \in PlayedInto(old), n \in Numbers(new) PROVE n \in PlayedInto(new)
  <2>1. PICK s \in Shown(old) : n = old[s].no /\ (old[s].transport = "whep" \/ old[s].hls)
    BY DEF PlayedInto, Over
  <2>2. PICK t \in Shown(new) : n = new[t].no
    BY <1>3 DEF Numbers
  <2>3. n \in Numbers(old)
    BY <2>1 DEF Numbers
  <2>4. t \notin fresh /\ t \in Shown(old) /\ new[t] = old[t]
    BY <2>2, <2>3
  <2>5. t = s
    BY <1>1, <2>1, <2>2, <2>4 DEF Distinct
  <2> QED BY <2>1, <2>2, <2>4, <2>5 DEF PlayedInto, Over
<1>4. ASSUME NEW n \in PlayedInto(new), n \notin Over(new, "whep")
      PROVE  n \in PlayedInto(old) /\ n \in Numbers(new)
  <2>1. PICK t \in Shown(new) : n = new[t].no /\ new[t].hls
    BY <1>4 DEF PlayedInto
  <2> QED BY <2>1 DEF PlayedInto, Numbers
<1>5. PlayedInto(old) \subseteq Numbers(old) /\ Over(new, "whep") \subseteq PlayedInto(new)
  BY PlayedAreNumbers, ViewerTypes DEF ViewerInv, PlayedInto
<1> QED BY <1>1, <1>2, <1>3, <1>4, <1>5

\* syncWebGrid: the same grid for the same signature, or another.
LEMMA SyncStep ==
    ASSUME ViewerInv, NEW st \in Snapshots, NEW a \in Apps, syncWebGrid(a, st), composingHere(st),
           a.state = st, a.wasComposingHere = composingHere(st),
           a.tiles = app.tiles, a.tileSignature = app.tileSignature,
           a.audio = a.audioKey, a.audio # Nothing => a.audio \in st.live
    PROVE  app' \in Apps /\ playing' \subseteq Tiles /\ (loading \subseteq Tiles => loading' \subseteq Tiles)
           /\ Remembered' /\ PlayersAreHeld'
<1>0. st # Nothing /\ playing \subseteq Tiles /\ app.tiles \in TileGrids
  BY NothingApart, ViewerTypes DEF ViewerInv, ViewerTypeOK
<1>1. CASE gridSignature(st) = app.tileSignature
  <2>1. app' = a /\ UNCHANGED <<playing, loading>>
    BY <1>1 DEF syncWebGrid
  <2>2. app.tileSignature # Nothing
    BY <1>1, CelledIsOnAir, NothingApart
  <2>3. Tiled(app.tiles, Celled(st), OnAir(st))
    BY <1>1, <2>2, CelledIsOnAir DEF ViewerInv, Remembered
  <2>4. Remembered'
    BY <1>0, <2>1 DEF ViewerInv, Remembered
  <2>5. PlayersAreHeld'
    BY <2>1, <2>3 DEF ViewerInv, PlayersAreHeld, Tiled
  <2> QED BY <1>0, <2>1, <2>4, <2>5
<1>2. CASE gridSignature(st) # app.tileSignature
  <2>1. Numberings(st, app.tiles) # {}
    BY <1>2 DEF syncWebGrid
  <2>2. PICK new \in TileGrids :
              /\ new = startWebGrid(st, app.tiles)
              /\ Shown(new) = New(st, app.tiles) \cup (Shown(app.tiles) \ Stale(st, app.tiles))
              /\ Tiled(new, Celled(st), OnAir(st))
              /\ \A s \in Shown(new) \ New(st, app.tiles) : new[s] = app.tiles[s] /\ s \in Shown(app.tiles)
              /\ \A s \in New(st, app.tiles) : new[s].hls = FALSE /\ new[s].no \notin Numbers(app.tiles)
              /\ Distinct(app.tiles) => Distinct(new)
    BY <1>0, <2>1, GridStarted
  <2> DEFINE sig == IF OnAir(st) = {} THEN Nothing ELSE gridSignature(st)
  <2>3. app' = [a EXCEPT !.tiles = new, !.tileSignature = sig] /\ Replace(app.tiles, new)
    BY <1>2, <2>2 DEF syncWebGrid
  <2>4. sig \in Signatures \cup {Nothing}
    BY CelledIsOnAir
  <2>5. app' \in Apps /\ app'.tiles = new /\ app'.tileSignature = sig /\ app'.state = st
        /\ app'.wasComposingHere = a.wasComposingHere /\ app'.audio = a.audio /\ app'.audioKey = a.audioKey
    BY <2>3, <2>4 DEF Apps
  <2>6. playing' = PlayedInto(new)
    BY <2>2, <2>3, PlayersFollow
  <2>7. playing' \subseteq Tiles /\ Over(new, "hls") \subseteq Tiles
    BY <2>6, PlayedAreNumbers DEF Over, Shown, TileGrids, Tile
  <2>8. sig # Nothing => Tiled(new, CellsOf(sig), sig.onAir)
    BY <2>2, CelledIsOnAir
  <2>9. Remembered'
    BY <1>0, <2>2, <2>5, <2>8 DEF ViewerInv, Remembered
  <2>10. PlayersAreHeld'
    BY <2>2, <2>5, <2>6 DEF PlayersAreHeld, PlayedInto, Tiled
  <2> QED BY <2>3, <2>5, <2>7, <2>9, <2>10 DEF Replace
<1> QED BY <1>1, <1>2

LEMMA AnswerStep == ASSUME ViewerInv, NEW f \in Fetches, Answer(f) PROVE ViewerInv'
<1> DEFINE st == answers[f]
<1>1. st \in Snapshots /\ st # Nothing /\ answers' = [answers EXCEPT ![f] = Nothing] /\ UNCHANGED <<server, events>>
  BY DEF Answer, ViewerInv, ViewerTypeOK
<1> HIDE DEF st
<1>2. PICK a \in Apps :
        /\ a = Muted(Noted(st), st) /\ a.state = st /\ a.wasComposingHere = composingHere(st)
        /\ a.tiles = app.tiles /\ a.program = app.program /\ a.tileSignature = app.tileSignature
        /\ a.audio = a.audioKey /\ (a.audio # Nothing => a.audio \in st.live)
  BY <1>1, MutedApp
<1> DEFINE Kept == app' \in Apps /\ playing' \subseteq Tiles /\ (loading \subseteq Tiles => loading' \subseteq Tiles)
                   /\ Remembered' /\ PlayersAreHeld'
<1>3. IF app.state = Nothing THEN startProgram(a, st)
      ELSE IF composingHere(st) THEN syncWebGrid(a, st)
      ELSE IF app.wasComposingHere THEN startProgram(a, st)
      ELSE app' = a /\ UNCHANGED <<playing, loading>>
  BY <1>2 DEF Answer, Noted, st
<1>4. ASSUME startProgram(a, st) PROVE Kept
  BY <1>1, <1>2, <1>4, ProgramStep
<1>5. ASSUME syncWebGrid(a, st), composingHere(st) PROVE Kept
  BY <1>1, <1>2, <1>5, SyncStep
<1>6. ASSUME app.state # Nothing, ~composingHere(st), ~app.wasComposingHere, app' = a, UNCHANGED <<playing, loading>>
      PROVE  Kept
  <2>1. app.program /\ Shown(app.tiles) = {}
    BY <1>6 DEF ViewerInv, Remembered, PlayersAreHeld
  <2>2. Remembered'
    BY <1>1, <1>2, <1>6 DEF ViewerInv, Remembered
  <2>3. PlayersAreHeld'
    BY <1>2, <1>6, <2>1 DEF ViewerInv, PlayersAreHeld
  <2> QED BY <1>6, <2>2, <2>3 DEF ViewerInv, ViewerTypeOK
<1>7. Kept
  BY <1>3, <1>4, <1>5, <1>6
<1>8. ViewerTypeOK'
  BY <1>1, <1>7 DEF ViewerInv, ViewerTypeOK, Apps, TileGrids
<1> QED BY <1>7, <1>8 DEF ViewerInv

LEMMA ViewerNextInv == ViewerInv /\ [ViewerNext]_viewerVars => ViewerInv'
<1> SUFFICES ASSUME ViewerInv, [ViewerNext]_viewerVars PROVE ViewerInv'
  OBVIOUS
<1>1. CASE UNCHANGED viewerVars
  BY <1>1, PageAlone DEF viewerVars, ViewerInv, ViewerTypeOK
<1>2. CASE ViewerNext
  BY <1>2, FetchStep, FetchFailsStep, AnswerStep, HidePillStep, PickStep, HlsReadyStep, HlsFailsStep, ServerStep DEF ViewerNext
<1> QED BY <1>1, <1>2

\* app.js: every client and hls.js object that plays is held by a tile the page
\* can stop it through, every cell has its tile and no tile is of a source off air,
\* and the signature the next render compares with is of the tiles there are, in
\* whatever order the answers, the clicks, the loaded script and its failures come.
\* Nothing is said of whether a tile that is kept has a cell to be seen in.
THEOREM ViewerSafe == ViewerSpec => []ViewerInv
BY ViewerInitInv, ViewerNextInv, PTL DEF ViewerSpec

-----------------------------------------------------------------------------
(* The React viewer.  What a poll answers is of the address it asked, and  *)
(* what is on the page is of the address that is open, because every       *)
(* change of address clears what was there before anything of the new one  *)
(* comes, and an answer of an old one is thrown away by its effect.        *)

\* Every offer and every answer is of the address it was asked for, and the list
\* of streams is empty outside of the channels' pages.
Addressed ==
    /\ \A u \in Addresses : offers[u] # Null => offers[u].of = u
    /\ offers["home"] # Null
    /\ \A i \in Polls : poll[i] # Null /\ poll[i].answer # Null => poll[i].answer.of = poll[i].url
    /\ route \notin Slugs => prefs = NoChannel

WatchInv == WatchTypeOK /\ Addressed /\ NothingOfElsewhere

Hooks == [state : Snapshot \cup {Null}, notFound : BOOLEAN, error : BOOLEAN]
Preferences == [slug : Slugs \cup {Null}, onAir : SUBSET Feeds, hidden : SUBSET Feeds, spotlight : Feeds \cup {Null}]

\* What Shows leaves behind: the sound is of a candidate in a grid.
LEMMA ShownHeard ==
    ASSUME WatchTypeOK, NEW u, NEW h \in Hooks, NEW p \in Preferences, Shows(u, h, p)
    PROVE  /\ hook' = h /\ prefs' = p /\ listening' \in Feeds \cup {Null}
           /\ listening' # Null => listening' \in candidates(h) /\ Composed(u, h, p) # {}
BY NullApart DEF WatchTypeOK, Shows, Hears, Hooks

LEMMA PlayersAreComposed ==
    ASSUME NEW u, NEW h, NEW p, u \notin Slugs => p.hidden = {}
    PROVE  Players(u, h, p) \cap p.hidden = {}
BY DEF Players, Composed

LEMMA WatchInitInv == WatchInit => WatchInv
BY NullApart, SlugsApart DEF WatchInit, WatchInv, WatchTypeOK, Addressed, NothingOfElsewhere, Offer, Snapshot, Loops,
   Blank, NoChannel, Composed, Players, candidates, Addresses

\* How the pieces of a well-typed state can be used.
LEMMA WatchTypes ==
    ASSUME WatchTypeOK
    PROVE  /\ hook \in Hooks /\ prefs \in Preferences /\ route \in Addresses \cup {"elsewhere"}
           /\ \A i \in Polls : poll[i] # Null =>
                 /\ poll[i] \in Loops /\ poll[i].url \in Addresses
                 /\ poll[i].answer # Null => poll[i].answer \in Snapshot
           /\ \A u \in Addresses : offers[u] # Null => offers[u] \in Snapshot
           /\ \A u \in Slugs : stored[u] \in SUBSET Feeds
BY DEF WatchTypeOK, Hooks, Preferences, Loops

LEMMA ListedTypes ==
    ASSUME WatchTypeOK, NEW u \in Slugs, NEW live \in SUBSET Feeds
    PROVE  /\ setChannelStreams(u, live) \in Preferences
           /\ setChannelStreams(u, live).slug = u
           /\ NothingOfElsewhere => setChannelStreams(u, live).hidden = stored[u]
BY NullApart DEF WatchTypeOK, setChannelStreams, Preferences, NothingOfElsewhere

\* A step that leaves the page, its loops and the browser's storage alone.
LEMMA SameGrid ==
    ASSUME WatchInv, UNCHANGED <<route, poll, hook, prefs, stored, listening>>
    PROVE  NothingOfElsewhere'
BY DEF WatchInv, NothingOfElsewhere, Astray, candidates, Composed, Players

LEMMA HiddenStep == ASSUME WatchInv, NEW key \in Feeds, toggleHidden(key) PROVE WatchInv'
<1> DEFINE hidden == Toggle(prefs.hidden, key)
           p == [prefs EXCEPT !.hidden = hidden]
<1>1. /\ stored' = [stored EXCEPT ![prefs.slug] = hidden] /\ Shows(route, hook, p) /\ key \in prefs.onAir
      /\ UNCHANGED <<offers, homepage, route, poll, timer>>
  BY DEF toggleHidden
<1>2. route \in Slugs
  BY <1>1 DEF WatchInv, Addressed, NoChannel
<1>3. hidden \in SUBSET Feeds /\ p \in Preferences /\ hook \in Hooks
  BY WatchTypes DEF Toggle, WatchInv, Preferences
<1>4. hook' = hook /\ prefs' = p /\ listening' \in Feeds \cup {Null}
      /\ (listening' # Null => listening' \in candidates(hook) /\ Composed(route, hook, p) # {})
  BY <1>1, <1>3, ShownHeard DEF WatchInv
<1>5. WatchTypeOK'
  BY <1>1, <1>3, <1>4 DEF WatchInv, WatchTypeOK, Hooks, Preferences
<1>6. Addressed'
  BY <1>1, <1>2 DEF WatchInv, Addressed
<1>7. NothingOfElsewhere'
  <2>1. p.slug # Null => p.hidden = stored'[p.slug]
    BY <1>1, <1>3 DEF WatchInv, WatchTypeOK, Preferences
  <2>2. Players(route, hook, p) \cap p.hidden = {}
    BY <1>2, PlayersAreComposed
  <2> QED BY <1>1, <1>3, <1>4, <2>1, <2>2 DEF WatchInv, NothingOfElsewhere, Astray, candidates, Composed, Players, Preferences
<1> QED BY <1>5, <1>6, <1>7 DEF WatchInv

LEMMA SpotlightStep == ASSUME WatchInv, NEW key \in Feeds, toggleSpotlight(key) PROVE WatchInv'
<1> DEFINE p == [prefs EXCEPT !.spotlight = IF @ = key THEN Null ELSE key]
<1>1. /\ Shows(route, hook, p) /\ key \in prefs.onAir
      /\ UNCHANGED <<offers, homepage, route, poll, timer, stored>>
  BY DEF toggleSpotlight
<1>2. route \in Slugs
  BY <1>1 DEF WatchInv, Addressed, NoChannel
<1>3. p \in Preferences /\ hook \in Hooks /\ p.hidden = prefs.hidden /\ p.slug = prefs.slug
  BY WatchTypes DEF WatchInv, Preferences
<1>4. hook' = hook /\ prefs' = p /\ listening' \in Feeds \cup {Null}
      /\ (listening' # Null => listening' \in candidates(hook) /\ Composed(route, hook, p) # {})
  BY <1>1, <1>3, ShownHeard DEF WatchInv
<1>5. WatchTypeOK'
  BY <1>1, <1>3, <1>4 DEF WatchInv, WatchTypeOK, Hooks, Preferences
<1>6. Addressed'
  BY <1>1, <1>2 DEF WatchInv, Addressed
<1>7. NothingOfElsewhere'
  BY <1>1, <1>2, <1>3, <1>4, PlayersAreComposed
     DEF WatchInv, NothingOfElsewhere, Astray, candidates, Composed, Players
<1> QED BY <1>5, <1>6, <1>7 DEF WatchInv

LEMMA ResetStep == ASSUME WatchInv, reset PROVE WatchInv'
<1> DEFINE p == [prefs EXCEPT !.hidden = {}, !.spotlight = Null]
<1>1. /\ stored' = [stored EXCEPT ![prefs.slug] = {}] /\ Shows(route, hook, p) /\ prefs.onAir # {}
      /\ UNCHANGED <<offers, homepage, route, poll, timer>>
  BY DEF reset
<1>2. route \in Slugs
  BY <1>1 DEF WatchInv, Addressed, NoChannel
<1>3. p \in Preferences /\ hook \in Hooks /\ p.hidden = {} /\ p.slug = prefs.slug
  BY WatchTypes DEF WatchInv, Preferences
<1>4. hook' = hook /\ prefs' = p /\ listening' \in Feeds \cup {Null}
      /\ (listening' # Null => listening' \in candidates(hook) /\ Composed(route, hook, p) # {})
  BY <1>1, <1>3, ShownHeard DEF WatchInv
<1>5. WatchTypeOK'
  BY <1>1, <1>3, <1>4 DEF WatchInv, WatchTypeOK, Hooks, Preferences
<1>6. Addressed'
  BY <1>1, <1>2 DEF WatchInv, Addressed
<1>7. NothingOfElsewhere'
  <2>1. p.slug # Null => p.hidden = stored'[p.slug]
    BY <1>1, <1>3 DEF WatchInv, WatchTypeOK, Preferences
  <2> QED BY <1>1, <1>2, <1>3, <1>4, <2>1, PlayersAreComposed
             DEF WatchInv, NothingOfElsewhere, Astray, candidates, Composed, Players
<1> QED BY <1>5, <1>6, <1>7 DEF WatchInv

LEMMA SoundStep == ASSUME WatchInv, NEW key \in Feeds \cup {Null}, PickSound(key) PROVE WatchInv'
<1>1. WatchTypeOK' /\ Addressed'
  BY DEF PickSound, WatchInv, WatchTypeOK, Addressed
<1>2. NothingOfElsewhere'
  BY DEF PickSound, WatchInv, NothingOfElsewhere, Astray, candidates, Composed, Players
<1> QED BY <1>1, <1>2 DEF WatchInv

LEMMA MountStep ==
    ASSUME WatchInv, NEW u \in Addresses \cup {"elsewhere"}, Mount(u), UNCHANGED <<offers, homepage, stored>>
    PROVE  WatchInv'
<1>1. /\ route' = u /\ hook' = Blank /\ prefs' = NoChannel
      /\ poll' = [i \in Polls |-> IF u # "elsewhere" /\ i = CHOOSE j \in Polls : TRUE THEN Asks(u) ELSE Null]
  BY DEF Mount, Shows
<1>2. listening' = Null
  BY DEF Mount, Shows, Hears, Composed, Blank
<1>3. u # "elsewhere" => Asks(u) \in Loops
  BY DEF Asks, Loops
<1>4. WatchTypeOK'
  BY <1>1, <1>2, <1>3 DEF WatchInv, WatchTypeOK, Blank, NoChannel
<1>5. Addressed'
  BY <1>1 DEF WatchInv, Addressed, Asks
<1>6. NothingOfElsewhere'
  BY <1>1, <1>2 DEF WatchInv, NothingOfElsewhere, Blank, NoChannel, Players, Composed
<1> QED BY <1>4, <1>5, <1>6 DEF WatchInv

LEMMA ChangeUrlStep ==
    ASSUME WatchInv, NEW u \in Slugs, route \in Slugs, ChangeUrl(u), UNCHANGED <<offers, homepage, stored>>
    PROVE  WatchInv'
<1> DEFINE kept == [i \in Polls |-> IF i = timer /\ poll[i] # Null /\ poll[i].step = "waiting" THEN Null ELSE poll[i]]
           free == {i \in Polls : kept[i] = Null}
           p == IF hook.state = Null THEN prefs ELSE setChannelStreams(u, hook.state.live)
<1>1. /\ route' = u /\ Shows(u, Blank, p)
      /\ poll' = [kept EXCEPT ![CHOOSE i \in Polls : i \in free] = Asks(u)]
  BY DEF ChangeUrl
<1>2. Asks(u) \in Loops /\ kept \in [Polls -> Loops \cup {Null}]
  BY DEF Asks, Loops, Addresses, WatchInv, WatchTypeOK
<1>3. Blank \in Hooks /\ p \in Preferences
  <2>1. Blank \in Hooks
    BY DEF Blank, Hooks
  <2>2. CASE hook.state = Null
    BY <2>1, <2>2, WatchTypes DEF WatchInv
  <2>3. CASE hook.state # Null
    <3>1. hook.state.live \in SUBSET Feeds
      BY <2>3, WatchTypes DEF WatchInv, Hooks, Snapshot
    <3> QED BY <2>1, <2>3, <3>1, ListedTypes DEF WatchInv
  <2> QED BY <2>2, <2>3
<1>4. hook' = Blank /\ prefs' = p /\ listening' = Null
  BY <1>1 DEF Shows, Hears, Composed, Blank
<1>5. WatchTypeOK'
  BY <1>1, <1>2, <1>3, <1>4 DEF WatchInv, WatchTypeOK, Hooks, Preferences, Addresses
<1>6. Addressed'
  BY <1>1, <1>2 DEF WatchInv, Addressed, Asks
<1>7. p.slug # Null => p.hidden = stored[p.slug]
  <2>1. CASE hook.state = Null
    BY <2>1 DEF WatchInv, NothingOfElsewhere
  <2>2. CASE hook.state # Null
    BY <2>2 DEF WatchInv, NothingOfElsewhere, setChannelStreams
  <2> QED BY <2>1, <2>2
<1>8. NothingOfElsewhere'
  BY <1>1, <1>4, <1>7 DEF WatchInv, NothingOfElsewhere, Blank, Players, Composed
<1> QED BY <1>5, <1>6, <1>8 DEF WatchInv

LEMMA NavigateStep == ASSUME WatchInv, NEW u \in Addresses \cup {"elsewhere"}, Navigate(u) PROVE WatchInv'
BY MountStep, ChangeUrlStep DEF Navigate

LEMMA AskedStep == ASSUME WatchInv, NEW i \in Polls, PollAnswered(i) PROVE WatchInv'
<1>1. poll[i] \in Loops /\ poll[i].url \in Addresses /\ poll[i].step = "asking"
  BY WatchTypes DEF WatchInv, PollAnswered
<1> DEFINE answer == Current(poll[i].url)
<1>2. /\ poll' = [poll EXCEPT ![i].step = "answered", ![i].answer = answer]
      /\ UNCHANGED <<offers, homepage, route, timer, hook, prefs, stored, listening>>
  BY DEF PollAnswered
<1>3. answer \in Snapshot \cup {Null} /\ (answer # Null => answer.of = poll[i].url)
  <2>1. CASE poll[i].url = "home"
    <3>1. offers["home"] \in Snapshot /\ offers["home"].of = "home"
      BY DEF WatchInv, WatchTypeOK, Addressed, Addresses
    <3> QED BY <2>1, <3>1, NullApart DEF Current, WatchInv, WatchTypeOK, Snapshot
  <2>2. CASE poll[i].url # "home"
    BY <1>1, <2>2 DEF Current, WatchInv, WatchTypeOK, Addressed
  <2> QED BY <2>1, <2>2
<1>4. [poll[i] EXCEPT !.step = "answered", !.answer = answer] \in Loops
  BY <1>1, <1>3 DEF Loops
<1>5. WatchTypeOK'
  BY <1>2, <1>4 DEF WatchInv, WatchTypeOK
<1> HIDE DEF answer
<1>6. Addressed'
  <2>1. ASSUME NEW j \in Polls, poll'[j] # Null, poll'[j].answer # Null PROVE poll'[j].answer.of = poll'[j].url
    <3>1. CASE j = i
      BY <1>1, <1>2, <1>3, <2>1, <3>1 DEF WatchInv, WatchTypeOK, Loops
    <3>2. CASE j # i
      BY <1>2, <2>1, <3>2 DEF WatchInv, Addressed, WatchTypeOK
    <3> QED BY <3>1, <3>2
  <2> QED BY <1>2, <2>1 DEF WatchInv, Addressed
<1>7. NothingOfElsewhere'
  <2>1. \A j \in Polls : (poll'[j] = Null <=> poll[j] = Null) /\ (poll[j] # Null => poll'[j].url = poll[j].url)
    BY <1>1, <1>2, <1>4, NullApart DEF WatchInv, WatchTypeOK, Loops
  <2>2. {poll[j].url : j \in Astray}  = {poll'[j].url : j \in Astray'}
    BY <1>2, <2>1 DEF Astray
  <2> QED BY <1>2, <2>2 DEF WatchInv, NothingOfElsewhere, candidates, Composed, Players
<1> QED BY <1>5, <1>6, <1>7 DEF WatchInv

\* The loops keep their addresses, and so do the answers.
LEMMA SameAstray ==
    ASSUME WatchInv, NEW i \in Polls, poll[i] # Null, NEW next \in {"asking", "answered", "waiting"},
           \/ poll' = [poll EXCEPT ![i].step = next, ![i].answer = Null]
           \/ poll' = [poll EXCEPT ![i].step = next],
           route' = route
    PROVE  /\ poll' \in [Polls -> Loops \cup {Null}]
           /\ \A j \in Polls : poll'[j] # Null /\ poll'[j].answer # Null => poll'[j].answer.of = poll'[j].url
           /\ {poll[j].url : j \in Astray} = {poll'[j].url : j \in Astray'}
<1>1. poll[i] \in Loops /\ poll[i].url \in Addresses
  BY WatchTypes DEF WatchInv
<1>2. /\ [poll[i] EXCEPT !.step = next, !.answer = Null] \in Loops
      /\ [poll[i] EXCEPT !.step = next] \in Loops
  BY <1>1 DEF Loops
<1>3. poll' \in [Polls -> Loops \cup {Null}]
  BY <1>2 DEF WatchInv, WatchTypeOK
<1>4. \A j \in Polls : /\ poll'[j] = Null <=> poll[j] = Null
                       /\ poll[j] # Null => poll'[j].url = poll[j].url
                       /\ poll[j] # Null => poll'[j].answer \in {Null, poll[j].answer}
  BY <1>1, <1>2, NullApart DEF WatchInv, WatchTypeOK, Loops
<1>5. {poll[j].url : j \in Astray} = {poll'[j].url : j \in Astray'}
  BY <1>4 DEF Astray
<1> QED BY <1>3, <1>4, <1>5 DEF WatchInv, Addressed

\* The answer, or the lack of one, is put on the page; the loop waits.
LEMMA PutsOnPage ==
    ASSUME WatchInv, NEW i \in Polls, poll[i] # Null, Waits(i), UNCHANGED <<offers, homepage, route, stored>>,
           NEW h \in Hooks, NEW p \in Preferences, Shows(route, h, p),
           h.state # Null => h.state.of \in {route} \cup {poll[j].url : j \in Astray},
           h.state # Null /\ route \in Slugs => p.slug = route,
           p.slug # Null => p.hidden = stored[p.slug],
           route \notin Slugs => p = NoChannel
    PROVE  WatchInv'
<1>1. poll' = [poll EXCEPT ![i].step = "waiting", ![i].answer = Null]
  BY DEF Waits
<1>2. /\ poll' \in [Polls -> Loops \cup {Null}]
      /\ \A j \in Polls : poll'[j] # Null /\ poll'[j].answer # Null => poll'[j].answer.of = poll'[j].url
      /\ {poll[j].url : j \in Astray} = {poll'[j].url : j \in Astray'}
  BY <1>1, SameAstray
<1>3. hook' = h /\ prefs' = p /\ listening' \in Feeds \cup {Null}
      /\ (listening' # Null => listening' \in candidates(h) /\ Composed(route, h, p) # {})
  BY ShownHeard DEF WatchInv
<1>4. WatchTypeOK'
  BY <1>2, <1>3 DEF WatchInv, WatchTypeOK, Hooks, Preferences
<1>5. Addressed'
  BY <1>2, <1>3 DEF WatchInv, Addressed
<1>6. Players(route, h, p) \cap p.hidden = {}
  BY PlayersAreComposed DEF NoChannel
<1>7. NothingOfElsewhere'
  BY <1>2, <1>3, <1>6 DEF NothingOfElsewhere, candidates, Composed, Players
<1> QED BY <1>4, <1>5, <1>7 DEF WatchInv

LEMMA NotFoundStep == ASSUME WatchInv, NEW i \in Polls, NotFound(i) PROVE WatchInv'
<1> DEFINE h == [hook EXCEPT !.notFound = TRUE, !.error = FALSE]
<1>1. h \in Hooks /\ h.state = hook.state /\ prefs \in Preferences
  BY WatchTypes DEF WatchInv, Hooks
<1>2. /\ poll[i] # Null /\ Waits(i) /\ Shows(route, h, prefs)
      /\ UNCHANGED <<offers, homepage, route, stored>>
  BY DEF NotFound
<1> QED BY <1>1, <1>2, PutsOnPage DEF WatchInv, NothingOfElsewhere, Addressed

LEMMA PollFailsStep == ASSUME WatchInv, NEW i \in Polls, PollFails(i) PROVE WatchInv'
<1> DEFINE h == [hook EXCEPT !.error = TRUE]
<1>1. h \in Hooks /\ h.state = hook.state /\ prefs \in Preferences
  BY WatchTypes DEF WatchInv, Hooks
<1>2. /\ poll[i] # Null /\ Waits(i) /\ Shows(route, h, prefs)
      /\ UNCHANGED <<offers, homepage, route, stored>>
  BY DEF PollFails
<1> QED BY <1>1, <1>2, PutsOnPage DEF WatchInv, NothingOfElsewhere, Addressed

LEMMA ArrivesStep == ASSUME WatchInv, NEW i \in Polls, Arrives(i) PROVE WatchInv'
<1> DEFINE answer == poll[i].answer
           h == [state |-> answer, notFound |-> FALSE, error |-> FALSE]
           p == IF route \in Slugs THEN setChannelStreams(route, answer.live) ELSE prefs
<1>1. /\ poll[i] # Null /\ answer # Null /\ answer \in Snapshot /\ answer.of = poll[i].url
      /\ poll[i].url \in Addresses /\ answer.home \in Slugs \cup {Null} /\ answer.live \in SUBSET Feeds
  BY WatchTypes DEF WatchInv, Addressed, Arrives, Snapshot
<1>2. UNCHANGED <<offers, homepage, stored>>
  BY DEF Arrives
<1>3. CASE route = "home" /\ answer.home # Null
  BY <1>1, <1>2, <1>3, MountStep DEF Arrives, Addresses
<1>4. CASE ~(route = "home" /\ answer.home # Null)
  <2>1. Waits(i) /\ Shows(route, h, p) /\ route' = route
    BY <1>4 DEF Arrives
  <2>2. h \in Hooks /\ h.state = answer
    BY <1>1 DEF Hooks
  <2>3. /\ p \in Preferences /\ (route \in Slugs => p.slug = route)
        /\ p.slug # Null => p.hidden = stored[p.slug]
        /\ route \notin Slugs => p = NoChannel
    BY <1>1, WatchTypes, ListedTypes DEF WatchInv, NothingOfElsewhere, Addressed
  <2>4. answer.of \in {route} \cup {poll[j].url : j \in Astray}
    BY <1>1 DEF Astray
  <2> QED BY <1>1, <1>2, <2>1, <2>2, <2>3, <2>4, PutsOnPage
<1> QED BY <1>3, <1>4

LEMMA FiresStep == ASSUME WatchInv, NEW i \in Polls, Fires(i) PROVE WatchInv'
<1>1. /\ poll[i] # Null /\ poll' = [poll EXCEPT ![i].step = "asking"]
      /\ UNCHANGED <<offers, homepage, route, timer, hook, prefs, stored, listening>>
  BY DEF Fires
<1>2. /\ poll' \in [Polls -> Loops \cup {Null}]
      /\ \A j \in Polls : poll'[j] # Null /\ poll'[j].answer # Null => poll'[j].answer.of = poll'[j].url
      /\ {poll[j].url : j \in Astray} = {poll'[j].url : j \in Astray'}
  BY <1>1, SameAstray
<1> QED BY <1>1, <1>2 DEF WatchInv, WatchTypeOK, Addressed, NothingOfElsewhere, candidates, Composed, Players

LEMMA OffersStep == ASSUME WatchInv, OffersChange PROVE WatchInv'
<1>1. UNCHANGED <<route, poll, timer, hook, prefs, stored, listening>>
  BY DEF OffersChange
<1> DEFINE Typed == offers' \in [Addresses -> Snapshot \cup {Null}] /\ homepage' \in Slugs \cup {Null}
           Right == offers'["home"] # Null /\ \A u \in Addresses : offers'[u] # Null => offers'[u].of = u
<1>2. Typed /\ Right
  <2>1. ASSUME NEW u \in Addresses, NEW s \in Feeds, offers[u] # Null, UNCHANGED homepage,
               \/ offers' = [offers EXCEPT ![u].live = Toggle(@, s)]
               \/ offers' = [offers EXCEPT ![u].closed = Toggle(@, s)]
        PROVE  Typed /\ Right
    <3>1. offers[u] \in Snapshot /\ offers[u].of = u
      BY <2>1 DEF WatchInv, WatchTypeOK, Addressed
    <3>2. PICK o \in Snapshot : o.of = u /\ offers' = [offers EXCEPT ![u] = o]
      <4>1. /\ [offers[u] EXCEPT !.live = Toggle(@, s)] \in Snapshot
            /\ [offers[u] EXCEPT !.live = Toggle(@, s)].of = u
        BY <3>1 DEF Snapshot, Toggle
      <4>2. /\ [offers[u] EXCEPT !.closed = Toggle(@, s)] \in Snapshot
            /\ [offers[u] EXCEPT !.closed = Toggle(@, s)].of = u
        BY <3>1 DEF Snapshot, Toggle
      <4>3. \/ offers' = [offers EXCEPT ![u] = [offers[u] EXCEPT !.live = Toggle(@, s)]]
            \/ offers' = [offers EXCEPT ![u] = [offers[u] EXCEPT !.closed = Toggle(@, s)]]
        BY <2>1
      <4> QED BY <4>1, <4>2, <4>3
    <3>3. Typed
      BY <2>1, <3>2 DEF WatchInv, WatchTypeOK
    <3>4. o # Null /\ offers'[u] = o
      BY <3>2, NullApart DEF WatchInv, WatchTypeOK
    <3>5. \A v \in Addresses \ {u} : offers'[v] = offers[v]
      BY <3>2 DEF WatchInv, WatchTypeOK
    <3>6. "home" \in Addresses
      BY DEF Addresses
    <3> QED BY <3>2, <3>3, <3>4, <3>5, <3>6 DEF WatchInv, Addressed
  <2>2. ASSUME NEW u \in Slugs, offers' = [offers EXCEPT ![u] = Null], UNCHANGED homepage
        PROVE  Typed /\ Right
    <3>1. u \in Addresses /\ u # "home"
      BY SlugsApart DEF Addresses
    <3> QED BY <2>2, <3>1 DEF WatchInv, WatchTypeOK, Addressed
  <2>3. ASSUME NEW u \in Slugs \cup {Null}, homepage' = u, UNCHANGED offers
        PROVE  Typed /\ Right
    BY <2>3 DEF WatchInv, WatchTypeOK, Addressed
  <2> QED BY <2>1, <2>2, <2>3 DEF OffersChange
<1> QED BY <1>1, <1>2, SameGrid DEF WatchInv, WatchTypeOK, Addressed

LEMMA WatchNextInv == WatchInv /\ [WatchNext]_watchVars => WatchInv'
<1> SUFFICES ASSUME WatchInv, [WatchNext]_watchVars PROVE WatchInv'
  OBVIOUS
<1>1. CASE UNCHANGED watchVars
  BY <1>1, SameGrid DEF watchVars, WatchInv, WatchTypeOK, Addressed
<1>2. CASE WatchNext
  BY <1>2, HiddenStep, SpotlightStep, SoundStep, ResetStep, NavigateStep, AskedStep, NotFoundStep, ArrivesStep,
     PollFailsStep, FiresStep, OffersStep DEF WatchNext
<1> QED BY <1>1, <1>2

\* usePolledState.ts, ChannelPrefsContext.tsx, PlayerOverlay.tsx: what is on the
\* page is of the address that is open, or of one whose poll was under way when
\* it was left; what is hidden is what was hidden in this channel; and nobody
\* hears a source that cannot be picked.
THEOREM WatchSafe == WatchInit /\ [][WatchNext]_watchVars => []WatchInv
BY WatchInitInv, WatchNextInv, PTL

-----------------------------------------------------------------------------
(* The layouts.  Every cell but that of a source alone in the spotlight is *)
(* clamped into the canvas onto even pixels, so that what must be shown is *)
(* that the cells are there, of even size and apart: rows and columns do   *)
(* not overlap because each one starts where the one before ends.          *)

EvenCanvas(c) ==
    /\ c.width \in Nat /\ c.height \in Nat /\ c.gap \in Nat
    /\ c.width >= 2 /\ c.height >= 2 /\ c.width % 2 = 0 /\ c.height % 2 = 0

\* Quotient and remainder.
LEMMA Division ==
    ASSUME NEW n \in Int, NEW k \in Nat \ {0}
    PROVE  /\ n \div k \in Int /\ n % k \in 0 .. k - 1
           /\ n = k * (n \div k) + (n % k)
           /\ n >= 0 => n \div k >= 0
OBVIOUS

LEMMA Products ==
    ASSUME NEW a \in Int, NEW b \in Int, NEW k \in Nat, a <= b
    PROVE  a * k <= b * k /\ k * a <= k * b
OBVIOUS

LEMMA HalvedDown ==
    ASSUME NEW n \in Int, NEW k \in Nat \ {0}, NEW min \in {0, 2}
    PROVE  /\ HalfDown(n, k, min) \in Nat /\ HalfDown(n, k, min) % 2 = 0 /\ HalfDown(n, k, min) >= min
           /\ n >= k * min => k * HalfDown(n, k, min) <= n
           /\ n < k * 2 => HalfDown(n, k, 2) = 2
<1> DEFINE q == n \div (2 * k)
           r == n % (2 * k)
<1>1. q \in Int /\ r \in 0 .. 2 * k - 1 /\ n = 2 * k * q + r
  <2>1. 2 * k \in Nat \ {0}
    OBVIOUS
  <2> HIDE DEF q, r
  <2> QED BY <2>1, Division DEF q, r
<1> HIDE DEF q, r
<1>2. HalfDown(n, k, min) = Most(min, 2 * q) /\ HalfDown(n, k, 2) = Most(2, 2 * q)
  BY DEF HalfDown, q
<1>3. ASSUME n >= k * min PROVE k * Most(min, 2 * q) <= n
  <2>1. CASE min > 2 * q
    BY <1>1, <1>3, <2>1 DEF Most
  <2>2. CASE min <= 2 * q
    BY <1>1, <2>2 DEF Most
  <2> QED BY <2>1, <2>2, <1>1
<1>4. ASSUME n < k * 2 PROVE q < 1
  <2>1. SUFFICES ASSUME q >= 1 PROVE FALSE
    BY <1>1
  <2>2. 1 * (2 * k) <= q * (2 * k)
    BY <1>1, <2>1, Products
  <2> QED BY <1>1, <1>4, <2>2
<1>5. Most(min, 2 * q) \in Nat /\ Most(min, 2 * q) % 2 = 0 /\ Most(min, 2 * q) >= min
  BY <1>1 DEF Most
<1> QED BY <1>1, <1>2, <1>3, <1>4, <1>5 DEF Most

LEMMA Evened ==
    ASSUME NEW n \in Nat
    PROVE  /\ even(n, 0) \in Nat /\ even(n, 0) % 2 = 0 /\ even(n, 0) <= n /\ n <= even(n, 0) + 1
           /\ n % 2 = 0 => even(n, 0) = n
BY DEF even, HalfDown, Most

LEMMA EvenApart ==
    ASSUME NEW x \in Nat, NEW w \in Nat, NEW y \in Nat, w % 2 = 0, x + w <= y
    PROVE  even(x, 0) + w <= even(y, 0)
BY DEF even, HalfDown, Most

IsCell(cell) ==
    /\ cell.x \in Int /\ cell.y \in Int /\ cell.w \in Nat /\ cell.h \in Nat
    /\ cell.w > 0 /\ cell.h > 0 /\ cell.w % 2 = 0 /\ cell.h % 2 = 0

\* One coordinate of clampToCanvas.
PutAt(x, w, width) == even(Most(0, Least(x, width - Least(w, width))), 0)

LEMMA AtInside ==
    ASSUME NEW x \in Int, NEW w \in Nat, NEW width \in Nat, w > 0, w % 2 = 0, width >= 2, width % 2 = 0
    PROVE  /\ PutAt(x, w, width) \in Nat /\ PutAt(x, w, width) + Least(w, width) <= width
           /\ PutAt(x, w, width) % 2 = 0
           /\ Least(w, width) > 0 /\ Least(w, width) % 2 = 0 /\ Least(w, width) \in Nat
<1> DEFINE m == Most(0, Least(x, width - Least(w, width)))
<1>1. m \in Nat /\ m <= width - Least(w, width) /\ Least(w, width) \in Nat
  BY DEF Most, Least
<1> HIDE DEF m
<1>2. even(m, 0) \in Nat /\ even(m, 0) <= m /\ even(m, 0) % 2 = 0
  BY <1>1, Evened
<1>3. Least(w, width) > 0 /\ Least(w, width) % 2 = 0
  BY DEF Least
<1> QED BY <1>1, <1>2, <1>3 DEF PutAt, m

LEMMA AtFits ==
    ASSUME NEW x \in Nat, NEW w \in Nat, NEW width \in Nat, x + w <= width
    PROVE  PutAt(x, w, width) = even(x, 0) /\ Least(w, width) = w
<1>1. Least(w, width) = w /\ Least(x, width - w) = x /\ Most(0, x) = x
  BY DEF Most, Least
<1> QED BY <1>1 DEF PutAt

LEMMA Clamped ==
    ASSUME NEW cell, NEW width, NEW height
    PROVE  clampToCanvas(cell, width, height) =
             [x |-> PutAt(cell.x, cell.w, width), y |-> PutAt(cell.y, cell.h, height),
              w |-> Least(cell.w, width), h |-> Least(cell.h, height)]
BY DEF clampToCanvas, PutAt

LEMMA ClampInside ==
    ASSUME NEW c, EvenCanvas(c), NEW cell, IsCell(cell)
    PROVE  Inside(clampToCanvas(cell, c.width, c.height), c)
<1>1. /\ PutAt(cell.x, cell.w, c.width) \in Nat /\ PutAt(cell.x, cell.w, c.width) + Least(cell.w, c.width) <= c.width
      /\ PutAt(cell.x, cell.w, c.width) % 2 = 0
      /\ Least(cell.w, c.width) > 0 /\ Least(cell.w, c.width) % 2 = 0 /\ Least(cell.w, c.width) \in Nat
  BY AtInside DEF EvenCanvas, IsCell
<1>2. /\ PutAt(cell.y, cell.h, c.height) \in Nat /\ PutAt(cell.y, cell.h, c.height) + Least(cell.h, c.height) <= c.height
      /\ PutAt(cell.y, cell.h, c.height) % 2 = 0
      /\ Least(cell.h, c.height) > 0 /\ Least(cell.h, c.height) % 2 = 0 /\ Least(cell.h, c.height) \in Nat
  BY AtInside DEF EvenCanvas, IsCell
<1> QED BY <1>1, <1>2, Clamped DEF Inside, OnCanvas

Beside(a, b, width) == a.x >= 0 /\ a.x + a.w <= b.x /\ b.x + b.w <= width
Above(a, b, height) == a.y >= 0 /\ a.y + a.h <= b.y /\ b.y + b.h <= height

LEMMA AtApart ==
    ASSUME NEW x \in Int, NEW w \in Nat, NEW y \in Int, NEW v \in Nat, NEW width \in Nat,
           w % 2 = 0, x >= 0, x + w <= y, y + v <= width
    PROVE  PutAt(x, w, width) + Least(w, width) <= PutAt(y, v, width)
<1>1. x \in Nat /\ y \in Nat /\ x + w <= width
  OBVIOUS
<1>2. PutAt(x, w, width) = even(x, 0) /\ Least(w, width) = w /\ PutAt(y, v, width) = even(y, 0)
  BY <1>1, AtFits
<1> QED BY <1>1, <1>2, EvenApart

LEMMA ClampApart ==
    ASSUME NEW c, EvenCanvas(c), NEW a, IsCell(a), NEW b, IsCell(b),
           Beside(a, b, c.width) \/ Beside(b, a, c.width) \/ Above(a, b, c.height) \/ Above(b, a, c.height)
    PROVE  Apart(clampToCanvas(a, c.width, c.height), clampToCanvas(b, c.width, c.height))
<1>1. Beside(a, b, c.width) => PutAt(a.x, a.w, c.width) + Least(a.w, c.width) <= PutAt(b.x, b.w, c.width)
  BY AtApart DEF Beside, EvenCanvas, IsCell
<1>2. Beside(b, a, c.width) => PutAt(b.x, b.w, c.width) + Least(b.w, c.width) <= PutAt(a.x, a.w, c.width)
  BY AtApart DEF Beside, EvenCanvas, IsCell
<1>3. Above(a, b, c.height) => PutAt(a.y, a.h, c.height) + Least(a.h, c.height) <= PutAt(b.y, b.h, c.height)
  BY AtApart DEF Above, EvenCanvas, IsCell
<1>4. Above(b, a, c.height) => PutAt(b.y, b.h, c.height) + Least(b.h, c.height) <= PutAt(a.y, a.h, c.height)
  BY AtApart DEF Above, EvenCanvas, IsCell
<1> QED BY <1>1, <1>2, <1>3, <1>4, Clamped DEF Apart

\* Cells in a line, a gutter between them.
LEMMA LineApart ==
    ASSUME NEW x \in Int, NEW g \in Nat, NEW w \in Nat, NEW p \in Nat, NEW q \in Nat, p < q
    PROVE  x + p * (w + g) + w <= x + q * (w + g)
<1>1. (p + 1) * (w + g) <= q * (w + g)
  BY Products
<1> QED BY <1>1

LEMMA LineFits ==
    ASSUME NEW x \in Nat, NEW g \in Nat, NEW w \in Nat, NEW p \in Nat, NEW n \in Nat, NEW width \in Nat,
           p < n, x + n * w + (n - 1) * g <= width
    PROVE  x + p * (w + g) \in Nat /\ x + p * (w + g) + w <= width
<1>1. (p + 1) * (w + g) <= n * (w + g)
  BY Products
<1>2. p * (w + g) \in Nat
  OBVIOUS
<1> QED BY <1>1, <1>2

\* The rows are filled from the top, the places of each from the left.
LEMMA Distributed ==
    ASSUME NEW count \in Nat \ {0}, NEW rows \in 1 .. count
    PROVE  LET base == count \div rows
               rem == count % rows
           IN  /\ base \in Nat /\ base >= 1 /\ base <= count /\ rem \in 0 .. rows - 1 /\ count = rows * base + rem
               /\ \A r \in 0 .. rows - 1 : distribute(count, rows)[r] = base + (IF r < rem THEN 1 ELSE 0)
<1> DEFINE base == count \div rows
           rem == count % rows
<1>1. base \in Int /\ rem \in 0 .. rows - 1 /\ count = rows * base + rem
  BY Division
<1>2. \A r \in 0 .. rows - 1 : distribute(count, rows)[r] = base + (IF r < rem THEN 1 ELSE 0)
  BY DEF distribute
<1> HIDE DEF base, rem
<1>3. base >= 1
  <2>1. SUFFICES ASSUME base <= 0 PROVE FALSE
    BY <1>1
  <2>2. rows * base <= rows * 0
    BY <1>1, <2>1, Products
  <2> QED BY <1>1, <2>2
<1>4. base <= count
  <2>1. 1 * base <= rows * base
    BY <1>1, <1>3, Products
  <2> QED BY <1>1, <2>1
<1> QED BY <1>1, <1>2, <1>3, <1>4 DEF base, rem

\* A place is one of its row, and no two sources have the same.
LEMMA Placed ==
    ASSUME NEW count \in Nat \ {0}, NEW rows \in 1 .. count, NEW i \in 0 .. count - 1
    PROVE  /\ RowOf(i, count, rows) \in 0 .. rows - 1 /\ PlaceOf(i, count, rows) \in Nat
           /\ PlaceOf(i, count, rows) < distribute(count, rows)[RowOf(i, count, rows)]
           /\ LET base == count \div rows
                  rem == count % rows
                  r == RowOf(i, count, rows)
              IN  i = IF r < rem THEN (base + 1) * r + PlaceOf(i, count, rows)
                                 ELSE rem * (base + 1) + base * (r - rem) + PlaceOf(i, count, rows)
<1> DEFINE base == count \div rows
           rem == count % rows
           long == rem * (base + 1)
           r == RowOf(i, count, rows)
           p == PlaceOf(i, count, rows)
<1>1. /\ base \in Nat /\ base >= 1 /\ rem \in 0 .. rows - 1 /\ count = rows * base + rem
      /\ \A row \in 0 .. rows - 1 : distribute(count, rows)[row] = base + (IF row < rem THEN 1 ELSE 0)
  BY Distributed
<1>2. /\ r = IF i < long THEN i \div (base + 1) ELSE rem + (i - long) \div base
      /\ p = IF i < long THEN i % (base + 1) ELSE (i - long) % base
  BY DEF RowOf, PlaceOf
<1> HIDE DEF base, rem, r, p
<1>3. CASE i < long
  <2>1. /\ r \in Int /\ r >= 0 /\ p \in 0 .. base /\ i = (base + 1) * r + p
    <3> DEFINE k == base + 1
    <3>1. k \in Nat \ {0} /\ i \in Int /\ i >= 0 /\ r = i \div k /\ p = i % k
      BY <1>1, <1>2, <1>3
    <3> HIDE DEF k
    <3>2. r \in Int /\ r >= 0 /\ p \in 0 .. k - 1 /\ i = k * r + p
      BY <3>1, Division
    <3> QED BY <1>1, <3>2 DEF k
  <2>2. r < rem
    <3>1. SUFFICES ASSUME r >= rem PROVE FALSE
      BY <1>1, <2>1
    <3>2. (base + 1) * rem <= (base + 1) * r
      BY <1>1, <2>1, <3>1, Products
    <3> QED BY <1>1, <1>3, <2>1, <3>2
  <2>3. r \in 0 .. rows - 1 /\ p \in Nat /\ p < distribute(count, rows)[r]
    BY <1>1, <2>1, <2>2
  <2> QED BY <2>1, <2>2, <2>3 DEF r, p, base, rem
<1>4. CASE ~(i < long)
  <2> DEFINE q == (i - long) \div base
  <2>1. long \in Int /\ i - long \in Int /\ i - long >= 0
    BY <1>1, <1>4
  <2>2. q \in Int /\ q >= 0 /\ p \in 0 .. base - 1 /\ i - long = base * q + p /\ r = rem + q
    <3>1. base \in Nat \ {0} /\ p = (i - long) % base /\ r = rem + q
      BY <1>1, <1>2, <1>4
    <3> HIDE DEF long
    <3> QED BY <2>1, <3>1, Division
  <2> HIDE DEF q
  <2>3. q < rows - rem
    <3>1. SUFFICES ASSUME q >= rows - rem PROVE FALSE
      BY <1>1, <2>2
    <3>2. base * (rows - rem) <= base * q
      BY <1>1, <2>2, <3>1, Products
    <3>3. i >= long + base * (rows - rem)
      BY <1>1, <2>1, <2>2, <3>2
    <3>4. long + base * (rows - rem) = count
      BY <1>1
    <3> QED BY <3>3, <3>4
  <2>4. r \in 0 .. rows - 1 /\ r >= rem /\ p \in Nat /\ p < distribute(count, rows)[r]
    BY <1>1, <2>2, <2>3
  <2>5. i = rem * (base + 1) + base * (r - rem) + p
    BY <1>1, <2>2, <2>1
  <2> QED BY <2>4, <2>5, <1>1 DEF r, p, base, rem
<1> QED BY <1>3, <1>4

LEMMA PlacedOnce ==
    ASSUME NEW count \in Nat \ {0}, NEW rows \in 1 .. count, NEW i \in 0 .. count - 1, NEW j \in 0 .. count - 1,
           RowOf(i, count, rows) = RowOf(j, count, rows), PlaceOf(i, count, rows) = PlaceOf(j, count, rows)
    PROVE  i = j
BY Placed

LEMMA GridComposes ==
    ASSUME NEW count \in Nat \ {0}, NEW rows \in 1 .. count, NEW c, EvenCanvas(c)
    PROVE  /\ Composes(gridCells(count, c, rows), count, c)
           /\ \A i \in 0 .. count - 1 : gridCells(count, c, rows)[i].w \in Nat /\ gridCells(count, c, rows)[i].h \in Nat
<1> DEFINE perRow == distribute(count, rows)
           maxPerRow == perRow[0]
           cellW == HalfDown(c.width - c.gap * (maxPerRow + 1), maxPerRow, 2)
           cellH == HalfDown(c.height - c.gap * (rows + 1), rows, 2)
           offsetY == HalfDown(c.height - (cellH * rows + c.gap * (rows + 1)), 2, 0)
           left(r) == HalfDown(c.width - (cellW * perRow[r] + c.gap * (perRow[r] - 1)), 2, 0)
           row(i) == RowOf(i, count, rows)
           place(i) == PlaceOf(i, count, rows)
           raw(i) == [x |-> left(row(i)) + place(i) * (cellW + c.gap),
                      y |-> c.gap + offsetY + row(i) * (cellH + c.gap),
                      w |-> cellW, h |-> cellH]
           cells == gridCells(count, c, rows)
<1>0. cells = [i \in 0 .. count - 1 |-> clampToCanvas(raw(i), c.width, c.height)]
  BY DEF gridCells
<1>1. c.width \in Nat /\ c.height \in Nat /\ c.gap \in Nat
  BY DEF EvenCanvas
<1>2. /\ maxPerRow \in Nat \ {0} /\ maxPerRow <= count
      /\ \A r \in 0 .. rows - 1 : perRow[r] \in Nat \ {0} /\ perRow[r] <= maxPerRow
  <2> DEFINE base == count \div rows
             rem == count % rows
  <2>1. /\ base \in Nat /\ base >= 1 /\ base <= count /\ rem \in 0 .. rows - 1 /\ count = rows * base + rem
        /\ \A r \in 0 .. rows - 1 : perRow[r] = base + (IF r < rem THEN 1 ELSE 0)
    BY Distributed
  <2> HIDE DEF base, rem, perRow
  <2>2. 0 \in 0 .. rows - 1
    OBVIOUS
  <2>3. 1 * base <= rows * base
    BY <2>1, Products
  <2>4. maxPerRow = base + (IF 0 < rem THEN 1 ELSE 0)
    BY <2>1, <2>2
  <2>5. maxPerRow \in Nat \ {0} /\ maxPerRow <= count
    BY <2>1, <2>3, <2>4
  <2> QED BY <2>1, <2>4, <2>5
<1>3. \A i \in 0 .. count - 1 : row(i) \in 0 .. rows - 1 /\ place(i) \in Nat /\ place(i) < perRow[row(i)]
  BY Placed
<1>4. \A i, j \in 0 .. count - 1 : row(i) = row(j) /\ place(i) = place(j) => i = j
  BY PlacedOnce
<1> HIDE DEF row, place, perRow
<1>5. /\ cellW \in Nat /\ cellW % 2 = 0 /\ cellW >= 2
      /\ c.width - c.gap * (maxPerRow + 1) >= maxPerRow * 2 => maxPerRow * cellW <= c.width - c.gap * (maxPerRow + 1)
  <2>1. c.width - c.gap * (maxPerRow + 1) \in Int
    BY <1>1, <1>2
  <2> QED BY <1>2, <2>1, HalvedDown
<1>6. /\ cellH \in Nat /\ cellH % 2 = 0 /\ cellH >= 2
      /\ c.height - c.gap * (rows + 1) >= rows * 2 => rows * cellH <= c.height - c.gap * (rows + 1)
  <2>1. c.height - c.gap * (rows + 1) \in Int /\ rows \in Nat \ {0}
    BY <1>1
  <2> QED BY <2>1, HalvedDown
<1> HIDE DEF cellW, cellH
<1>7. /\ offsetY \in Nat
      /\ c.height - (cellH * rows + c.gap * (rows + 1)) >= 0
           => 2 * offsetY <= c.height - (cellH * rows + c.gap * (rows + 1))
  <2>1. c.height - (cellH * rows + c.gap * (rows + 1)) \in Int
    BY <1>1, <1>6
  <2> QED BY <2>1, HalvedDown
<1>8. \A r \in 0 .. rows - 1 :
        /\ left(r) \in Nat
        /\ c.width - (cellW * perRow[r] + c.gap * (perRow[r] - 1)) >= 0
             => 2 * left(r) <= c.width - (cellW * perRow[r] + c.gap * (perRow[r] - 1))
  <2> TAKE r \in 0 .. rows - 1
  <2>1. c.width - (cellW * perRow[r] + c.gap * (perRow[r] - 1)) \in Int
    BY <1>1, <1>2, <1>5
  <2> QED BY <2>1, HalvedDown
<1> HIDE DEF offsetY, left
<1>9. \A i \in 0 .. count - 1 : IsCell(raw(i))
  <2> TAKE i \in 0 .. count - 1
  <2>1. row(i) \in 0 .. rows - 1 /\ place(i) \in Nat /\ left(row(i)) \in Nat
    BY <1>3, <1>8
  <2>2. place(i) * (cellW + c.gap) \in Int /\ row(i) * (cellH + c.gap) \in Int
    BY <1>1, <1>5, <1>6, <2>1
  <2> QED BY <1>1, <1>5, <1>6, <1>7, <2>1, <2>2 DEF IsCell
<1>10. \A i \in DOMAIN cells : Inside(cells[i], c)
  <2> HIDE DEF raw
  <2> QED BY <1>0, <1>9, ClampInside
<1>11. ASSUME Room(c, count), NEW i \in 0 .. count - 1, NEW j \in 0 .. count - 1, i # j
       PROVE  Apart(cells[i], cells[j])
  <2>1. c.width >= 2 * count + c.gap * (count + 3) + 220 /\ c.height >= 4 * count + c.gap * (count + 1)
    BY <1>11 DEF Room
  <2>2. maxPerRow * cellW <= c.width - c.gap * (maxPerRow + 1)
    <3>1. c.gap * (maxPerRow + 1) <= c.gap * (count + 1)
      BY <1>1, <1>2, Products
    <3>2. c.gap * (count + 1) <= c.gap * (count + 3)
      BY <1>1, Products
    <3> QED BY <1>1, <1>2, <1>5, <2>1, <3>1, <3>2
  <2>3. rows * cellH <= c.height - c.gap * (rows + 1)
    <3>1. c.gap * (rows + 1) <= c.gap * (count + 1)
      BY <1>1, Products
    <3> QED BY <1>1, <1>6, <2>1, <3>1
  <2>4. \A r \in 0 .. rows - 1 : left(r) + perRow[r] * cellW + (perRow[r] - 1) * c.gap <= c.width
    <3> TAKE r \in 0 .. rows - 1
    <3>1. perRow[r] * cellW <= maxPerRow * cellW /\ c.gap * (perRow[r] - 1) <= c.gap * (maxPerRow + 1)
      BY <1>1, <1>2, <1>5, Products
    <3> DEFINE used == cellW * perRow[r] + c.gap * (perRow[r] - 1)
    <3>2. used \in Int /\ used = perRow[r] * cellW + (perRow[r] - 1) * c.gap
      BY <1>1, <1>2, <1>5
    <3>3. used <= c.width
      BY <1>1, <1>2, <1>5, <2>2, <3>1, <3>2
    <3>4. left(r) \in Nat /\ (c.width - used >= 0 => 2 * left(r) <= c.width - used)
      BY <1>8
    <3> HIDE DEF used
    <3>5. left(r) + used <= c.width
      BY <1>1, <3>2, <3>3, <3>4
    <3> QED BY <1>1, <1>2, <1>5, <3>2, <3>4, <3>5
  <2>5. c.gap + offsetY + rows * cellH + (rows - 1) * c.gap <= c.height
    <3> DEFINE used == cellH * rows + c.gap * (rows + 1)
    <3>1. used \in Int /\ used = c.gap + rows * cellH + (rows - 1) * c.gap + c.gap
      BY <1>1, <1>6
    <3>2. used <= c.height
      BY <1>1, <1>6, <2>3
    <3>3. offsetY \in Nat /\ (c.height - used >= 0 => 2 * offsetY <= c.height - used)
      BY <1>7
    <3>4. rows * cellH \in Int /\ (rows - 1) * c.gap \in Int
      BY <1>1, <1>6
    <3> HIDE DEF used
    <3> QED BY <1>1, <3>1, <3>2, <3>3, <3>4
  <2>6. \A m \in 0 .. count - 1 : /\ raw(m).x \in Nat /\ raw(m).x + raw(m).w <= c.width
                                  /\ raw(m).y \in Nat /\ raw(m).y + raw(m).h <= c.height
    <3> TAKE m \in 0 .. count - 1
    <3>1. row(m) \in 0 .. rows - 1 /\ place(m) \in Nat /\ place(m) < perRow[row(m)]
      BY <1>3
    <3>2. perRow[row(m)] \in Nat /\ left(row(m)) \in Nat
          /\ left(row(m)) + perRow[row(m)] * cellW + (perRow[row(m)] - 1) * c.gap <= c.width
      BY <1>2, <1>8, <2>4, <3>1
    <3>3. left(row(m)) + place(m) * (cellW + c.gap) \in Nat
          /\ left(row(m)) + place(m) * (cellW + c.gap) + cellW <= c.width
      BY <1>1, <1>5, <3>1, <3>2, LineFits
    <3>4. c.gap + offsetY \in Nat /\ row(m) \in Nat /\ rows \in Nat /\ row(m) < rows
      BY <1>1, <1>7, <3>1
    <3>5. c.gap + offsetY + row(m) * (cellH + c.gap) \in Nat
          /\ c.gap + offsetY + row(m) * (cellH + c.gap) + cellH <= c.height
      BY <1>1, <1>6, <2>5, <3>4, LineFits
    <3> QED BY <3>3, <3>5
  <2>7. \A m, n \in 0 .. count - 1 :
          /\ row(m) < row(n) => Above(raw(m), raw(n), c.height)
          /\ row(m) = row(n) /\ place(m) < place(n) => Beside(raw(m), raw(n), c.width)
    <3> TAKE m \in 0 .. count - 1, n \in 0 .. count - 1
    <3>1. row(m) \in Nat /\ row(n) \in Nat /\ place(m) \in Nat /\ place(n) \in Nat /\ left(row(m)) \in Int
          /\ c.gap + offsetY \in Int
      BY <1>1, <1>3, <1>7, <1>8
    <3>2. row(m) < row(n) => c.gap + offsetY + row(m) * (cellH + c.gap) + cellH <= c.gap + offsetY + row(n) * (cellH + c.gap)
      BY <1>1, <1>6, <3>1, LineApart
    <3>3. place(m) < place(n) =>
             left(row(m)) + place(m) * (cellW + c.gap) + cellW <= left(row(m)) + place(n) * (cellW + c.gap)
      BY <1>1, <1>5, <3>1, LineApart
    <3>4. row(m) < row(n) => raw(m).y + raw(m).h <= raw(n).y
      BY <3>2
    <3>5. row(m) = row(n) /\ place(m) < place(n) => raw(m).x + raw(m).w <= raw(n).x
      BY <3>3
    <3> HIDE DEF raw
    <3> QED BY <2>6, <3>4, <3>5 DEF Above, Beside
  <2>8. IsCell(raw(i)) /\ IsCell(raw(j))
    BY <1>9
  <2> HIDE DEF raw
  <2>9. \/ row(i) < row(j) \/ row(j) < row(i)
        \/ row(i) = row(j) /\ (place(i) < place(j) \/ place(j) < place(i))
    BY <1>3, <1>4, <1>11
  <2>10. \/ Beside(raw(i), raw(j), c.width) \/ Beside(raw(j), raw(i), c.width)
         \/ Above(raw(i), raw(j), c.height) \/ Above(raw(j), raw(i), c.height)
    BY <2>7, <2>9
  <2> QED BY <1>0, <2>8, <2>10, ClampApart
<1>12. DOMAIN cells = 0 .. count - 1
  BY <1>0
<1>13. Room(c, count) => \A i, j \in DOMAIN cells : i # j => Apart(cells[i], cells[j])
  <2> HIDE DEF cells
  <2> QED BY <1>11, <1>12
<1>14. \A i \in 0 .. count - 1 : cells[i].w \in Nat /\ cells[i].h \in Nat
  <2> TAKE i \in 0 .. count - 1
  <2>1. cells[i].w = Least(raw(i).w, c.width) /\ cells[i].h = Least(raw(i).h, c.height)
    <3> HIDE DEF raw
    <3> QED BY <1>0, Clamped
  <2>2. raw(i).w \in Nat /\ raw(i).h \in Nat
    BY <1>9 DEF IsCell
  <2> HIDE DEF raw, cells
  <2> QED BY <1>1, <2>1, <2>2 DEF Least
<1> HIDE DEF cells
<1>15. Composes(cells, count, c)
  BY <1>10, <1>12, <1>13 DEF Composes
<1> QED BY <1>14, <1>15 DEF cells

LEMMA SpotlightAlone ==
    ASSUME NEW c, EvenCanvas(c), c.width >= 2 * c.gap + 2, c.height >= 2 * c.gap + 2
    PROVE  LET cells == spotlightCells(1, c)
           IN  /\ DOMAIN cells = {0} /\ OnCanvas(cells[0], c)
               /\ c.gap % 2 = 0 => Composes(cells, 1, c)
<1> DEFINE alone == [x |-> c.gap, y |-> c.gap,
                     w |-> even(c.width - c.gap * 2, 2), h |-> even(c.height - c.gap * 2, 2)]
           cells == spotlightCells(1, c)
<1>1. cells = [i \in {0} |-> alone]
  BY DEF spotlightCells
<1>2. DOMAIN cells = 0 .. 1 - 1 /\ DOMAIN cells = {0} /\ \A i \in DOMAIN cells : i = 0 /\ cells[i] = alone
  BY <1>1
<1>3. c.width \in Nat /\ c.height \in Nat /\ c.gap \in Nat
  BY DEF EvenCanvas
<1>4. ASSUME NEW n \in Nat, n >= 2 * c.gap + 2
      PROVE  /\ even(n - c.gap * 2, 2) \in Nat /\ even(n - c.gap * 2, 2) % 2 = 0 /\ even(n - c.gap * 2, 2) >= 2
             /\ even(n - c.gap * 2, 2) <= n - c.gap * 2
  BY <1>3, <1>4 DEF even, HalfDown, Most
<1>5. OnCanvas(alone, c)
  BY <1>3, <1>4 DEF OnCanvas
<1>6. c.gap % 2 = 0 => Inside(alone, c)
  BY <1>5 DEF Inside
<1> QED BY <1>2, <1>5, <1>6 DEF Composes

LEMMA SpotlightComposes ==
    ASSUME NEW count \in Nat, count > 1, NEW c, EvenCanvas(c)
    PROVE  Composes(spotlightCells(count, c), count, c)
<1> DEFINE sideCount == count - 1
           sideW == 2 * (Most(22 * c.width, 22000) \div 200)
           mainW == even(c.width - sideW - c.gap * 3, 2)
           mainH == even(c.height - c.gap * 2, 2)
           sideH == HalfDown(c.height - c.gap * (sideCount + 1), sideCount, 2)
           main == [x |-> c.gap, y |-> c.gap, w |-> mainW, h |-> mainH]
           side(i) == [x |-> c.gap * 2 + mainW, y |-> c.gap + (i - 1) * (sideH + c.gap), w |-> sideW, h |-> sideH]
           raw(i) == IF i = 0 THEN main ELSE side(i)
           cells == spotlightCells(count, c)
<1>1. c.width \in Nat /\ c.height \in Nat /\ c.gap \in Nat
  BY DEF EvenCanvas
<1>3. CASE count > 1
  <2>0. cells = [i \in 0 .. count - 1 |-> clampToCanvas(raw(i), c.width, c.height)]
    BY <1>3 DEF spotlightCells
  <2>1. sideW \in Nat /\ sideW % 2 = 0 /\ sideW >= 2
    BY <1>1 DEF Most
  <2>2. mainW \in Nat /\ mainW % 2 = 0 /\ mainW >= 2
    <3> HIDE DEF sideW
    <3> QED BY <1>1, <2>1 DEF even, HalfDown, Most
  <2>3. mainH \in Nat /\ mainH % 2 = 0 /\ mainH >= 2
    BY <1>1 DEF even, HalfDown, Most
  <2>4. /\ sideH \in Nat /\ sideH % 2 = 0 /\ sideH >= 2
        /\ c.height - c.gap * (sideCount + 1) >= sideCount * 2 => sideCount * sideH <= c.height - c.gap * (sideCount + 1)
    <3>1. c.height - c.gap * (sideCount + 1) \in Int /\ sideCount \in Nat \ {0}
      BY <1>1, <1>3
    <3> HIDE DEF sideCount
    <3> QED BY <3>1, HalvedDown
  <2> HIDE DEF sideH, mainH
  <2>5. \A i \in 0 .. count - 1 : IsCell(raw(i))
    <3> HIDE DEF sideW, mainW
    <3> TAKE i \in 0 .. count - 1
    <3>1. (i - 1) * (sideH + c.gap) \in Int
      BY <1>1, <2>4
    <3>2. IsCell(main)
      BY <1>1, <2>2, <2>3 DEF IsCell
    <3>3. IsCell(side(i))
      BY <1>1, <2>1, <2>2, <2>4, <3>1 DEF IsCell
    <3> QED BY <3>2, <3>3
  <2>6. \A i \in DOMAIN cells : Inside(cells[i], c)
    <3> HIDE DEF raw
    <3> QED BY <2>0, <2>5, ClampInside
  <2>7. ASSUME Room(c, count)
        PROVE  \A i \in 1 .. count - 1 : Beside(main, side(i), c.width)
    <3>1. c.width >= 2 * count + c.gap * (count + 3) + 220
      BY <2>7 DEF Room
    <3>2. c.gap * 5 <= c.gap * (count + 3)
      BY <1>1, <1>3, Products
    <3>3. c.gap * (count + 3) \in Nat
      BY <1>1
    <3>4. c.width >= 224 + c.gap * 5
      BY <1>1, <1>3, <3>1, <3>2, <3>3
    <3>5. mainW + sideW + c.gap * 3 <= c.width
      <4>1. c.width - sideW - c.gap * 3 >= 2
        BY <1>1, <3>4 DEF Most
      <4> HIDE DEF sideW
      <4> QED BY <1>1, <2>1, <4>1 DEF even, HalfDown, Most
    <3> HIDE DEF sideW, mainW
    <3> QED BY <1>1, <2>1, <2>2, <3>5 DEF Beside
  <2>8. ASSUME Room(c, count), NEW i \in 1 .. count - 1, NEW j \in 1 .. count - 1, i < j
        PROVE  Above(side(i), side(j), c.height)
    <3> DEFINE p == i - 1
               q == j - 1
    <3>1. p \in Nat /\ q \in Nat /\ p < q /\ q < sideCount /\ sideCount \in Nat
      BY <2>8
    <3>2. sideCount * sideH <= c.height - c.gap * (sideCount + 1)
      <4>1. c.height >= 4 * count + c.gap * (count + 1)
        BY <2>8 DEF Room
      <4>2. c.gap * count \in Int
        BY <1>1
      <4> QED BY <1>1, <1>3, <2>4, <4>1, <4>2
    <3>3. c.gap + sideCount * sideH + (sideCount - 1) * c.gap <= c.height
      BY <1>1, <2>4, <3>1, <3>2
    <3> HIDE DEF p, q, sideCount
    <3> HIDE DEF sideW, mainW
    <3>4. c.gap + p * (sideH + c.gap) + sideH <= c.gap + q * (sideH + c.gap)
      <4>1. c.gap \in Int /\ c.gap \in Nat /\ sideH \in Nat /\ p \in Nat /\ q \in Nat /\ p < q
        BY <1>1, <2>4, <3>1
      <4> QED BY ONLY <4>1, LineApart
    <3>5. c.gap + q * (sideH + c.gap) + sideH <= c.height
      BY <1>1, <2>4, <3>1, <3>3, LineFits
    <3>6. c.gap + p * (sideH + c.gap) >= 0
      BY <1>1, <2>4, <3>1, <3>3, LineFits
    <3>7. /\ side(i).y = c.gap + p * (sideH + c.gap) /\ side(j).y = c.gap + q * (sideH + c.gap)
          /\ side(i).h = sideH /\ side(j).h = sideH
      BY DEF p, q
    <3> HIDE DEF side
    <3> QED BY <3>4, <3>5, <3>6, <3>7 DEF Above
  <2>9. ASSUME Room(c, count), NEW i \in 0 .. count - 1, NEW j \in 0 .. count - 1, i # j
        PROVE  Apart(cells[i], cells[j])
    <3> HIDE DEF main, side
    <3>1. \/ Beside(raw(i), raw(j), c.width) \/ Beside(raw(j), raw(i), c.width)
          \/ Above(raw(i), raw(j), c.height) \/ Above(raw(j), raw(i), c.height)
      <4>1. CASE i = 0
        BY <2>7, <2>9, <4>1
      <4>2. CASE j = 0
        BY <2>7, <2>9, <4>2
      <4>3. CASE i # 0 /\ j # 0
        <5>1. i \in 1 .. count - 1 /\ j \in 1 .. count - 1 /\ (i < j \/ j < i)
          BY <2>9, <4>3
        <5> QED BY <2>8, <2>9, <4>3, <5>1
      <4> QED BY <4>1, <4>2, <4>3
    <3>2. IsCell(raw(i)) /\ IsCell(raw(j))
      BY <2>5
    <3> HIDE DEF raw
    <3> QED BY <2>0, <3>1, <3>2, ClampApart
  <2>10. DOMAIN cells = 0 .. count - 1
    BY <2>0
  <2>11. Room(c, count) => \A i, j \in DOMAIN cells : i # j => Apart(cells[i], cells[j])
    <3> HIDE DEF cells
    <3> QED BY <2>9, <2>10
  <2> QED BY <2>6, <2>10, <2>11 DEF Composes
<1> QED BY <1>3

\* A matrix that is too large for the canvas has cells of the least size, and
\* the sources are fewer than its places.
LEMMA MatrixFits ==
    ASSUME NEW size \in Nat, NEW g \in Nat, NEW k \in Nat \ {0}, NEW n \in Nat \ {0},
           size >= 2 * n + g * n, NEW p \in Nat, p < k, p < n
    PROVE  LET w == HalfDown(size - g * (k + 1), k, 2)
           IN  w \in Nat /\ w % 2 = 0 /\ w >= 2 /\ g + p * (w + g) + w <= size
<1> DEFINE w == HalfDown(size - g * (k + 1), k, 2)
<1>1. /\ w \in Nat /\ w % 2 = 0 /\ w >= 2
      /\ size - g * (k + 1) >= k * 2 => k * w <= size - g * (k + 1)
      /\ size - g * (k + 1) < k * 2 => w = 2
  <2>1. size - g * (k + 1) \in Int
    OBVIOUS
  <2> QED BY <2>1, HalvedDown
<1> HIDE DEF w
<1>2. CASE size - g * (k + 1) >= k * 2
  <2>1. g + k * w + (k - 1) * g <= size
    BY <1>1, <1>2
  <2>2. g + p * (w + g) + w <= size
    BY <1>1, <2>1, LineFits
  <2> QED BY <1>1, <2>2 DEF w
<1>3. CASE size - g * (k + 1) < k * 2
  <2>1. g + n * w + (n - 1) * g <= size
    BY <1>1, <1>3
  <2>2. g + p * (w + g) + w <= size
    BY <1>1, <2>1, LineFits
  <2> QED BY <1>1, <2>2 DEF w
<1>4. size - g * (k + 1) >= k * 2 \/ size - g * (k + 1) < k * 2
  OBVIOUS
<1> QED BY <1>2, <1>3, <1>4

LEMMA MatrixComposes ==
    ASSUME NEW count \in Nat \ {0}, NEW cols \in Nat \ {0}, NEW rows \in Nat \ {0}, NEW c, EvenCanvas(c)
    PROVE  Composes(FixedCells(count, c, cols, rows), Least(count, cols * rows), c)
<1> DEFINE n == Least(count, cols * rows)
           cellW == HalfDown(c.width - c.gap * (cols + 1), cols, 2)
           cellH == HalfDown(c.height - c.gap * (rows + 1), rows, 2)
           col(i) == i % cols
           row(i) == i \div cols
           raw(i) == [x |-> c.gap + col(i) * (cellW + c.gap), y |-> c.gap + row(i) * (cellH + c.gap),
                      w |-> cellW, h |-> cellH]
           cells == FixedCells(count, c, cols, rows)
<1>0. cells = [i \in 0 .. n - 1 |-> clampToCanvas(raw(i), c.width, c.height)]
  BY DEF FixedCells
<1>1. c.width \in Nat /\ c.height \in Nat /\ c.gap \in Nat
  BY DEF EvenCanvas
<1>2. n \in Nat \ {0} /\ n <= cols * rows
  <2>1. 1 * 1 <= cols * 1 /\ cols * 1 <= cols * rows
    BY Products
  <2> QED BY <2>1 DEF Least
<1> HIDE DEF n
<1>3. \A i \in 0 .. n - 1 : /\ col(i) \in Nat /\ col(i) < cols /\ col(i) < n
                            /\ row(i) \in Nat /\ row(i) < rows /\ row(i) < n
                            /\ i = cols * row(i) + col(i)
  <2> TAKE i \in 0 .. n - 1
  <2>1. row(i) \in Int /\ col(i) \in 0 .. cols - 1 /\ i = cols * row(i) + col(i) /\ row(i) >= 0
    <3>1. i \in Int /\ i >= 0
      BY <1>2
    <3>2. row(i) = i \div cols /\ col(i) = i % cols
      OBVIOUS
    <3> HIDE DEF row, col
    <3> QED BY <3>1, <3>2, Division
  <2> HIDE DEF row, col
  <2>2. 1 * row(i) <= cols * row(i)
    BY <2>1, Products
  <2>3. row(i) < rows
    <3>1. SUFFICES ASSUME row(i) >= rows PROVE FALSE
      BY <2>1
    <3>2. cols * rows <= cols * row(i)
      BY <2>1, <3>1, Products
    <3> QED BY <1>2, <2>1, <3>2
  <2> QED BY <1>2, <2>1, <2>2, <2>3
<1> HIDE DEF col, row
<1>4. cellW \in Nat /\ cellW % 2 = 0 /\ cellW >= 2 /\ cellH \in Nat /\ cellH % 2 = 0 /\ cellH >= 2
  <2>1. c.width - c.gap * (cols + 1) \in Int /\ c.height - c.gap * (rows + 1) \in Int
    BY <1>1
  <2> QED BY <2>1, HalvedDown
<1> HIDE DEF cellW, cellH
<1>5. \A i \in 0 .. n - 1 : IsCell(raw(i))
  <2> TAKE i \in 0 .. n - 1
  <2>1. col(i) * (cellW + c.gap) \in Int /\ row(i) * (cellH + c.gap) \in Int
    BY <1>1, <1>3, <1>4
  <2> QED BY <1>1, <1>4, <2>1 DEF IsCell
<1>6. \A i \in DOMAIN cells : Inside(cells[i], c)
  <2> HIDE DEF raw
  <2> QED BY <1>0, <1>5, ClampInside
<1>7. ASSUME Room(c, n), NEW i \in 0 .. n - 1, NEW j \in 0 .. n - 1, i # j
      PROVE  Apart(cells[i], cells[j])
  <2>1. c.width >= 2 * n + c.gap * n /\ c.height >= 2 * n + c.gap * n
    <3>1. c.gap * n <= c.gap * (n + 3) /\ c.gap * n <= c.gap * (n + 1)
      BY <1>1, <1>2, Products
    <3>2. c.width >= 2 * n + c.gap * (n + 3) + 220 /\ c.height >= 4 * n + c.gap * (n + 1)
      BY <1>7 DEF Room
    <3> QED BY <1>1, <1>2, <3>1, <3>2
  <2>2. \A m \in 0 .. n - 1 :
          /\ raw(m).x >= 0 /\ raw(m).x + raw(m).w <= c.width
          /\ raw(m).y >= 0 /\ raw(m).y + raw(m).h <= c.height
    <3> TAKE m \in 0 .. n - 1
    <3>1. /\ col(m) \in Nat /\ col(m) < cols /\ col(m) < n
          /\ row(m) \in Nat /\ row(m) < rows /\ row(m) < n
      BY <1>3
    <3>2. c.gap + col(m) * (cellW + c.gap) + cellW <= c.width
      BY <1>1, <1>2, <2>1, <3>1, MatrixFits DEF cellW
    <3>3. c.gap + row(m) * (cellH + c.gap) + cellH <= c.height
      BY <1>1, <1>2, <2>1, <3>1, MatrixFits DEF cellH
    <3>4. col(m) * (cellW + c.gap) >= 0 /\ row(m) * (cellH + c.gap) >= 0
          /\ col(m) * (cellW + c.gap) \in Int /\ row(m) * (cellH + c.gap) \in Int
      BY <1>1, <1>4, <3>1
    <3> DEFINE x == col(m) * (cellW + c.gap)
               y == row(m) * (cellH + c.gap)
    <3> HIDE DEF x, y
    <3>5. c.gap + x >= 0 /\ c.gap + x + cellW <= c.width /\ c.gap + y >= 0 /\ c.gap + y + cellH <= c.height
      BY <1>1, <3>2, <3>3, <3>4 DEF x, y
    <3>6. raw(m).x = c.gap + x /\ raw(m).w = cellW /\ raw(m).y = c.gap + y /\ raw(m).h = cellH
      BY DEF x, y
    <3> HIDE DEF raw
    <3> QED BY <3>5, <3>6
  <2>3. \A k, m \in 0 .. n - 1 : /\ col(k) < col(m) => Beside(raw(k), raw(m), c.width)
                                 /\ row(k) < row(m) => Above(raw(k), raw(m), c.height)
    <3> TAKE k \in 0 .. n - 1, m \in 0 .. n - 1
    <3>1. col(k) \in Nat /\ col(m) \in Nat /\ row(k) \in Nat /\ row(m) \in Nat
      BY <1>3
    <3>2. col(k) < col(m) => c.gap + col(k) * (cellW + c.gap) + cellW <= c.gap + col(m) * (cellW + c.gap)
      BY <1>1, <1>4, <3>1, LineApart
    <3>3. row(k) < row(m) => c.gap + row(k) * (cellH + c.gap) + cellH <= c.gap + row(m) * (cellH + c.gap)
      BY <1>1, <1>4, <3>1, LineApart
    <3>4. /\ col(k) < col(m) => raw(k).x + raw(k).w <= raw(m).x
          /\ row(k) < row(m) => raw(k).y + raw(k).h <= raw(m).y
      BY <3>2, <3>3
    <3> HIDE DEF raw
    <3> QED BY <2>2, <3>4 DEF Beside, Above
  <2>4. col(i) < col(j) \/ col(j) < col(i) \/ row(i) < row(j) \/ row(j) < row(i)
    BY <1>3, <1>7
  <2>5. IsCell(raw(i)) /\ IsCell(raw(j))
    BY <1>5
  <2> HIDE DEF raw
  <2>6. \/ Beside(raw(i), raw(j), c.width) \/ Beside(raw(j), raw(i), c.width)
        \/ Above(raw(i), raw(j), c.height) \/ Above(raw(j), raw(i), c.height)
    BY <2>3, <2>4
  <2> QED BY <1>0, <2>5, <2>6, ClampApart
<1>8. DOMAIN cells = 0 .. n - 1
  BY <1>0
<1>9. Room(c, n) => \A i, j \in DOMAIN cells : i # j => Apart(cells[i], cells[j])
  <2> HIDE DEF cells
  <2> QED BY <1>7, <1>8
<1>10. Composes(cells, n, c)
  BY <1>6, <1>8, <1>9 DEF Composes
<1> QED BY <1>10 DEF n

\* Among subsets of a finite set there is one that none of them is a part of.
LEMMA LeastOne ==
    ASSUME NEW S, IsFiniteSet(S), NEW T, T \subseteq SUBSET S, T # {}
    PROVE  \E x \in T : \A y \in T : ~(y \subseteq x /\ y # x)
<1>1. IsWellFoundedOn(StrictSubsetOrdering(S), SUBSET S)
  BY FS_StrictSubsetOrderingWellFounded, FS_FiniteSubsetsOfFinite
<1>2. PICK x \in T : \A y \in T : ~(<<y, x>> \in StrictSubsetOrdering(S))
  BY <1>1, WFMin
<1>3. \A y \in T : y \subseteq x /\ y # x => <<y, x>> \in StrictSubsetOrdering(S)
  BY DEF StrictSubsetOrdering
<1>4. \A y \in T : ~(y \subseteq x /\ y # x)
  BY <1>2, <1>3, Zenon
<1> QED BY <1>4, Zenon

LEMMA CeilDivBounds ==
    ASSUME NEW count \in Nat \ {0}, NEW k \in 1 .. count
    PROVE  CeilDiv(count, k) \in 1 .. count
<1> DEFINE n == count + k - 1
           q == n \div k
           r == n % k
<1>1. q \in Int /\ r \in 0 .. k - 1 /\ n = k * q + r
  <2>1. n \in Int /\ k \in Nat \ {0}
    OBVIOUS
  <2> HIDE DEF n
  <2> QED BY <2>1, Division
<1>2. CeilDiv(count, k) = q
  BY DEF CeilDiv
<1> HIDE DEF q, r
<1>3. q >= 1
  <2>1. SUFFICES ASSUME q <= 0 PROVE FALSE
    BY <1>1
  <2>2. k * q <= k * 0
    BY <1>1, <2>1, Products
  <2> QED BY <1>1, <2>2
<1>4. q <= count
  <2>1. SUFFICES ASSUME q >= count + 1 PROVE FALSE
    BY <1>1
  <2>2. k * (count + 1) <= k * q /\ 1 * count <= k * count
    BY <1>1, <2>1, Products
  <2> QED BY <1>1, <2>2
<1> QED BY <1>1, <1>2, <1>3, <1>4

\* The root, rounded up: the least number whose square is large enough.
LEMMA CeilSqrtBounds ==
    ASSUME NEW count \in Nat \ {0}
    PROVE  CeilSqrt(count) \in 1 .. count
<1> DEFINE N == {n \in 1 .. count : n * n >= count}
           T == {1 .. n : n \in N}
<1>1. IsFiniteSet(1 .. count)
  BY FS_Interval
<1>2. T \subseteq SUBSET (1 .. count)
  OBVIOUS
<1>3. count \in N
  <2>1. 1 * count <= count * count
    BY Products
  <2> QED BY <2>1
<1>4. PICK x \in T : \A y \in T : ~(y \subseteq x /\ y # x)
  <2> DEFINE S == 1 .. count
  <2>1. IsFiniteSet(S) /\ T \subseteq SUBSET S /\ T # {}
    BY <1>1, <1>2, <1>3
  <2> HIDE DEF S, T
  <2> QED BY <2>1, LeastOne
<1>5. PICK n \in N : x = 1 .. n
  OBVIOUS
<1>6. (n - 1) * (n - 1) < count
  <2>1. CASE n = 1
    BY <2>1
  <2>2. CASE n # 1
    <3>1. SUFFICES ASSUME (n - 1) * (n - 1) >= count PROVE FALSE
      BY <1>5
    <3>2. n - 1 \in N
      BY <1>5, <2>2, <3>1
    <3>3. 1 .. n - 1 \in T
      BY <3>2
    <3>4. 1 .. n - 1 \subseteq 1 .. n /\ n \in 1 .. n /\ n \notin 1 .. n - 1
      BY <1>5
    <3> HIDE DEF T
    <3> QED BY <1>4, <1>5, <3>3, <3>4
  <2> QED BY <2>1, <2>2
<1>7. n \in 1 .. count /\ n * n >= count
  BY <1>5
<1> QED BY <1>6, <1>7 DEF CeilSqrt

-----------------------------------------------------------------------------
(* The viewer's grid: of the candidates one is best, and none ties with it *)
(* that was tried later.                                                   *)

PictureWidth(g, c) == Least(9 * c.width * g.rows, 16 * c.height * g.cols)

IsGrid(g) == g.cols \in Nat \ {0} /\ g.rows \in Nat \ {0}

LEMMA WiderByArea ==
    ASSUME NEW c, EvenCanvas(c), NEW a, IsGrid(a), NEW b, IsGrid(b)
    PROVE  /\ PictureWidth(a, c) \in Nat /\ a.cols * a.rows \in Nat /\ a.cols * a.rows >= 1
           /\ Wider(a, b, c) <=> PictureWidth(a, c) * (b.cols * b.rows) >= PictureWidth(b, c) * (a.cols * a.rows)
<1>1. c.width \in Nat /\ c.height \in Nat /\ a.cols \in Nat \ {0} /\ a.rows \in Nat \ {0}
      /\ b.cols \in Nat \ {0} /\ b.rows \in Nat \ {0}
  BY DEF EvenCanvas, IsGrid
<1>2. 9 * c.width * a.rows \in Nat /\ 16 * c.height * a.cols \in Nat /\ 9 * c.width * b.rows \in Nat /\ 16 * c.height * b.cols \in Nat
  BY <1>1
<1>3. PictureWidth(a, c) \in Nat /\ PictureWidth(b, c) \in Nat
  BY <1>2 DEF PictureWidth, Least
<1>4. a.cols * a.rows \in Nat /\ a.cols * a.rows >= 1
  <2>1. 1 * 1 <= a.cols * 1 /\ a.cols * 1 <= a.cols * a.rows
    BY <1>1, Products
  <2> QED BY <1>1, <2>1
<1>5. Wider(a, b, c) <=> PictureWidth(a, c) * b.cols * b.rows >= PictureWidth(b, c) * a.cols * a.rows
  BY DEF Wider, PictureWidth
<1> QED BY <1>1, <1>3, <1>4, <1>5

LEMMA CrossMultiplied ==
    ASSUME NEW u \in Nat, NEW v \in Nat, NEW w \in Nat, NEW p \in Nat, NEW q \in Nat, NEW r \in Nat, q >= 1,
           u * q >= v * p, v * r >= w * q
    PROVE  u * r >= w * p
<1>1. (v * p) * r <= (u * q) * r /\ (w * q) * p <= (v * r) * p
  BY Products
<1>2. (w * p) * q <= (u * r) * q
  BY <1>1
<1>3. SUFFICES ASSUME w * p >= u * r + 1 PROVE FALSE
  OBVIOUS
<1>4. (u * r + 1) * q <= (w * p) * q
  BY <1>3, Products
<1> QED BY <1>2, <1>4

LEMMA WiderOrders ==
    ASSUME NEW c, EvenCanvas(c), NEW a, IsGrid(a), NEW b, IsGrid(b), NEW d, IsGrid(d)
    PROVE  /\ Wider(a, b, c) \/ Wider(b, a, c)
           /\ Wider(a, b, c) /\ Wider(b, d, c) => Wider(a, d, c)
<1>1. Wider(a, b, c) \/ Wider(b, a, c)
  BY WiderByArea
<1>2. Wider(a, b, c) /\ Wider(b, d, c) => Wider(a, d, c)
  BY WiderByArea, CrossMultiplied
<1> QED BY <1>1, <1>2

Beats(a, b, c) == ~Wider(b, a, c) \/ (a.cols > b.cols /\ Wider(a, b, c))

LEMMA BeatsOrders ==
    ASSUME NEW c, EvenCanvas(c), NEW a, IsGrid(a), NEW b, IsGrid(b), NEW d, IsGrid(d),
           Beats(a, b, c), Beats(b, d, c)
    PROVE  Beats(a, d, c) /\ ~Beats(a, a, c)
<1>1. Wider(a, b, c) /\ Wider(b, d, c)
  BY WiderOrders DEF Beats
<1>2. Wider(a, d, c)
  BY <1>1, WiderOrders
<1>3. Wider(d, a, c) => Wider(b, a, c) /\ Wider(d, b, c)
  BY <1>1, WiderOrders
<1>4. Wider(a, a, c)
  BY WiderOrders
<1> QED BY <1>2, <1>3, <1>4 DEF Beats, IsGrid

LEMMA BestGridExists ==
    ASSUME NEW count \in Nat \ {0}, NEW c, EvenCanvas(c)
    PROVE  bestGrid(count, c) \in Grids(count) /\ bestGrid(count, c).rows \in 1 .. count
<1> DEFINE N == {m \in 1 .. count : m = 1 \/ (m - 1) * CeilDiv(count, m) < count}
           grid(m) == [cols |-> m, rows |-> CeilDiv(count, m)]
           Better(m) == {k \in N : Beats(grid(k), grid(m), c)}
           T == {Better(m) : m \in N}
<1>1. Grids(count) = {grid(m) : m \in N}
  BY DEF Grids
<1>2. \A m \in N : IsGrid(grid(m)) /\ grid(m).rows \in 1 .. count
  BY CeilDivBounds DEF IsGrid
<1>3. IsFiniteSet(N)
  <2>1. IsFiniteSet(1 .. count) /\ N \in SUBSET (1 .. count)
    BY FS_Interval
  <2> HIDE DEF N
  <2> QED BY <2>1, FS_Subset
<1>4. 1 \in N
  OBVIOUS
<1> HIDE DEF N, grid
<1>5. PICK x \in T : \A y \in T : ~(y \subseteq x /\ y # x)
  <2>1. T \subseteq SUBSET N /\ T # {}
    BY <1>4
  <2> HIDE DEF T
  <2> QED BY <1>3, <2>1, LeastOne
<1>6. PICK m \in N : x = Better(m)
  OBVIOUS
<1>7. Better(m) = {}
  <2>1. SUFFICES ASSUME NEW k \in Better(m) PROVE FALSE
    OBVIOUS
  <2>2. k \in N /\ Beats(grid(k), grid(m), c)
    OBVIOUS
  <2>3. ASSUME NEW j \in Better(k) PROVE j \in Better(m)
    <3>1. j \in N /\ Beats(grid(j), grid(k), c)
      BY <2>3
    <3> QED BY <1>2, <2>2, <3>1, BeatsOrders
  <2>4. k \notin Better(k)
    <3>1. Beats(grid(k), grid(k), c) => ~Beats(grid(k), grid(k), c)
      BY <1>2, <2>2, BeatsOrders
    <3> QED BY <3>1
  <2>5. Better(k) \in T
    BY <2>2
  <2> HIDE DEF Better, T
  <2> QED BY <1>5, <1>6, <2>3, <2>4, <2>5
<1>8. \A o \in Grids(count) : Wider(grid(m), o, c) /\ (o.cols > grid(m).cols => ~Wider(o, grid(m), c))
  <2>1. \A k \in N : ~Beats(grid(k), grid(m), c)
    BY <1>7
  <2>2. \A k \in N : Wider(grid(m), grid(k), c) /\ (grid(k).cols > grid(m).cols => ~Wider(grid(k), grid(m), c))
    BY <2>1 DEF Beats
  <2> QED BY <1>1, <2>2
<1>9. bestGrid(count, c) \in Grids(count)
  <2>1. grid(m) \in Grids(count)
    BY <1>1
  <2> QED BY <1>8, <2>1 DEF bestGrid
<1> QED BY <1>1, <1>2, <1>9

-----------------------------------------------------------------------------
(* What is on air fits.                                                    *)

IsCanvas(c) == c \in [width : Nat, height : Nat, gap : Nat] /\ EvenCanvas(c)

LEMMA NothingComposes ==
    ASSUME NEW c PROVE Composes([i \in {} |-> 0], 0, c)
BY DEF Composes

LEMMA WholeComposes ==
    ASSUME NEW c, EvenCanvas(c) PROVE Composes(WholeCanvas(c), 1, c)
<1>1. DOMAIN WholeCanvas(c) = 0 .. 1 - 1 /\ \A i \in DOMAIN WholeCanvas(c) : i = 0
  BY DEF WholeCanvas
<1>2. Inside(WholeCanvas(c)[0], c)
  BY DEF WholeCanvas, Inside, OnCanvas, EvenCanvas
<1> QED BY <1>1, <1>2 DEF Composes

\* The encoder's canvas.
LEMMA LayoutComposes ==
    ASSUME NEW c \in Canvases, NEW l \in Layouts, NEW count \in Nat,
           ~(l.kind = "spotlight" /\ count = 1 /\ c.gap % 2 = 1)
    PROVE  Composes(computeLayout(count, c, l),
                    Least(count, CASE l.kind = "solo" -> 1
                                   [] l.kind \in {"auto", "row", "column", "spotlight"} -> count
                                   [] OTHER -> l.cols * l.rows), c)
<1>1. EvenCanvas(c) /\ c.width >= 2 * c.gap + 2 /\ c.height >= 2 * c.gap + 2
  BY CanvasesAreValid DEF EvenCanvas
<1>2. Least(count, count) = count /\ (count > 0 => Least(count, 1) = 1)
  BY DEF Least
<1>3. CASE count = 0
  <2>1. computeLayout(count, c, l) = [i \in {} |-> 0]
    BY <1>3 DEF computeLayout
  <2>2. \A n \in Nat : Least(count, n) = 0
    BY <1>3 DEF Least
  <2>3. CASE l.kind = "solo"
    BY <2>1, <2>2, <2>3, NothingComposes
  <2>4. CASE l.kind \in {"auto", "row", "column", "spotlight"}
    BY <1>2, <1>3, <2>1, <2>4, NothingComposes
  <2>5. CASE l.kind = "fixed"
    <3>1. l.cols * l.rows \in Nat
      BY <2>5, LayoutsAreValid
    <3> QED BY <2>1, <2>2, <2>5, <3>1, NothingComposes
  <2> QED BY <2>3, <2>4, <2>5, LayoutsAreValid
<1>4. CASE count > 0
  <2>1. CASE l.kind = "solo"
    BY <1>1, <1>2, <1>4, <2>1, WholeComposes DEF computeLayout
  <2>2. CASE l.kind = "spotlight"
    <3>1. computeLayout(count, c, l) = spotlightCells(count, c)
      BY <1>4, <2>2 DEF computeLayout
    <3>2. CASE count = 1
      <4>1. c.gap % 2 = 0
        BY <1>1, <2>2, <3>2 DEF EvenCanvas
      <4> QED BY <1>1, <1>2, <2>2, <3>1, <3>2, <4>1, SpotlightAlone
    <3> QED BY <1>1, <1>2, <1>4, <2>2, <3>1, <3>2, SpotlightComposes
  <2>3. CASE l.kind = "row"
    <3>1. computeLayout(count, c, l) = gridCells(count, c, 1)
      BY <1>4, <2>3 DEF computeLayout
    <3>2. 1 \in 1 .. count
      BY <1>4
    <3> QED BY <1>1, <1>2, <1>4, <2>3, <3>1, <3>2, GridComposes
  <2>4. CASE l.kind = "column"
    <3>1. computeLayout(count, c, l) = gridCells(count, c, count)
      BY <1>4, <2>4 DEF computeLayout
    <3>2. count \in 1 .. count
      BY <1>4
    <3> QED BY <1>1, <1>2, <1>4, <2>4, <3>1, <3>2, GridComposes
  <2>5. CASE l.kind = "auto"
    <3>1. CASE count = 1
      BY <1>1, <1>2, <2>5, <3>1, WholeComposes DEF computeLayout
    <3>2. CASE count > 1
      <4> DEFINE rows == CeilDiv(count, CeilSqrt(count))
      <4>1. computeLayout(count, c, l) = gridCells(count, c, rows)
        BY <2>5, <3>2 DEF computeLayout
      <4>2. rows \in 1 .. count
        BY <3>2, CeilSqrtBounds, CeilDivBounds
      <4> QED BY <1>1, <1>2, <1>4, <2>5, <4>1, <4>2, GridComposes
    <3> QED BY <1>4, <3>1, <3>2
  <2>6. CASE l.kind = "fixed"
    <3>1. computeLayout(count, c, l) = FixedCells(count, c, l.cols, l.rows)
      BY <1>4, <2>6 DEF computeLayout
    <3>2. l.cols \in Nat \ {0} /\ l.rows \in Nat \ {0}
      BY <2>6, LayoutsAreValid
    <3> QED BY <1>1, <1>4, <2>6, <3>1, <3>2, MatrixComposes
  <2> QED BY <2>1, <2>2, <2>3, <2>4, <2>5, <2>6, LayoutsAreValid
<1> QED BY <1>3, <1>4

\* The viewer's grid, on any canvas.
LEMMA ClientComposes ==
    ASSUME NEW c, EvenCanvas(c), NEW count \in Nat, NEW index \in Int
    PROVE  Composes(computeClientLayout(count, c, index), count, c)
<1>1. CASE count = 0
  BY <1>1, NothingComposes DEF computeClientLayout
<1>2. CASE count = 1
  BY <1>2, WholeComposes DEF computeClientLayout
<1>3. CASE count > 1 /\ index \notin 0 .. count - 1
  <2>1. computeClientLayout(count, c, index) = gridCells(count, c, bestGrid(count, c).rows)
    BY <1>3 DEF computeClientLayout
  <2> QED BY <1>3, <2>1, BestGridExists, GridComposes
<1>4. CASE count > 1 /\ index \in 0 .. count - 1
  <2> DEFINE cells == spotlightCells(count, c)
             to(i) == IF i = index THEN 0 ELSE IF i < index THEN i + 1 ELSE i
             moved == computeClientLayout(count, c, index)
  <2>1. moved = [i \in 0 .. count - 1 |-> cells[to(i)]]
    BY <1>4 DEF computeClientLayout
  <2>2. Composes(cells, count, c)
    BY <1>4, SpotlightComposes
  <2>3. \A i \in 0 .. count - 1 : to(i) \in 0 .. count - 1
    BY <1>4
  <2>4. \A i, j \in 0 .. count - 1 : to(i) = to(j) => i = j
    BY <1>4
  <2> HIDE DEF cells, to, moved
  <2>5. DOMAIN cells = 0 .. count - 1 /\ DOMAIN moved = 0 .. count - 1
    BY <2>1, <2>2 DEF Composes
  <2>6. \A i \in 0 .. count - 1 : Inside(moved[i], c)
    <3>1. \A i \in 0 .. count - 1 : Inside(cells[i], c)
      BY <2>2, <2>5 DEF Composes
    <3> QED BY <2>1, <2>3, <3>1
  <2>7. ASSUME Room(c, count), NEW i \in 0 .. count - 1, NEW j \in 0 .. count - 1, i # j
        PROVE  Apart(moved[i], moved[j])
    <3>1. Apart(cells[to(i)], cells[to(j)])
      BY <2>2, <2>3, <2>4, <2>5, <2>7 DEF Composes
    <3> QED BY <2>1, <3>1
  <2>8. Composes(moved, count, c)
    BY <2>5, <2>6, <2>7 DEF Composes
  <2> QED BY <2>8 DEF moved
<1> QED BY <1>1, <1>2, <1>3, <1>4

LEMMA StageIsEven ==
    ASSUME NEW c, IsCanvas(c), NEW count \in Nat \ {0}
    PROVE  EvenCanvas(Stage(count, c))
<1> DEFINE natural == naturalFillHeight(count, c)
           rows == bestGrid(count, c).rows
           cell == gridCells(count, c, rows)[0]
<1>1. c.width \in Nat /\ c.height \in Nat /\ c.gap \in Nat /\ EvenCanvas(c)
  BY DEF IsCanvas, EvenCanvas
<1>2. rows \in 1 .. count
  BY <1>1, BestGridExists
<1>3. cell.w \in Nat /\ cell.h \in Nat
  <2>1. 0 \in 0 .. count - 1
    OBVIOUS
  <2> HIDE DEF rows
  <2> QED BY <1>1, <1>2, <2>1, GridComposes
<1>4. natural \in Int
  <2>1. natural = IF count = 1 THEN Least(HalfDown(9 * c.width, 16, 2), c.height)
                  ELSE Least(Least(HalfDown(9 * cell.w, 16, 2), cell.h) * rows + c.gap * (rows + 1), c.height)
    BY DEF naturalFillHeight
  <2> HIDE DEF natural, rows, cell
  <2>2. HalfDown(9 * c.width, 16, 2) \in Nat /\ HalfDown(9 * cell.w, 16, 2) \in Nat
    <3>1. 9 * c.width \in Int /\ 9 * cell.w \in Int
      BY <1>1, <1>3
    <3>2. \A n \in Int : HalfDown(n, 16, 2) \in Nat
      BY HalvedDown
    <3> QED BY <3>1, <3>2
  <2>3. Least(HalfDown(9 * cell.w, 16, 2), cell.h) \in Nat
    BY <1>3, <2>2 DEF Least
  <2>4. Least(HalfDown(9 * cell.w, 16, 2), cell.h) * rows + c.gap * (rows + 1) \in Nat
    BY <1>1, <1>2, <2>3
  <2> QED BY <1>1, <2>1, <2>2, <2>4 DEF Least
<1>5. even(natural, 2) \in Nat /\ even(natural, 2) % 2 = 0 /\ even(natural, 2) >= 2
  <2>1. \A n \in Int : HalfDown(n, 1, 2) \in Nat /\ HalfDown(n, 1, 2) % 2 = 0 /\ HalfDown(n, 1, 2) >= 2
    BY HalvedDown
  <2> HIDE DEF natural
  <2> QED BY <1>4, <2>1 DEF even
<1>6. Stage(count, c) = [c EXCEPT !.height = even(natural, 2)]
  BY DEF Stage
<1> HIDE DEF natural
<1> QED BY <1>1, <1>5, <1>6 DEF EvenCanvas, IsCanvas

LEMMA EverythingFits == LayoutTypeOK => CellsFit
<1> SUFFICES ASSUME LayoutTypeOK PROVE CellsFit
  OBVIOUS
<1>1. canvas \in Canvases \cup Stages /\ layout \in Layouts /\ onAir \in Nat /\ onAir <= MaxOnAir /\ spotlight \in Int
  BY OnAirIsCounted DEF LayoutTypeOK
<1>2. IsCanvas(canvas)
  BY <1>1, CanvasesAreValid DEF IsCanvas, EvenCanvas
<1>3. ASSUME canvas \in Canvases, ~OddCorner
      PROVE  Composes(computeLayout(onAir, canvas, layout), Least(onAir, Capacity), canvas)
  <2>1. Least(onAir, onAir) = onAir /\ Least(onAir, MaxOnAir) = onAir
    BY <1>1, OnAirIsCounted DEF Least
  <2> DEFINE places == CASE layout.kind = "solo" -> 1
                         [] layout.kind \in {"auto", "row", "column", "spotlight"} -> onAir
                         [] OTHER -> layout.cols * layout.rows
  <2>2. Least(onAir, Capacity) = Least(onAir, places)
    <3>1. CASE layout.kind = "solo"
      BY <3>1 DEF Capacity
    <3>2. CASE layout.kind \in {"auto", "row", "column", "spotlight"}
      BY <2>1, <3>2 DEF Capacity
    <3>3. CASE layout.kind = "fixed"
      BY <3>3 DEF Capacity
    <3> QED BY <1>1, <3>1, <3>2, <3>3, LayoutsAreValid
  <2>3. Composes(computeLayout(onAir, canvas, layout), Least(onAir, places), canvas)
    BY <1>1, <1>3, LayoutComposes DEF OddCorner
  <2> QED BY <2>2, <2>3
<1>4. Composes(computeClientLayout(onAir, canvas, spotlight), onAir, canvas)
  BY <1>1, <1>2, ClientComposes DEF IsCanvas
<1>5. onAir > 0 => Composes(computeClientLayout(onAir, Stage(onAir, canvas), -1), onAir, Stage(onAir, canvas))
  BY <1>1, <1>2, StageIsEven, ClientComposes
<1>6. ASSUME canvas \in Canvases, OddCorner
      PROVE  DOMAIN computeLayout(onAir, canvas, layout) = {0} /\ OnCanvas(computeLayout(onAir, canvas, layout)[0], canvas)
  <2>1. computeLayout(onAir, canvas, layout) = spotlightCells(1, canvas)
    BY <1>6 DEF OddCorner, computeLayout
  <2>2. EvenCanvas(canvas) /\ canvas.width >= 2 * canvas.gap + 2 /\ canvas.height >= 2 * canvas.gap + 2
    BY <1>6, CanvasesAreValid DEF EvenCanvas
  <2> QED BY <2>1, <2>2, SpotlightAlone
<1> QED BY <1>3, <1>4, <1>5, <1>6 DEF CellsFit

LEMMA LayoutStays == LayoutTypeOK /\ [LayoutNext]_layoutVars => LayoutTypeOK'
<1> SUFFICES ASSUME LayoutTypeOK, [LayoutNext]_layoutVars PROVE LayoutTypeOK'
  OBVIOUS
<1> USE OnAirIsCounted DEF LayoutTypeOK
<1>1. CASE SourceComes
  BY <1>1 DEF SourceComes
<1>2. CASE SourceGoes
  BY <1>2 DEF SourceGoes
<1>3. ASSUME NEW i \in -1 .. onAir - 1, Spotlights(i) PROVE LayoutTypeOK'
  BY <1>3 DEF Spotlights
<1>4. CASE UNCHANGED layoutVars
  BY <1>4 DEF layoutVars
<1> QED BY <1>1, <1>2, <1>3, <1>4 DEF LayoutNext

\* layout.js and clientLayout.ts: every cell lies inside its canvas on even pixels,
\* and no two overlap where there is room, for every layout, configured canvas,
\* measured stage and number of sources on air; only one source in the spotlight
\* with an odd gutter is on odd pixels.
THEOREM LayoutSafe == LayoutInit /\ [][LayoutNext]_layoutVars => [](LayoutTypeOK /\ CellsFit)
<1>1. LayoutInit => LayoutTypeOK
  BY OnAirIsCounted DEF LayoutInit, LayoutTypeOK
<1> QED BY <1>1, LayoutStays, EverythingFits, PTL

-----------------------------------------------------------------------------
(* The WHEP client.  connect() throws away `sessionUrl` without a DELETE   *)
(* when it gets a new one.  That loses nothing because there is nothing to *)
(* throw away: while a connect() is on its way to the answer the client    *)
(* holds no session (EmptyHanded), which in turn holds because the retry   *)
(* timer never runs beside a connect() (OneAtATime).                       *)

USE DEF whepVars

OneAtATime == client.timer => step = "none"
EmptyHanded == step \in {"ice", "offer", "post"} => client.url = NoSession
HaltedIsStopped == halted => client.stopped
IdleHasNoTimer == client.state = "idle" => ~client.timer

WhepInv ==
    /\ WhepTypeOK /\ OneAtATime /\ EmptyHanded /\ HaltedIsStopped /\ IdleHasNoTimer
    /\ NoForgottenSession

USE DEF WhepTypeOK, OneAtATime, EmptyHanded, HaltedIsStopped, IdleHasNoTimer, NoForgottenSession,
        States, Peers

LEMMA WhepInitially == WhepInit => WhepInv
  <1>. SUFFICES ASSUME WhepInit PROVE WhepInv
    OBVIOUS
  <1>1. WhepTypeOK
    <2>1. client \in [stopped : BOOLEAN, decodes : BOOLEAN, timer : BOOLEAN, peer : Peers,
                      url : Sessions \cup {NoSession}, state : States]
      BY DEF WhepInit
    <2>2. session \in [Sessions -> {"free", "open", "deleting"}] /\ troubles \in 0 .. MaxTroubles
      BY TroublesAssumption DEF WhepInit
    <2>. QED  BY <2>1, <2>2 DEF WhepInit
  <1>2. OneAtATime /\ EmptyHanded /\ HaltedIsStopped /\ IdleHasNoTimer /\ NoForgottenSession
    BY DEF WhepInit
  <1>. QED  BY <1>1, <1>2 DEF WhepInv

\* teardownPeer asks for the deletion of the session that is forgotten.
LEMMA TornDownKeeps ==
    ASSUME WhepInv, teardownPeer
    PROVE  /\ session' \in [Sessions -> {"free", "open", "deleting"}]
           /\ \A s \in Sessions : session'[s] = "open" => s \in slipped \cup lost
           /\ TornDown \in [stopped : BOOLEAN, decodes : BOOLEAN, timer : BOOLEAN, peer : Peers,
                            url : Sessions \cup {NoSession}, state : States]
  <1>1. CASE client.url = NoSession
    BY <1>1, NoSessionAssumption DEF WhepInv, teardownPeer, TornDown
  <1>2. CASE client.url # NoSession
    <2>1. client.url \in Sessions /\ session' = [session EXCEPT ![client.url] = "deleting"]
      BY <1>2 DEF WhepInv, teardownPeer, Deleted
    <2>. QED  BY <2>1 DEF WhepInv, TornDown
  <1>. QED  BY <1>1, <1>2

LEMMA ConnectKeeps ==
    ASSUME WhepInv, ~halted, NEW c, Connect(c),
           c \in [stopped : BOOLEAN, decodes : BOOLEAN, timer : {FALSE}, peer : {"none"},
                  url : {NoSession}, state : States],
           UNCHANGED <<halted, slipped, lost, path, troubles>>
    PROVE  WhepInv'
  <1>1. /\ session' \in [Sessions -> {"free", "open", "deleting"}]
        /\ \A s \in Sessions : session'[s] = "open" => s \in slipped \cup lost
    BY TornDownKeeps DEF Connect
  <1>2. /\ client' \in [stopped : BOOLEAN, decodes : BOOLEAN, timer : {FALSE}, peer : {"none"},
                        url : {NoSession}, state : States]
        /\ step' \in {"none", "ice"}
    BY DEF Connect
  <1>. QED  BY <1>1, <1>2 DEF WhepInv

\* What a client that stays what it was apart from its timer and state keeps.
LEMMA RetryType ==
    ASSUME NEW c \in [stopped : BOOLEAN, decodes : BOOLEAN, timer : BOOLEAN, peer : Peers,
                      url : Sessions \cup {NoSession}, state : States]
    PROVE  /\ scheduleReconnect(c) \in [stopped : BOOLEAN, decodes : BOOLEAN, timer : BOOLEAN, peer : Peers,
                                        url : Sessions \cup {NoSession}, state : States]
           /\ scheduleReconnect(c).state = "idle" => scheduleReconnect(c) = c
           /\ scheduleReconnect(c).stopped = c.stopped
           /\ scheduleReconnect(c).peer = c.peer
           /\ scheduleReconnect(c).url = c.url
           /\ c.stopped => scheduleReconnect(c) = c
  BY DEF scheduleReconnect

LEMMA StopKeeps == ASSUME WhepInv, stop PROVE WhepInv'
  <1>1. /\ session' \in [Sessions -> {"free", "open", "deleting"}]
        /\ \A s \in Sessions : session'[s] = "open" => s \in slipped \cup lost
    BY TornDownKeeps DEF stop
  <1>2. client' \in [stopped : {TRUE}, decodes : BOOLEAN, timer : {FALSE}, peer : {"none"},
                     url : {NoSession}, state : {"idle"}]
    BY DEF stop, TornDown, WhepInv
  <1>. QED  BY <1>1, <1>2 DEF stop, WhepInv

\* The steps of connect() that end it: an answer or an error, and the timer it
\* may leave behind.
LEMMA EndKeeps ==
    ASSUME WhepInv, step' = "none", UNCHANGED <<halted, session, slipped, lost, path>>,
           troubles' \in 0 .. MaxTroubles,
           client' \in [stopped : BOOLEAN, decodes : BOOLEAN, timer : BOOLEAN, peer : Peers,
                        url : Sessions \cup {NoSession}, state : States],
           client'.url = client.url,
           halted => client'.stopped /\ client'.peer = client.peer /\ ~client'.timer,
           client'.state = "idle" => ~client'.timer
    PROVE  WhepInv'
  BY DEF WhepInv

LEMMA AnswersKeep ==
    ASSUME WhepInv, RequestFails \/ AnswerFails \/ Answer404 \/ Answer401 \/ PeerDrops
    PROVE  WhepInv'
  <1>. DEFINE Clients == [stopped : BOOLEAN, decodes : BOOLEAN, timer : BOOLEAN, peer : Peers,
                          url : Sessions \cup {NoSession}, state : States]
  <1>1. troubles' \in 0 .. MaxTroubles /\ UNCHANGED <<halted, session, slipped, lost, path>>
        /\ step' = "none"
    BY TroublesAssumption
       DEF WhepInv, RequestFails, AnswerFails, Answer404, Answer401, PeerDrops, Trouble, Caught
  <1>2. \A n \in States, p \in Peers :
          /\ [client EXCEPT !.state = n] \in Clients
          /\ [client EXCEPT !.peer = p] \in Clients
    BY DEF WhepInv
  <1>3. CASE RequestFails \/ AnswerFails
    <2>1. client' \in {client, scheduleReconnect([client EXCEPT !.state = "error"])}
          /\ (client.stopped => client' = client)
      BY <1>3 DEF RequestFails, AnswerFails, Caught
    <2>2. CASE client' = client
      BY <1>1, <2>2, EndKeeps DEF WhepInv
    <2>3. CASE ~client.stopped /\ client' = scheduleReconnect([client EXCEPT !.state = "error"])
      <3>. DEFINE c == [client EXCEPT !.state = "error"]
      <3>1. c \in Clients /\ c.url = client.url /\ c.state # "idle"
        BY <1>2 DEF WhepInv
      <3>. HIDE DEF c
      <3>2. client' \in Clients /\ client'.url = client.url /\ client'.state # "idle"
        BY <2>3, <3>1, RetryType DEF c
      <3>. QED  BY <1>1, <2>3, <3>2, EndKeeps DEF WhepInv
    <2>. QED  BY <2>1, <2>2, <2>3
  <1>4. CASE Answer404
    <2>1. client' = scheduleReconnect([client EXCEPT !.state = "offline"])
      BY <1>4 DEF Answer404
    <2>. DEFINE c == [client EXCEPT !.state = "offline"]
    <2>2. c \in Clients /\ c.url = client.url /\ c.state # "idle" /\ c.timer = client.timer
          /\ c.stopped = client.stopped /\ c.peer = client.peer
      BY <1>2 DEF WhepInv
    <2>. HIDE DEF c
    <2>3. /\ client' \in Clients /\ client'.url = client.url /\ client'.state # "idle"
          /\ client'.stopped = client.stopped /\ client'.peer = client.peer
          /\ client.stopped => client'.timer = client.timer
      BY <2>1, <2>2, RetryType DEF c
    <2>. QED  BY <1>1, <2>3, EndKeeps DEF WhepInv
  <1>5. CASE Answer401
    <2>1. client' = [client EXCEPT !.state = "error", !.stopped = TRUE] /\ client' \in Clients
      BY <1>5 DEF Answer401, WhepInv
    <2>. QED  BY <1>1, <2>1, EndKeeps DEF WhepInv
  <1>6. CASE PeerDrops
    <2>1. client' = scheduleReconnect([client EXCEPT !.peer = "down"]) /\ ~halted
      BY <1>6 DEF PeerDrops, WhepInv
    <2>. DEFINE c == [client EXCEPT !.peer = "down"]
    <2>2. c \in Clients /\ c.url = client.url /\ (c.state = "idle" => ~c.timer)
      BY <1>2 DEF WhepInv
    <2>. HIDE DEF c
    <2>3. /\ client' \in Clients /\ client'.url = client.url
          /\ client'.state = "idle" => ~client'.timer
      BY <2>1, <2>2, RetryType DEF c
    <2>. QED  BY <1>1, <2>1, <2>3, EndKeeps DEF WhepInv
  <1>. QED  BY <1>3, <1>4, <1>5, <1>6

LEMMA SessionsKeep ==
    ASSUME WhepInv, NEW s \in Sessions,
           Answer201(s) \/ DeleteArrives(s) \/ DeleteLost(s) \/ Reaped(s)
    PROVE  WhepInv'
  <1>1. CASE Answer201(s)
    BY <1>1, NoSessionAssumption DEF Answer201, WhepInv
  <1>2. CASE DeleteArrives(s)
    BY <1>2 DEF DeleteArrives, WhepInv
  <1>3. CASE DeleteLost(s)
    BY <1>3, TroublesAssumption DEF DeleteLost, Trouble, WhepInv
  <1>4. CASE Reaped(s)
    BY <1>4 DEF Reaped, WhepInv
  <1>. QED  BY <1>1, <1>2, <1>3, <1>4

LEMMA WhepSteps == WhepInv /\ [WhepNext]_whepVars => WhepInv'
  <1>. SUFFICES ASSUME WhepInv, [WhepNext]_whepVars PROVE WhepInv'
    OBVIOUS
  <1>1. ASSUME NEW decodes \in BOOLEAN, start(decodes) PROVE WhepInv'
    <2>1. [TornDown EXCEPT !.stopped = FALSE, !.decodes = decodes]
            \in [stopped : BOOLEAN, decodes : BOOLEAN, timer : {FALSE}, peer : {"none"},
                 url : {NoSession}, state : States]
      BY <1>1 DEF start, WhepInv, TornDown
    <2>. QED  BY <1>1, <2>1, ConnectKeeps DEF start
  <1>2. CASE stop
    BY <1>2, StopKeeps
  <1>3. CASE Retry
    <2>1. [TornDown EXCEPT !.timer = FALSE]
            \in [stopped : BOOLEAN, decodes : BOOLEAN, timer : {FALSE}, peer : {"none"},
                 url : {NoSession}, state : States]
      BY DEF WhepInv, TornDown
    <2>2. ~halted
      BY <1>3 DEF Retry, WhepInv
    <2>. QED  BY <1>3, <2>1, <2>2, ConnectKeeps DEF Retry
  <1>4. CASE IceServers
    BY <1>4 DEF IceServers, WhepInv
  <1>5. CASE OfferReady
    BY <1>5 DEF OfferReady, WhepInv
  <1>6. CASE RequestFails \/ AnswerFails \/ Answer404 \/ Answer401 \/ PeerDrops
    BY <1>6, AnswersKeep
  <1>7. CASE BodyArrives \/ RemoteSet
    BY <1>7 DEF BodyArrives, RemoteSet, WhepInv
  <1>8. CASE PeerConnects
    BY <1>8 DEF PeerConnects, Attached, WhepInv
  <1>9. ASSUME NEW s \in Sessions, Answer201(s) \/ DeleteArrives(s) \/ DeleteLost(s) \/ Reaped(s)
        PROVE  WhepInv'
    BY <1>9, SessionsKeep
  <1>10. ASSUME NEW p \in {"unknown", "off", "on"}, PathChanges(p) PROVE WhepInv'
    BY <1>10, TroublesAssumption DEF PathChanges, Trouble, WhepInv
  <1>11. CASE UNCHANGED whepVars
    BY <1>11 DEF WhepInv
  <1>. QED
    BY <1>1, <1>2, <1>3, <1>4, <1>5, <1>6, <1>7, <1>8, <1>9, <1>10, <1>11 DEF WhepNext

\* whep.ts: no session at MediaMTX is forgotten by the client that opened it,
\* and a client that was stopped holds neither a connection nor a timer,
\* whichever await of connect() stop() came in.
THEOREM NoSessionIsForgotten == WhepSpec => []NoForgottenSession
  <1>1. WhepInv => NoForgottenSession
    BY DEF WhepInv
  <1>. QED  BY <1>1, WhepInitially, WhepSteps, PTL DEF WhepSpec

\* The client never has two connects under way, nor one beside a retry timer.
THEOREM ConnectsOneAtATime == WhepSpec => [](OneAtATime /\ EmptyHanded)
  <1>1. WhepInv => OneAtATime /\ EmptyHanded
    BY DEF WhepInv
  <1>. QED  BY <1>1, WhepInitially, WhepSteps, PTL DEF WhepSpec
=============================================================================
