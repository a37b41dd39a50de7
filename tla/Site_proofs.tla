---------------------------- MODULE Site_proofs ----------------------------
(***************************************************************************)
(* Theorems about the parts that share no state, together: what a step of  *)
(* the whole is to each part is a step of the part, or nothing, so that    *)
(* what is proved of the parts holds of the whole; for any number of       *)
(* accounts, streams, channels, requests, sessions, polls and handlers.    *)
(***************************************************************************)
EXTENDS Site, Catalogue_proofs, Viewers_proofs, Pages_proofs

\* The control plane takes a third of its steps in each of its scenes.
LEMMA ControlPlaneSteps == [SiteNext]_siteVars => [CatalogueNext]_catalogueVars
<1> SUFFICES ASSUME [SiteNext]_siteVars PROVE CatalogueNext \/ UNCHANGED catalogueVars
  OBVIOUS
<1>1. CASE ControlPlane
  <2>1. ContentStreams => StreamNext
    <3> SUFFICES ASSUME NEW r \in Requests, NEW s \in StreamIds,
                        (\E k \in Keys : createStream(r, s, k, None, TRUE)) \/ removeStream(r, s)
                 PROVE  StreamNext
      BY DEF ContentStreams
    <3>1. ASSUME NEW k \in Keys, createStream(r, s, k, None, TRUE) PROVE StreamNext
      <4>1. None \in Users \cup {None} /\ TRUE \in BOOLEAN
        OBVIOUS
      <4> QED BY <3>1, <4>1 DEF StreamNext
    <3>2. CASE removeStream(r, s)
      BY <3>2 DEF StreamNext
    <3> QED BY <3>1, <3>2
  <2> QED BY <1>1, <2>1 DEF ControlPlane, CatalogueNext
<1>2. CASE InWhep(WhepNext)
  BY <1>2 DEF InWhep
<1>3. CASE InViewer(ViewerNext)
  BY <1>3 DEF InViewer
<1>4. CASE InWatch(WatchNext)
  BY <1>4 DEF InWatch
<1>5. CASE InPages(PagesNext)
  BY <1>5 DEF InPages
<1>6. CASE InLayout(LayoutNext)
  BY <1>6 DEF InLayout
<1>7. CASE UNCHANGED siteVars
  BY <1>7 DEF siteVars
<1> QED BY <1>1, <1>2, <1>3, <1>4, <1>5, <1>6, <1>7 DEF SiteNext

LEMMA PartsStep ==
    [SiteNext]_siteVars =>
        /\ [WhepNext]_whepVars /\ [ViewerNext]_viewerVars /\ [WatchNext]_watchVars
        /\ [PagesNext]_pagesVars /\ [LayoutNext]_layoutVars
<1> SUFFICES ASSUME [SiteNext]_siteVars
             PROVE  /\ WhepNext \/ UNCHANGED whepVars
                    /\ ViewerNext \/ UNCHANGED viewerVars
                    /\ WatchNext \/ UNCHANGED watchVars
                    /\ PagesNext \/ UNCHANGED pagesVars
                    /\ LayoutNext \/ UNCHANGED layoutVars
  OBVIOUS
<1>1. CASE ControlPlane
  BY <1>1 DEF ControlPlane
<1>2. CASE InWhep(WhepNext)
  BY <1>2 DEF InWhep
<1>3. CASE InViewer(ViewerNext)
  BY <1>3 DEF InViewer
<1>4. CASE InWatch(WatchNext)
  BY <1>4 DEF InWatch
<1>5. CASE InPages(PagesNext)
  BY <1>5 DEF InPages
<1>6. CASE InLayout(LayoutNext)
  BY <1>6 DEF InLayout
<1>7. CASE UNCHANGED siteVars
  BY <1>7 DEF siteVars
<1> QED BY <1>1, <1>2, <1>3, <1>4, <1>5, <1>6, <1>7 DEF SiteNext

LEMMA PartsBegin ==
    SiteInit => /\ CatalogueInit /\ WhepInit /\ ViewerInit /\ WatchInit /\ PagesInit /\ LayoutInit
                /\ scene \in Scenes
BY DEF SiteInit

\* The whole is each of its parts.
LEMMA SiteIsItsParts ==
    SiteSpec => /\ CatalogueSpec /\ WhepSpec /\ ViewerSpec
                /\ WatchInit /\ [][WatchNext]_watchVars
                /\ PagesInit /\ [][PagesNext]_pagesVars
                /\ LayoutInit /\ [][LayoutNext]_layoutVars
<1>1. SiteInit => CatalogueInit /\ WhepInit /\ ViewerInit /\ WatchInit /\ PagesInit /\ LayoutInit
  BY PartsBegin
<1>2. [SiteNext]_siteVars =>
          /\ [CatalogueNext]_catalogueVars /\ [WhepNext]_whepVars /\ [ViewerNext]_viewerVars
          /\ [WatchNext]_watchVars /\ [PagesNext]_pagesVars /\ [LayoutNext]_layoutVars
  BY ControlPlaneSteps, PartsStep
<1> QED BY <1>1, <1>2, PTL DEF SiteSpec, CatalogueSpec, WhepSpec, ViewerSpec

LEMMA SceneStays == SiteSpec => [](scene \in Scenes)
<1>1. SiteInit => scene \in Scenes
  BY PartsBegin
<1>2. scene \in Scenes /\ [SiteNext]_siteVars => (scene \in Scenes)'
  BY DEF SiteNext, siteVars
<1> QED BY <1>1, <1>2, PTL DEF SiteSpec

----------------------------------------------------------------------------
(* What holds of each part at all times. *)

LEMMA EachPartIsTyped ==
    SiteSpec => [](CatalogueTypeOK /\ WhepTypeOK /\ ViewerTypeOK /\ WatchTypeOK
                      /\ PagesTypeOK /\ LayoutTypeOK)
<1>1. WhepInv => WhepTypeOK
  BY DEF WhepInv
<1>2. ViewerInv => ViewerTypeOK
  BY DEF ViewerInv
<1>3. WatchInv => WatchTypeOK
  BY DEF WatchInv
<1> QED BY <1>1, <1>2, <1>3, SiteIsItsParts, CatalogueTypes, WhepInitially, WhepSteps, ViewerSafe,
           WatchSafe, PagesSafe, LayoutSafe, PTL DEF WhepSpec

\* Whichever part is looked at, its state is well formed.
THEOREM SiteTypes == SiteSpec => []SiteTypeOK
<1>1. /\ scene \in Scenes
      /\ CatalogueTypeOK /\ WhepTypeOK /\ ViewerTypeOK /\ WatchTypeOK /\ PagesTypeOK /\ LayoutTypeOK
      => SiteTypeOK
  BY DEF SiteTypeOK, Scenes, CatalogueScenes
<1> QED BY <1>1, SceneStays, EachPartIsTyped, PTL

\* app.js, and usePolledState.ts with the pages it serves: in whatever order the
\* answers, scripts, clicks and changes of page come, what plays into a tile is
\* held by one of a source on air, and what is shown and heard is of the page that
\* is open, or of a poll that was under way when it was opened.
THEOREM EveryPlayerIsHeld == SiteSpec => []ViewersKeepTrack
<1>1. ViewerInv /\ WatchInv => ViewersKeepTrack
  BY DEF ViewerInv, WatchInv, ViewersKeepTrack
<1> QED BY <1>1, SiteIsItsParts, ViewerSafe, WatchSafe, PTL

\* layout.js and clientLayout.ts: every source on air that the layout has a place
\* for gets a cell on even pixels inside its canvas, apart from the others where
\* there is room, for any canvas, measured stage, gutter and number of sources;
\* one source in the spotlight with an odd gutter is inside, on odd pixels.
THEOREM EveryCellFits == SiteSpec => []CellsFit
BY SiteIsItsParts, LayoutSafe, PTL

\* The management pages of both versions: once nothing is under way, whatever the
\* user was told was done can be seen, for any number of handlers that run at
\* once; save where an answer did not come, came out of order, or another request
\* sent the whole list.
THEOREM WhatWasDoneShows == SiteSpec => []ShowsWhatItDid
BY SiteIsItsParts, PagesSafe, PTL

\* The control plane keeps its promises beside the viewers and the pages too.
THEOREM ControlPlaneIsSafe ==
    SiteSpec => [](AdminRemains /\ QuotaHolds /\ NothingDangles /\ RetiredPublishersDropped
                      /\ ImagesMatch /\ NothingUnsaved)
BY SiteIsItsParts, AnAdminRemains, QuotasHold, NothingIsDangling, RetiredAreDropped, ImagesAreThere,
   EveryChangeIsWritten, PTL

\* And so does the WHEP client.
THEOREM ClientIsSafe == SiteSpec => [](NoForgottenSession /\ OneAtATime /\ EmptyHanded)
BY SiteIsItsParts, NoSessionIsForgotten, ConnectsOneAtATime, PTL
=============================================================================
