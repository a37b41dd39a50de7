-------------------------------- MODULE Site --------------------------------
(***************************************************************************)
(* The parts of the system that share no state with one another, checked   *)
(* in one run: the control plane (Catalogue), a WHEP client, version 1's   *)
(* viewer page, the React viewer, the management pages, and the layouts.   *)
(*                                                                         *)
(* `scene` is the part that is looked at and never changes, so that their  *)
(* states add up instead of multiplying; the others rest in a state of     *)
(* their own choosing.  The control plane is looked at three times, since  *)
(* its accounts, its keys and its content multiply as well.                *)
(***************************************************************************)
EXTENDS Catalogue, WhepClient, Viewer, Watch, Pages, Layout

VARIABLE scene

\* What one viewer has under way is named like what the other has.
ASSUME SameNames == Polls = Fetches

Scenes == {"accounts", "keys", "content", "whep", "viewer", "watch", "pages", "layout"}
CatalogueScenes == {"accounts", "keys", "content"}

siteVars == <<scene, catalogueVars, whepVars, viewerVars, watchVars, pagesVars, layoutVars>>

\* A part that is not looked at begins in one state only.
SiteInit ==
    /\ scene \in Scenes
    /\ CatalogueInit /\ mem = Booted(Fresh, CHOOSE u \in Users : TRUE)
    /\ WhepInit /\ (scene # "whep" => path = "off")
    /\ ViewerInit /\ (scene # "viewer" => ~server.channel)
    /\ WatchInit /\ (scene # "watch" => offers[CHOOSE c \in Slugs : TRUE].live = {})
    /\ PagesInit /\ (scene # "pages" => page = "AdminGamesPage")
    /\ LayoutInit
    /\ scene # "layout" => canvas = (CHOOSE c \in Canvases : TRUE) /\ layout = CHOOSE l \in Layouts : TRUE

-----------------------------------------------------------------------------
(* The control plane, a third at a time.                                   *)

\* Only accounts need two requests in progress at once, and owners.
OneRequest == Cardinality({r \in Requests : requests'[r] # None}) <= 1
NoOwners == \A s \in Existing(mem') : mem'.stream[s].owner = None

\* Streams for destinations and channels to refer to.
ContentStreams ==
    \E r \in Requests, s \in StreamIds :
        \/ \E k \in Keys : createStream(r, s, k, None, TRUE)
        \/ removeStream(r, s)

ControlPlane ==
    /\ scene \in CatalogueScenes
    /\ \/ StoreNext \/ RequestNext
       \/ scene = "accounts" /\ (AccountNext \/ SelfServiceNext)
       \/ scene = "keys" /\ (StreamNext \/ PublisherNext)
       \/ scene = "content" /\ (ChannelNext \/ DestNext \/ ContentStreams)
    /\ scene # "accounts" => OneRequest /\ NoOwners
    /\ UNCHANGED <<whepVars, viewerVars, watchVars, pagesVars, layoutVars>>

-----------------------------------------------------------------------------
(* One part steps, the others rest.                                        *)

InWhep(step_) ==
    /\ scene = "whep" /\ step_
    /\ UNCHANGED <<catalogueVars, viewerVars, watchVars, pagesVars, layoutVars>>
InViewer(step_) ==
    /\ scene = "viewer" /\ step_
    /\ UNCHANGED <<catalogueVars, whepVars, watchVars, pagesVars, layoutVars>>
InWatch(step_) ==
    /\ scene = "watch" /\ step_
    /\ UNCHANGED <<catalogueVars, whepVars, viewerVars, pagesVars, layoutVars>>
InPages(step_) ==
    /\ scene = "pages" /\ step_
    /\ UNCHANGED <<catalogueVars, whepVars, viewerVars, watchVars, layoutVars>>
InLayout(step_) ==
    /\ scene = "layout" /\ step_
    /\ UNCHANGED <<catalogueVars, whepVars, viewerVars, watchVars, pagesVars>>

SiteNext ==
    /\ UNCHANGED scene
    /\ \/ ControlPlane
       \/ InWhep(WhepNext) \/ InViewer(ViewerNext) \/ InWatch(WatchNext)
       \/ InPages(PagesNext) \/ InLayout(LayoutNext)

(***************************************************************************)
(* Fairness: requests of a page are answered, its timers fire, and what    *)
(* MediaMTX was told to close, or has lost the peer of, it closes.  It is  *)
(* assumed of the three viewers only, and of no click, change or failure.  *)
(* `scene` never changes, so one condition can speak of all of them.       *)
(***************************************************************************)
Asked(i) ==
    /\ UNCHANGED scene
    /\ InWhep(WhepProgress) \/ InViewer(Fetch(i)) \/ InWatch(PollAnswered(i))
Answered(i) ==
    /\ UNCHANGED scene
    /\ \/ InWhep(\E s \in Sessions : Reaped(s) \/ DeleteArrives(s))
       \/ InViewer(Answer(i))
       \/ InWatch(NotFound(i) \/ Arrives(i))
Woken(i) == UNCHANGED scene /\ InWatch(Fires(i))

SiteSpec ==
    /\ SiteInit /\ [][SiteNext]_siteVars
    /\ \A i \in Fetches : WF_siteVars(Asked(i)) /\ WF_siteVars(Answered(i)) /\ WF_siteVars(Woken(i))

-----------------------------------------------------------------------------
\* Each part is looked at in its own scene.
SiteTypeOK ==
    CASE scene \in CatalogueScenes -> CatalogueTypeOK
      [] scene = "whep"   -> WhepTypeOK
      [] scene = "viewer" -> ViewerTypeOK
      [] scene = "watch"  -> WatchTypeOK
      [] scene = "pages"  -> PagesTypeOK
      [] scene = "layout" -> LayoutTypeOK

\* Neither viewer loses track of what it plays: in app.js whatever plays into a
\* tile can still be stopped through one of a source on air, and the React
\* viewer's grid, list and sound are of the page that is open, or of a loop that
\* went astray.
ViewersKeepTrack ==
    /\ PlayersAreHeld
    /\ NothingOfElsewhere

\* Once streams, access, failures and clicks are done, every viewer arrives: a
\* WHEP client that was not stopped plays what is on air, and both viewer pages
\* show what the server has.
Arrived ==
    CASE scene = "whep"   -> Plays
      [] scene = "viewer" -> ShowsTheState
      [] scene = "watch"  -> ShowsTheServer
      [] OTHER -> TRUE
ViewersArrive == <>[]Arrived
=============================================================================
