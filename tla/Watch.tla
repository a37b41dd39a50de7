--------------------------------- MODULE Watch ---------------------------------
(***************************************************************************)
(* Watching in the React app: the page of a channel, or the global viewer, *)
(* polls the server for what is on air (usePolledState) and composes it;   *)
(* the list of streams in the navigation hides and spotlights sources, for *)
(* this browser only (ChannelPrefsContext); the bar over the grid plays    *)
(* the sound of one source (PlayerOverlay).                                *)
(***************************************************************************)
EXTENDS Naturals, FiniteSets

CONSTANTS Slugs,       \* the channels
          Feeds,       \* streams a channel may show
          Polls,       \* loops of usePolledState, however started
          MaxSteps,    \* bound: changes at the server, clicks, failures
          Null         \* nothing

VARIABLES
    offers,    \* offers[u]: what the poll of u is answered; Null is a 404
    homepage,  \* the channel the global viewer sends its visitors to, or Null
    route,     \* the page that is open
    poll,      \* poll[i]: [url, step, answer], or Null
    timer,     \* timerRef: the loop that set the last timer
    hook,      \* [state, notFound, error] of usePolledState
    prefs,     \* [slug, onAir, hidden, spotlight] of ChannelPrefsContext
    stored,    \* stored[slug]: the hidden keys localStorage has
    listening, \* PlayerOverlay's activeKey
    watched    \* steps taken, for the bound only

watchVars == <<offers, homepage, route, poll, timer, hook, prefs, stored, listening, watched>>

Addresses == Slugs \cup {"home"}
Snapshot == [of : Addresses, live : SUBSET Feeds, closed : SUBSET Feeds, home : Slugs \cup {Null}]
Loops == [url : Addresses, step : {"asking", "answered", "waiting"}, answer : Snapshot \cup {Null}]

\* `null` is none of them, and no channel has the address of another page.
ASSUME NullApart == Null \notin Slugs \cup Feeds \cup Snapshot \cup Loops
ASSUME SlugsApart == {"home", "elsewhere"} \cap Slugs = {}

\* A stream the viewer may not reach gets a card in place of a player, and no
\* sound; what a browser cannot play is not told apart from what it can.
Offer(u, live, closed) == [of |-> u, live |-> live, closed |-> closed, home |-> Null]

Blank == [state |-> Null, notFound |-> FALSE, error |-> FALSE]
NoChannel == [slug |-> Null, onAir |-> {}, hidden |-> {}, spotlight |-> Null]

-----------------------------------------------------------------------------
(* What is on the page.                                                    *)

\* The channel's page answers notFound and an error first; the global viewer
\* knows no 404.
Composed(u, h, p) ==
    IF h.state = Null \/ (u \in Slugs /\ h.notFound) THEN {}
    ELSE h.state.live \ (IF u \in Slugs THEN p.hidden ELSE {})

\* The tiles with a session of their own.
Players(u, h, p) == IF Composed(u, h, p) = {} THEN {} ELSE Composed(u, h, p) \ h.state.closed

\* The sources whose sound can be picked; hidden ones too.
candidates(h) == IF h.state = Null THEN {} ELSE h.state.live \ h.state.closed

\* The bar lives in the grid, and forgets a source that is no candidate.
Hears(key, u, h, p) == IF Composed(u, h, p) # {} /\ key \in candidates(h) THEN key ELSE Null

Shows(u, h, p) ==
    /\ hook' = h /\ prefs' = p
    /\ listening' = Hears(listening, u, h, p)

-----------------------------------------------------------------------------
(* ChannelPrefsContext.                                                    *)

\* Another channel brings its own hidden keys.
setChannelStreams(slug, live) ==
    IF prefs.slug = slug THEN [prefs EXCEPT !.onAir = live]
    ELSE [slug |-> slug, onAir |-> live, hidden |-> stored[slug], spotlight |-> Null]

Toggle(set, x) == IF x \in set THEN set \ {x} ELSE set \cup {x}

Step == watched < MaxSteps /\ watched' = watched + 1

toggleHidden(key) ==
    LET hidden == Toggle(prefs.hidden, key)
    IN  /\ Step /\ key \in prefs.onAir
        /\ stored' = [stored EXCEPT ![prefs.slug] = hidden]
        /\ Shows(route, hook, [prefs EXCEPT !.hidden = hidden])
        /\ UNCHANGED <<offers, homepage, route, poll, timer>>

toggleSpotlight(key) ==
    /\ Step /\ key \in prefs.onAir
    /\ Shows(route, hook, [prefs EXCEPT !.spotlight = IF @ = key THEN Null ELSE key])
    /\ UNCHANGED <<offers, homepage, route, poll, timer, stored>>

reset ==
    /\ Step /\ prefs.onAir # {}
    /\ stored' = [stored EXCEPT ![prefs.slug] = {}]
    /\ Shows(route, hook, [prefs EXCEPT !.hidden = {}, !.spotlight = Null])
    /\ UNCHANGED <<offers, homepage, route, poll, timer>>

\* A chip of the bar; Null is "Muted".
PickSound(key) ==
    /\ Step /\ Composed(route, hook, prefs) # {} /\ key \in candidates(hook) \cup {Null}
    /\ listening' = key
    /\ UNCHANGED <<offers, homepage, route, poll, timer, hook, prefs, stored>>

-----------------------------------------------------------------------------
(* Pages come and go.                                                      *)

Asks(u) == [url |-> u, step |-> "asking", answer |-> Null]

\* A page opens with a hook of its own.  Whatever the one before had under way
\* finds stoppedRef set; and a channel's page clears the list as it goes.
Mount(u) ==
    /\ route' = u
    /\ poll' = [i \in Polls |-> IF u # "elsewhere" /\ i = CHOOSE j \in Polls : TRUE THEN Asks(u) ELSE Null]
    /\ timer' = Null
    /\ Shows(u, Blank, NoChannel)

\* From one channel to another the page stays, and only the hook's effect runs
\* again: it cancels the last timer that was set, and clears stoppedRef for the
\* loop of the old address too, should that one be waiting for an answer.  The
\* old state is handed to the list once more, under the new slug.
ChangeUrl(u) ==
    LET left == [i \in Polls |-> IF i = timer /\ poll[i] # Null /\ poll[i].step = "waiting" THEN Null ELSE poll[i]]
        free == {i \in Polls : left[i] = Null}
    IN  /\ free # {}
        /\ route' = u
        /\ poll' = [left EXCEPT ![CHOOSE i \in Polls : i \in free] = Asks(u)]
        /\ Shows(u, Blank, IF hook.state = Null THEN prefs ELSE setChannelStreams(u, hook.state.live))
        /\ UNCHANGED timer

Navigate(u) ==
    /\ Step /\ u # route
    /\ IF route \in Slugs /\ u \in Slugs THEN ChangeUrl(u) ELSE Mount(u)
    /\ UNCHANGED <<offers, homepage, stored>>

-----------------------------------------------------------------------------
(* usePolledState.                                                         *)

Current(u) ==
    CASE u = "home" -> [offers[u] EXCEPT !.home = homepage]
      [] OTHER -> offers[u]

PollAnswered(i) ==
    /\ poll[i] # Null /\ poll[i].step = "asking"
    /\ poll' = [poll EXCEPT ![i].step = "answered", ![i].answer = Current(poll[i].url)]
    /\ UNCHANGED <<offers, homepage, route, timer, hook, prefs, stored, listening, watched>>

Waits(i) ==
    /\ poll' = [poll EXCEPT ![i].step = "waiting", ![i].answer = Null]
    /\ timer' = i

NotFound(i) ==
    /\ poll[i] # Null /\ poll[i].step = "answered" /\ poll[i].answer = Null
    /\ Waits(i)
    /\ Shows(route, [hook EXCEPT !.notFound = TRUE, !.error = FALSE], prefs)
    /\ UNCHANGED <<offers, homepage, route, stored, watched>>

\* The page reports what it shows under the slug it is open at.
Arrives(i) ==
    /\ poll[i] # Null /\ poll[i].step = "answered" /\ poll[i].answer # Null
    /\ LET answer == poll[i].answer
           h == [state |-> answer, notFound |-> FALSE, error |-> FALSE]
       IN  IF route = "home" /\ answer.home # Null
           THEN Mount(answer.home)
           ELSE /\ Waits(i)
                /\ Shows(route, h, IF route \in Slugs THEN setChannelStreams(route, answer.live) ELSE prefs)
                /\ UNCHANGED route
    /\ UNCHANGED <<offers, homepage, stored, watched>>

PollFails(i) ==
    /\ Step /\ poll[i] # Null /\ poll[i].step \in {"asking", "answered"}
    /\ Waits(i)
    /\ Shows(route, [hook EXCEPT !.error = TRUE], prefs)
    /\ UNCHANGED <<offers, homepage, route, stored>>

Fires(i) ==
    /\ poll[i] # Null /\ poll[i].step = "waiting"
    /\ poll' = [poll EXCEPT ![i].step = "asking"]
    /\ UNCHANGED <<offers, homepage, route, timer, hook, prefs, stored, listening, watched>>

\* Streams start and stop, access is given and withdrawn, a channel is deleted,
\* a homepage is chosen.
OffersChange ==
    /\ Step
    /\ \/ \E u \in Addresses, s \in Feeds :
            /\ offers[u] # Null
            /\ \/ offers' = [offers EXCEPT ![u].live = Toggle(@, s)]
               \/ offers' = [offers EXCEPT ![u].closed = Toggle(@, s)]
            /\ UNCHANGED homepage
       \/ \E u \in Slugs : offers' = [offers EXCEPT ![u] = Null] /\ UNCHANGED homepage
       \/ \E u \in Slugs \cup {Null} : homepage # u /\ homepage' = u /\ UNCHANGED offers
    /\ UNCHANGED <<route, poll, timer, hook, prefs, stored, listening>>

-----------------------------------------------------------------------------

WatchInit ==
    /\ \E u \in Slugs : offers = [p \in Addresses |-> Offer(p, IF p = u THEN {} ELSE Feeds, {})]
    /\ homepage = Null /\ route = "elsewhere"
    /\ poll = [i \in Polls |-> Null] /\ timer = Null
    /\ hook = Blank /\ prefs = NoChannel /\ stored = [u \in Slugs |-> {}]
    /\ listening = Null /\ watched = 0

WatchNext ==
    \/ \E key \in Feeds : toggleHidden(key) \/ toggleSpotlight(key)
    \/ \E key \in Feeds \cup {Null} : PickSound(key)
    \/ reset
    \/ \E u \in Addresses \cup {"elsewhere"} : Navigate(u)
    \/ \E i \in Polls : PollAnswered(i) \/ NotFound(i) \/ Arrives(i) \/ PollFails(i) \/ Fires(i)
    \/ OffersChange

-----------------------------------------------------------------------------

WatchTypeOK ==
    /\ offers \in [Addresses -> Snapshot \cup {Null}] /\ homepage \in Slugs \cup {Null}
    /\ route \in Addresses \cup {"elsewhere"}
    /\ poll \in [Polls -> Loops \cup {Null}]
    /\ hook \in [state : Snapshot \cup {Null}, notFound : BOOLEAN, error : BOOLEAN]
    /\ prefs \in [slug : Slugs \cup {Null}, onAir : SUBSET Feeds, hidden : SUBSET Feeds,
                   spotlight : Feeds \cup {Null}]
    /\ stored \in [Slugs -> SUBSET Feeds] /\ listening \in Feeds \cup {Null}

\* A loop that polls an address the page has left.
Astray == {i \in Polls : poll[i] # Null /\ poll[i].url # route}

\* The grid is of the page that is open, or of one whose poll was under way when
\* the page moved on; what is hidden is what this channel's visitor hid, here or
\* last time, in this channel and no other; and nobody hears a source that
\* cannot be picked, or one of a grid that is gone.
NothingOfElsewhere ==
    /\ hook.state # Null => hook.state.of \in {route} \cup {poll[i].url : i \in Astray}
    /\ hook.state # Null /\ route \in Slugs => prefs.slug = route
    /\ prefs.slug # Null => prefs.hidden = stored[prefs.slug]
    /\ listening # Null => listening \in candidates(hook) /\ Composed(route, hook, prefs) # {}
    /\ Players(route, hook, prefs) \cap prefs.hidden = {}

\* The page comes to show what the server has.
ShowsTheServer ==
    \/ route = "elsewhere" \/ Astray # {}
    \/ IF offers[route] = Null THEN hook.notFound ELSE hook.state = Current(route) /\ ~hook.notFound
================================================================================
