# Stream Composer in TLA+

Stream Composer takes live streams in (MediaMTX), composes those of a channel into one
video (ffmpeg, run by the compositor service), shows streams and compositions to viewers
(through the Go data plane and the React client) and forwards them to restream
destinations (ffmpeg, run by the data plane). Rails holds accounts and configuration.

The repository also holds version 1 of the same product, `src/server`: one Node process
that does all of this, with its own pages. Both are modelled.

This directory holds TLA+ modules of the concurrent parts of the two, the TLC
configurations that check them on small instances, and theorems about them checked by
TLAPS. `PROJECT.json` lists components, runs, the mutation each property is tested
against, the source lines behind each definition, the disagreements found, the hazards of
the code and the theorems.

    tlc -config Compositor.cfg Compositor         # a run
    tlapm Compositor_proofs.tla                   # a proof module

## 1. Inventory

Paths are under `src/go-service/internal` unless they start with `src/`.

| component | state it keeps | operations | interacts with |
|---|---|---|---|
| compositor `Runner` (`compositor/`, `src/go-service/cmd/compositor`) | `running`, `health`, `backoff` by job id, one mutex; ffmpeg processes | StartJob, StopJob, StopAll, StatusOf, List; goroutines: progress reader, stderr reader, Wait, SIGKILL timer | HTTP API called by the scheduler; ffmpeg reads and publishes at MediaMTX |
| composition scheduler (`compositionscheduler/`) | live generation, signature, number, debounce entry, warm-up and drains by composition | Tick every poll interval | store, MediaMTX's stream list, compositor API, `Generations` |
| `Generations` | live path and number by composition | Set, Clear, Current | written by the scheduler; read by the relay runner and the media proxy |
| relay runner (`relayrunner/`) | `running`, `health` (with RetryAt), `backoff` by relay, one mutex; ffmpeg processes | Tick, StopAll; the same goroutines | store, MediaMTX, `Generations`, destinations |
| media proxy (`mediaproxy/`) | previews: an ffmpeg per viewer, switched at every handoff | HTTP proxying, ServePreview | store, `Generations`, MediaMTX |
| stream store (`streamstore/`) | one snapshot of Rails' data | Replace (bridges), finders | Rails' internal API or a JSON file |
| audio monitor, playability, source selector | measured levels, probe results, the choice made last | Tick, probes, Select | MediaMTX, ffmpeg / ffprobe |
| access, authhook, sessionauth, channelstate, viewerstate, layout | none | decisions and projections of one request | store, Rails' sessions |
| Rails (`src/rails-service`) | users, sessions, 2FA, streams, channels, compositions, relays, settings | JSON API, internal API | SQLite |
| React client (`src/react-app`) | WHEP connections, polled state, the lists and forms of each page | connect / reconnect, poll, hide, spotlight, pick sound, every form | data plane, Rails |

Version 1; paths are under `src/server`:

| component | state it keeps | operations | interacts with |
|---|---|---|---|
| `src/compositor.js` with `playability.js` | desired and applied signature, settling and restart timers, the tracked encoder; a verdict per source | tick every 2 s, apply, nudge, stop; ffprobe answers | MediaMTX's list, store, ffmpeg |
| `src/relays.js` | `running` and health per destination | tick, stopOne, add / update / remove, stop | the same |
| `src/audioRelay.js` | `running` and backoff per source | tick, stop | the same |
| `src/store.js` | the configuration in memory and in one file | update, save, load | everything |
| `src/auth.js`, `access.js`, `streams.js`, `channels.js`, `relays.js`, `routes/*` | accounts, streams and keys, channels and images, destinations | the JSON API; every request reads its user before its body | store |
| `src/hooks.js`, `mediamtx.js`, `proxy.js` | none | authorise a publisher, list sources, kick a publisher, pass WHEP and HLS through | MediaMTX |
| `src/layout.js` | none | cells of a layout | compositor, pages |
| `public/assets/app.js`, `whep.js` | fetched state, tiles, clients | refresh every 3 s, tiles, sound, the pill | the API, MediaMTX |
| `public/assets/{streamer,channels,admin}.js` | lists and forms | one request per control, then reloads | the API |
| `src/index.js`, `encoder.js`, `logger.js` | loops | start, shutdown | all of it |

What is hard, and what makes each component correct:

* **Compositor.** A start is two locked sections with a fork between them, and four
  goroutines per process report later, by job id. Correct means: no encoder is lost, what
  is reported is true, the cap is kept, a death is noticed, a crash is retried.
* **Scheduler.** Each Tick makes several HTTP calls, each of which may fail before or after
  it took effect, while sources flap and both services may restart. Correct means: viewers
  are never sent to a generation that does not run, never have theirs restarted or stopped
  under them, encoders neither thrash nor leak, and the wanted configuration is reached (it
  is not always: see `scheduler_drain`).
* **Relay runner.** The decision to start is taken under the lock and carried out outside
  it. Correct means: a destination is fed by one process, never after it was switched off,
  never more often than its delay allows, and from the live generation.
* **Media proxy, store, audio monitor, playability.** Snapshots and caches that may be
  stale when used; a preview must change over with each handoff.
* **Rails.** Checks and writes of concurrent requests: quotas, the last administrator,
  codes that may be used once, references to what was deleted.
* **Version 1's supervisors.** One thread, but every poll awaits MediaMTX and polls are not
  serialised: two may be under way, and operators, exits, timers and the shutdown come in
  between. Correct means: every ffmpeg that was not told to stop is the one that is
  tracked, one per programme, destination and source; nothing that changed is forgotten;
  what runs comes to follow what publishes and what is configured.
* **Version 1's control plane.** A request acts with a copy of its user that was made
  before its body arrived, and writes are coalesced. Correct means: an administrator
  remains, quotas hold, nothing refers to what is gone, a retired key loses its publisher,
  images match their channels, and no change is left out of the file.
* **Viewers.** Answers, timers and scripts come late and out of order. Correct means:
  sessions are closed, the page keeps hold of whatever plays in it, nobody hears a source
  that is not on air, and the page comes to show what the server has.
* **Management pages.** Handlers overlap and nothing is cancelled. Correct means: what the
  user was told was done is on the page once it rests.
* **Layouts.** Correct means: every source that has a cell has it inside the canvas, of
  even size and position, and apart from the others, for any gutter, any number of sources
  and any stage the page may have.

## 2. Modules

| module | models | kind |
|---|---|---|
| `Compositor` | `compositor.go` | one component, every goroutine |
| `MCCompositor` | | `Compositor` with its symmetry, for TLC |
| `Compositor_proofs` | | theorems about `Compositor` |
| `CompositionScheduler` | `compositionscheduler.go`, `generations.go`, with the compositor as its callers see it | component and environment |
| `CompositionScheduler_proofs` | | theorems about `CompositionScheduler` |
| `Handoff` | what a warm handoff promises a viewer | abstract specification, refined by `CompositionScheduler` |
| `RelayRunner` | `relayrunner.go`, `tick.go` | one component, every goroutine |
| `RelayRunner_proofs` | | theorems about `RelayRunner` |
| `Ingest` | what MediaMTX lists (`mediamtx.js`), the shutdown flag | shared by the next three |
| `Programme` | `compositor.js`, `playability.js` | one component |
| `Restream` | `relays.js` | one component |
| `AudioMonitor` | `audioRelay.js` | one component |
| `NodeMedia` | `index.js` over the three | composition, with fairness |
| `MCNodeMedia` | | constants of `NodeMedia` |
| `NodeMedia_proofs` | | theorems about `NodeMedia`, component by component |
| `Catalogue` | `store.js`, `auth.js`, `streams.js`, `channels.js`, `relays.js` (as configuration), `routes/`, `hooks.js` | the control plane |
| `Catalogue_proofs` | | theorems about `Catalogue` |
| `WhepClient` | React's `whep.ts`, with MediaMTX and `proxy.js` as it sees them | one component and environment |
| `Viewer` | `app.js` | version 1's viewer page |
| `Watch` | `usePolledState.ts`, `ChannelPrefsContext.tsx`, the viewer pages, `PlayerOverlay.tsx` | React's viewer |
| `Pages` | every management page of both | one program, a table per page |
| `Layout` | `layout.js`, `clientLayout.ts` | algorithms, checked over a small state machine |
| `Viewers_proofs` | | theorems about `Viewer`, `Watch`, `Layout` and `WhepClient` |
| `Pages_proofs` | | theorems about `Pages` |
| `Site`, `MCSite` | the parts that share no state | composition of the six above, one run for all of them |
| `Site_proofs` | | what is proved of the six holds of the composition |

### Compositor

`running`, `health` and `backoff` are the maps of the Runner (`health` keeps the State
only). `pc`, `arg` and `child` are where each HTTP handler is inside StartJob/startOne.
`life`, `owner`, `attached`, `signalled`, `sawData` and `lines` are the processes: whether
one exists, for which job it was started, whether its goroutines run, whether it was told
to stop, and what its readers have scanned and not yet recorded. A locked section is one
action; the fork is another (`Spawn`), and so is each goroutine's arrival at the lock
(`Reap`, `RecordFrame`, `RecordStderr`). `Scan` is separate from `RecordFrame` because a
line may be scanned before a process ends and be recorded after that.

`OneStartPerJob` says whether two StartJob calls for one id may overlap. In the deployed
system they do not: the scheduler is the only caller and makes one call at a time. With
overlapping calls both register and the first process is lost; the hazard is listed.
NoOrphan and StatusTruth are stated under the assumption, CapBound without it.

### CompositionScheduler and Handoff

A Tick is cut at its HTTP calls. `Tick(d)` reads the store and MediaMTX (`snap`) and lets
`d` units of time pass; `reconcileOne` becomes WarmupNotReady, WarmupReady, Supersede,
SteadyState, Debounce and startWarmup, each with the calls it makes; processDraining,
cancelUnwanted and stopUnwanted collect what is due under the lock and then stop one job
at a time. Each call has a `fault`: "none", "lost" (no effect, an error) or "late" (takes
effect, an error). What stands for the compositor is `jobs`, the state GET /jobs/{id}
would answer; it is moved by GoLive, EncoderDies and CompositorRestarts.

A Tick reads the clock once, so time stamps are kept as ages at the current Tick, capped at
MaxStabilize, beyond which no comparison distinguishes them; `stopAt` is kept as the time
left. A Tick that returns early because ListIngest failed changes nothing and is a stutter
of the model.

The store is read in several calls and MediaMTX once after; the module reads them as one
value. What a torn read could yield is a signature, and every signature may be read.

`Handoff` has no Ticks, calls or time: generations are asked for, become the one that is
shown, and are told to stop. Its guards are the promise of the package comment: a
generation viewers are sent to was asked for, is not restarted under them, and is stopped
only once they are sent elsewhere or the composition is not wanted any more. The
refinement maps `shown` to the Generations registry, `asked` to the compositor's jobs and
`wanted` to what the current Tick saw.

### RelayRunner

The maps of the Runner, with RetryAt kept as the time left until it (`retryIn`); the Tick
in progress (`pc`, the relays it read, what it saw of the sources, the ones still to do,
the one being started); the processes. `resolveSource` reads the composition and its
generation at the moment of the decision, everything else from what the Tick read before:
`Unavailable` and `Waiting` make that difference. A process identity is free again once
both readers have ended (`Forget`), so a small number of identities gives runs of any
length.

### NodeMedia: Ingest, Programme, Restream, AudioMonitor

JavaScript runs a handler to its next await, so an action is a handler, or a part of one
between two awaits: a poll is `Poll` (what it reads first), the answer it holds, and
`PollAnswered`; apply() is cut at its sleep of 250 ms (`sleep`, `WakeUp`). A publishing
session is a number, which stands for MediaMTX's readyTime: a source that was published
again is told apart from one that stayed. `polls`, `ticks` and `audioTicks` are the polls
under way with the answer each will get; the code does not limit them, the constants do.
A signature is the set of sources selected with what matters of the configuration.
`quick` is a setting: stabilizeMs below apply()'s sleep, with which an apply() that is due
may find another asleep and be dropped.

Times are classes. `pending` is when the set began to change: "fresh" or longer ago than
the longest wait. Retry delays are over or not. A process is "told" from its SIGTERM until
it exits; `feed` and `codec` also know whom a process was started for, since its handlers do.

relays.js filters its destinations before the await and holds the store's own objects, so
an edit is seen afterwards while one that was deleted is still on the list; the model
keeps that difference.

`site` says which supervisor an installation uses. The three share nothing but what
`Ingest` declares, and the device keeps TLC from multiplying their states; the theorems
are about `MediaSpec` as well, but their steps are proved of each supervisor alone.

### Catalogue

`mem` is store.js's `data`, `disk` the file, `writeQueued` the pending flush. A request is
two steps, `Handle` with `requests[r]` the copy of its account made before the body was
read, because attachUser runs before express.json's await. Handlers have no await between
a check and the change, which is why they are one action. A kick reads MediaMTX's lists
later (`kicks`), while a publisher may be accepted by the hook and not be in a list yet
(`publisher`). `spent`, `best`, `missed`, `unsaved` and `hurt` are history for the
properties: identifiers used up, the largest quota granted, kicks that found nobody, a
write that failed, images a crash or a failed write may have lost.

### WhepClient, Viewer, Watch, Pages

`WhepClient` cuts connect() at its five awaits (`step`) and lets stop(), the peer's events
and the retry timer come at each. MediaMTX's side is `session`: a session is open from its
201 until its DELETE arrives or its peer is found gone. `slipped` are sessions opened for
a client stop() had overtaken, `lost` those whose DELETE failed.

`Viewer` is app.js's `app` object. Each tile has a number, so a client or an hls.js object
that plays into an element of the past is seen (`playing`, `loading`).

`Watch` keeps every loop of usePolledState, including the one that goes on for an address
the page has left (`Astray`), and the preferences by channel with what localStorage has.

`Pages` is one program: a page has loads (sets of requests shown together), operations
(what they change at the server, whether they send a list whole, and what the handler does
with the answer: reload, take it, leave) and controls (which flag disables them, in whose
row they are). Each handler of each page is one row of that table. What a list holds is
the set of edits it reflects, so a lost, late or overwritten one can be seen to be missing.

### Layout

Sizes are integers. Both the encoder's grids and the browser's are defined as the code
computes them, rounding included; `CellsFit` compares them with what a layout is: inside,
on even pixels, apart. "Apart" is asked where there is room for the cells at more than the least
size the code gives them (`Room`). Its actions, sources that come and go and a spotlight
that moves, only enumerate the inputs. `Canvases` are what an administrator may configure
(at least 320 by 180); `Stages` are what ComposedGrid measures, down to 2 by 2, and only
the browser's grid is asked of them.

### Site

`Site` extends the six modules and adds one variable: `scene` picks the part that is looked
at and never changes, so that the states of parts that share nothing add up instead of
multiplying. A step of the whole is, to each part, a step of the part or nothing. The control plane is looked at in thirds as well
(accounts and self-service, keys and publishers, channels and destinations); what
`Catalogue_proofs` proves is of all operations at once.

## 3. Runs

| run | result | question |
|---|---|---|
| `compositor` | holds | Do two handlers, two jobs and two processes ever lose an encoder or lie about a job? Is every death noticed? |
| `compositor_cap` | holds | With overlapping starts of one job, is the cap overrun by no more than the calls in flight? |
| `scheduler` | holds | With a failed call and a crash anywhere: own paths, no job lost but by a call that failed, at most two encoders and those, spaced starts, and the promise of `Handoff`? |
| `scheduler_converges` | holds | Is the wanted configuration reached once it stays the same, unless the end of a drain cuts a generation that is not old? |
| `relays` | holds | One feed, true status, no early spawn, stopped for good once off, following the live generation? |
| `node_media` | holds | Do version 1's supervisors ever double or lose a process, start an encoder of the programme after the shutdown, forget a change, or not come to follow what is wanted? |
| `site` | holds | Control plane, WHEP client, both viewers, management pages and layouts, see the properties named in the inventory |
| `compositor_retry` | violated | Is a crashed job ever restarted? |
| `scheduler_drain` | violated | Does the end of a drain only ever stop old generations? |
| `scheduler_cap` | violated | Is a running composition always granted a reconfiguration? |
| `relays_resume` | violated | Does a relay resume at once when its publisher returns? |
| `programme_settles` | violated | Does a set of sources that begins to change always get its time to settle? |

### Bounds, and why they are enough

* `compositor_cap`: three jobs, because a second overrun of a cap of one takes three; symmetry
  in jobs, callers and processes (`MCCompositor`), sound because it checks no liveness.
* `compositor`: two callers, two jobs, one place, two processes, each started at most once.
  Every race of the code is between two goroutines over one job, or between two calls over
  one place; two processes let a job be restarted while its predecessor still ends, which is
  the longest chain the identity check has to tell apart. MaxBackoff is 3 so that doubling
  is capped.
* `scheduler`: one composition (compositions share nothing but the compositor's cap, which
  has its own run), two signatures, three generation numbers. Five changes of configuration are
  enough to go on air, change while warming up, go off air and come back. One failure and
  one crash, at any point; a Tick may come late by a whole drain (`MaxGap = 3`). One
  assumption is named in the configuration: a drain is not longer than the stabilize time.
  It is the defaults' own relation (5 s and 5 s), but nothing in config.go enforces it:
  with a longer drain (7 units, say) TLC finds both HandoffPromise and EncoderBudget
  violated, because a generation can be handed over while another of its number, or of its
  composition, still drains. `MaxGen`
  cuts behaviours that would need a higher number; it does not matter for safety, and
  `scheduler_converges` has a number for every change it allows, so its liveness is not
  bought by the cut.
* `scheduler_converges`: late ticks allowed, drain and stabilize time as long as in
  `scheduler`, six changes and a number for each: more than the sequence of
  `scheduler_drain` takes, so that the run reaches it. No failed calls and no crashes: a
  live generation that dies is not noticed (see the hazards).
* `relays`: one relay of a composition with two generations; three changes of its
  configuration, its source or its generation; two processes, so that a replaced one may
  still be ending; one crash. A relay of a raw stream differs in `resolveSource` only and
  is the instance of `relays_resume`. Relays share no state but the loop of a Tick.
* `node_media`: one stream with two sessions (one where the programme is composed: the
  configurations hide and show it, which changes the set as well), one destination, two
  processes and two polls of each supervisor, so that polls overlap and a replaced
  process is still ending; one edit, two operator actions, one failure of ffmpeg or of
  MediaMTX. Two polls are what every race here is between: what a poll holds is compared
  with the present, not with a third. Streams and destinations meet in no state but
  MediaMTX's list; the theorems hold for any number of all of these.
* `programme_settles`: one poll, no edits and no failures, three sessions: a source that
  comes, goes before it settled and comes back much later is all it takes.
* `site`, control plane: two accounts, two streams, two keys, one channel, one
  destination, two image types, two requests at once, three changes, one mishap. Two
  administrators are enough to remove each other; quotas are 0 and 1. Three changes are
  enough to make, refer and delete.
* `site`, WHEP: two sessions, so that one may be closing while the next opens; three
  troubles (failures, or the stream going or coming).
* `site`, viewers: two sources, two fetches or loops in flight, three events; two channels.
  A tile number is free again once no
  tile and no script under way holds it, so four are never short. Two fetches are enough for
  answers out of order; two loops for one that went astray beside one that did not.
* `site`, pages: two handlers at once, two edits, one failed request, every page. Two edits
  are what an overwritten or overtaken answer takes.
* `site`, layouts: up to 13 sources, past every matrix and square; a usual canvas, a tiny one with a huge
  gutter, a portrait one, one with odd remainders and an odd gutter, and one flat strip; and
  three stages no administrator could configure, the least of 2 by 2.

### Fairness

* Compositor: a call in progress returns, a goroutine that waits for the mutex gets it, a
  process that was signalled dies (SIGKILL follows SIGTERM after 3 s). Nobody is obliged
  to call the API; an unsignalled process need neither exit nor print.
* Scheduler: the ticker fires, every HTTP call returns, an encoder that is left alone
  produces a frame. The second is an assumption: `http.DefaultClient` has no timeout.
* Relay runner: the ticker and the clock go on, MediaMTX answers again and again (strong
  fairness, because a Tick may fail any number of times in between), a process that is
  signalled or has lost its input ends, one that keeps its input gets data through.

* Version 1's supervisors: intervals and due timers fire, MediaMTX's answer or its failure
  comes, a signalled process ends (SIGKILL follows). The restart and retry timers are
  strongly fair, because they may find the bounded polls or processes taken, which the
  code does not limit. Nothing is assumed of a process that runs, of encoders or operators.
* Viewers: requests are answered and timers fire; MediaMTX closes what it was told to
  close or has lost the peer of; a path that is on air connects. Nothing is assumed of
  clicks, and failures are bounded, so "in the end" means after the last of them.
* The control plane and the pages have no liveness property and no fairness.

Deadlock checking is off everywhere: every run bounds what may happen from outside, and
after the last change the system rightly comes to rest.

## 4. Proofs

All theorems hold for every value of the constants that meets the modules' named
assumptions; TLC evaluates those on every run.

**`Compositor_proofs`.** TypeCorrect, NothingOrphaned, StatusIsTrue, CapHolds
and OneCallerRespectsCap. NoOrphan is not inductive: Register must
not overwrite a tracked process, and nothing in NoOrphan says that none is tracked while a
call is in flight. `Wiring` adds what the code relies on: a caller has a job exactly while
it is inside StartJob, no two callers have the same one, nothing is tracked for a job that
is being started, a spawned process is known to its caller alone until it is registered,
and the process tracked for a job was started for it. `IInv == TypeOK /\ Wiring /\
NoOrphan /\ StatusTruth` is inductive. CapBound is proved by counting: a StartJob that
passes the cap adds one to the callers inside a call, and a Register moves one from there
to what is tracked, so the sum stays below the cap plus the number of callers. With one
caller that is the cap itself.

**`CompositionScheduler_proofs`.** TypeCorrect, WarmupsHaveTheirOwnPath, StartsAreSpaced,
LeaksAreBounded, EncodersFitTheBudget and HandoffIsKept, with any number of compositions and any number of failures and restarts.
OwnPath needs to know why starting the numbering over in stopUnwanted harms no warm-up:
by then cancelUnwanted has removed every warm-up of what this Tick does not want
(`Cancelled`, `StopsUnwanted`), and the live number is never above the latest
(`Numbered`). StartSpacing needs a debounce entry never to be older than the last start
(`Aged`), because startWarmup clears it.

* LeaksAreBounded: a job is lost only in a step whose call failed, and one at most
  (`LeakSteps`, `OneMore`); every other step forgets only what it stopped, because each
  phase of a Tick leaves behind exactly what is due (`DueInPhase`). So the lost jobs are
  counted by the failed calls. With a crash there is no such count: the scheduler's maps
  are gone and the compositor's jobs are not.
* EncodersFitTheBudget and HandoffIsKept assume `BriefDrain`, a drain no longer than the
  stabilize time, and nothing about how late a Tick is. The argument (`DInv`) is that a
  debounce entry is made after the last handoff, since none exists while a generation warms
  up. So when a change has settled, whatever still drains is over, and the Tick that starts
  the next generation also stops it: at most one generation of a composition drains, none
  beside a warm-up once the Tick is done, and none has the number of the live one, although
  stopUnwanted starts the numbering over. What is left is lost, and LeaksAreBounded counts
  it: two encoders, and one for each failed call. HandoffIsKept is the refinement: each step is one
  of `Handoff`'s, or a stutter.

**`RelayRunner_proofs`.** TypeCorrect, FedOnce, StatusIsTrue and NeverSpawnedEarly. Tick
decides under the lock and startOne acts outside it; the strengthening is `Decided`: while
a relay is being started nothing is tracked for it and its delay is over. It is kept
because only startOne registers a process, in Tick's own goroutine, and only the end of a
tracked process begins another delay. `OnlyTracked` is the half of OneFeed that is
inductive; the other half follows from it and from `ChildIsPrivate`.

**`NodeMedia_proofs`**. For any number of
streams, destinations, processes, overlapping polls, edits and failures: MediaTypes,
NoEncoderIsOrphaned, StoppedIsFinal, NoChangeIsForgotten, DestinationsAreFedOnce,
HealthIsHonest, SourcesAreTranscodedOnce, LateProbesChangeNothing.
* compositor.js: the fact that carries it is `AsleepUntracked`, no encoder is tracked
  while apply() sleeps; apply() forgot the old one before its sleep and only start()
  tracks one, so start() never overwrites an encoder that runs. NothingForgotten is
  inductive once that is known: whatever clears a timer acts for it, sleeps for it or
  arms the next.
* relays.js and audioRelay.js: OneFeedPerDestination and OneTranscodePerSource are
  inductive in the form "the tracked process is exactly the one not told to stop", since
  a step that clears an entry signals its process and a tick fills only an entry that is
  empty after its await. NothingLiveWithoutProcess needs the first: the one exit that
  does not overwrite the health is of a process that was replaced.
* The composition adds that `Ingest`'s steps leave the supervisors alone and each
  supervisor's steps leave the others alone.

**`Catalogue_proofs`.** AnAdminRemains, NothingIsDangling, EveryChangeIsWritten,
RetiredAreDropped, ImagesAreThere, QuotasHold and CatalogueTypes, with any number of
accounts, streams, channels, destinations and requests, all operations together. The invariant is `CatalogueInv`: memory and file are both well formed and
without dangling references (`Good`), because every document a handler saves is, whatever
its copy of the user says, and the file only ever receives what memory had. A handler that
demotes or deletes checks the last administrator in the step that saves, which is
`AnotherAdmin`.
* RetiredAreDropped (`PublishersInv`): whatever retires a key leaves the kick of its path
  behind in the same step, and nobody is let in on a key that is retired. What it leaves
  out, a kick that failed or came before MediaMTX listed the publisher, is remembered.
* ImagesAreThere (`ImagesInv`): a handler of one channel leaves the images of the others
  alone, and replaces its own file in the same step as the name.
* QuotasHold (`QuotaInv`): the count and the quota it is compared with are of one account,
  and no document in memory or in the file and no request's copy goes beyond the best
  quota the account ever had. It counts, so it needs the streams there can be to be
  finitely many.

**`Viewers_proofs`.** ViewerSafe, WatchSafe, LayoutSafe, NoSessionIsForgotten and
ConnectsOneAtATime.
* app.js: PlayersAreHeld alone is not inductive. A render compares the new signature with
  `tileSignature` and does nothing when they agree, so the signature must be of the grid
  that is there, the flag `wasComposingHere` of the state that is there, what is heard of
  what was picked, and no two tiles may have one number (`Remembered`). With that, whatever
  rebuilds the signature rebuilds the grid, and stopping the tiles that went stops what
  played in them and nothing else.
* The React viewer: every offer and every answer is of the address that was asked
  (`Addressed`), and a change of address clears what was there before anything of the new
  one comes. An answer to an old address reaches the page only through a loop that went
  astray, which is what NothingOfElsewhere says.
* Layouts, for every canvas an administrator may configure, every matrix and every number
  of sources: rows and columns do not overlap because each starts where the one before
  ends, and halving down loses less than the room the cells leave (`GridComposes`,
  `MatrixComposes`, `SpotlightComposes`); one source in the spotlight, which is not clamped,
  has a lemma of its own (`SpotlightAlone`). Quotients of variables are beyond the solver, so
  `Division` states quotient and remainder once and everything else is products. bestGrid
  is a CHOOSE over the candidates; that there is one none beats needs their order
  (`BeatsOrders`) and that there are finitely many.
* The WHEP client: connect() drops `sessionUrl` without a DELETE when it gets a new one;
  that loses nothing because a client on its way to an answer holds no session
  (`EmptyHanded`), which holds because the retry timer never runs beside a connect
  (`OneAtATime`).

**`Pages_proofs`.** PagesSafe: types and ShowsWhatItDid, for any number of handlers at once,
edits and failures, on every page. The property speaks of pages with nothing under way; the
invariant (`PagesInv`) says what becomes of an edit until then.
* `Accounted`: an edit the page was told of is on the page, or has one of the property's
  excuses, or is coming: some load under way brings it. It keeps because whatever a load
  hears is of one moment of the server, and whatever the page hears of a later moment than
  the edit's has the edit (`Since`, `UpToDate`), unless a list sent whole took it away.
* A handler that was answered is still to load what its operation changed (`InHand`,
  `MadeAt`), so telling the page of an edit and starting the load that brings it is one
  step. An answer older than what is shown is one of the excuses (`crossed`).
* That every operation of every page is followed by such a load, or takes its lists from the
  answer, leaves the page, or is named in `NotLoadedAgain`, is read off the tables (`Fits`,
  one lemma per table and per page).

**`Site_proofs`.** SiteTypes, EveryPlayerIsHeld, EveryCellFits, WhatWasDoneShows,
ControlPlaneIsSafe and ClientIsSafe: a behaviour of `Site` is, part by part, a behaviour of
the part (`SiteIsItsParts`), so what the other modules prove holds of the whole, and the
invariants of the run `site` are all theorems.

Every invariant a run checks is thereby a theorem. Only model-checked is liveness
(DeathNoticed, ConvergesUnlessCut, SwitchedOffStops, FollowsSource, EverythingFollows,
ViewersArrive), which needs fairness and ENABLED, out of the prover's reach.

## 5. What the violated runs show

* **`compositor_retry`.** A crashed encoder is reported "retrying" with a RetryAt nobody
  reads. `cmd/compositor/main.go:4` promises "restart with backoff on a crash". The
  scheduler does not make up for it: its steady state compares signatures only.
* **`scheduler_drain`.** stopUnwanted deletes the generation number while an older
  generation drains. A composition that is handed over, changes again, is taken down and
  comes back while its first generation still drains starts a new generation under the
  draining one's id (one late Tick is enough, because the debounce entry is not cleared
  either), and processDraining then stops it. It is not started again: while it was warming
  up, every later Tick polls a job that does not exist for its first frame; when it was
  live already, every later Tick takes it to be steady. Either way the composition stays
  off air until its configuration changes, without any call having failed. This is the
  condition of ConvergesUnlessCut: within the bounds of `scheduler_converges` it is the
  only way, without failures and crashes, that the wanted configuration is not reached.
* **`scheduler_cap`.** "Reconfiguring an already-running job never counts against the cap"
  (feat-compositor.md) was true of jobs; since every generation is a job of its own, at
  the cap no running composition can be reconfigured.
* **`relays_resume`.** "A reconnect should resume immediately" (tick.go), but resetting the
  backoff leaves RetryAt, which is what the next Tick looks at. The Node version cleared
  both.
* **`programme_settles`.** compositor.js sets `pendingSince` when the set begins to change
  and clears it in apply() and nudge() only. A set that changes back before its timer
  fires leaves it behind, and the next change, however much later, finds the longest wait
  used up and is applied at once, against "wait for it to settle before acting"
  (compositor.js:458). A source that blinks thus costs every viewer an encoder restart.

Properties that hold, and what they leave out because the code does otherwise:
* NothingForgotten is stated for stabilizeMs of at least 250. Below that a timer may fire
  while apply() sleeps; its apply() is dropped and nothing is left that would act.
* NoForgottenSession leaves out a session whose POST stop() overtook: MediaMTX drops it
  when it finds no peer.
* StopIsFinal speaks of the programme's encoders. relays.js and audioRelay.js look at
  nothing after their await that stop() sets: a tick that awaits MediaMTX while the server
  shuts down may start an ffmpeg afterwards, which no code stops.
* ViewersKeepTrack is about what the page still holds, not about what is seen. When a
  layout has fewer cells than there are sources on air (auto changed to solo, a 2x2 matrix
  with five), app.js takes the tile without a cell off the page and keeps it in
  `app.tiles` with its client (app.js:276-278, 383): it plays on unseen until its source
  goes off air or the page is left. The property allows it. It also says nothing of the
  programme's client, which plays on hidden after a change from the composed programme to
  the grid, nor of which client a tile has: one that began with WHEP keeps it when the
  verdict on its source later says HLS.
* ViewersKeepTrack and ViewersArrive leave out, in React, the loop that a change of address
  under a pending poll leaves running (`stoppedRef` is shared by the old effect and the
  new one), after which the page alternates between two channels (`Astray`).
* ShowsWhatItDid leaves out three things. A list sent whole from what was rendered loses
  what another request added meanwhile (StreamPicker, the console's access dialog). An
  answer may overtake another, or be dropped under the focus (admin.js). StreamerPage does
  not offer a new stream as a relay source until it is opened again.
* CellsFit asks for cells that are apart only where there is room for more than the least
  size. One case does not keep what layout.js promises: its header (layout.js:10-11) and
  `assertEvenDimensions` in layout.test.js (18-25) ask for even x and y as well, but the
  spotlight with one source does not go through the clamping (layout.js:76-77) and puts
  the cell at x = y = gutter, on odd pixels when the gutter is odd. The tests have even
  gutters only; the configuration allows odd ones. `OddCorner` names the case, and of it
  the property asks for even size and a place inside only.
* LeakBound and EncoderBudget count what failed calls cost and stop counting at a crash:
  nothing lists the jobs of an earlier life of the data plane.

## 6. Plan

What is left, the most important behaviour first:

1. A module that composes `CompositionScheduler` with `Compositor`'s Runner and the relay
   runner's reading of `Generations`: crash recovery end to end (a generation that dies
   while it warms up or while it is live, a data plane that restarts over running jobs).
2. The media proxy's preview against a numbering that starts over, the store's snapshots
   read in several calls, a scheduler whose calls hang or whose MediaMTX is away for long.
3. Rails: quotas, the last administrator, one-time codes and dangling references under
   concurrent requests; the two-factor life cycle. Its requests are real threads with SQL
   transactions between them, unlike version 1's.
4. The Go audio monitor and playability cache, which follow version 1's; access rules and
   publish authorisation, as decision tables.

Rails' and the Go service's request-local decisions are the remaining pure algorithms.

### Not modelled

* MediaMTX client, host statistics, bandwidth history, encoder probing, configuration,
  logging: pure I/O, sampling or the reading of an environment; no other part reads state
  they keep.
* ffmpeg's arguments and filtergraphs, addresses of providers, text and styling: no
  property here is about them.
* Passwords and the signing of tokens; the forms for login, profile and statistics in
  React: each is one request and its answer.
* Fetching of statistics, level meters and volume in the viewers; charts, log and preview
  in the console: they only read.
* The OBS script: it configures OBS and keeps no state.
