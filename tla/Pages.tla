--------------------------------- MODULE Pages ---------------------------------
(***************************************************************************)
(* The management pages: those of the React app, and version 1's           *)
(* streamer.js, channels.js and admin.js.                                  *)
(*                                                                         *)
(* They are one program with different tables.  A page loads some lists,   *)
(* each load being one or more requests whose answers are shown together;  *)
(* an operation is a request that changes something at the server, after   *)
(* which the page loads lists again, takes the changed object from the     *)
(* answer, or goes elsewhere.  Nothing is cancelled and nothing waits:     *)
(* answers are shown in the order they come.                               *)
(*                                                                         *)
(* What a list holds is the set of the edits it reflects.                  *)
(***************************************************************************)
EXTENDS Naturals, Sequences, FiniteSets

CONSTANTS Tasks,        \* handlers of the page under way at once (a bound)
          MaxEdits,     \* bound: operations begun
          MaxFailures   \* bound: requests that fail

ASSUME TasksAreFinite == IsFiniteSet(Tasks)
ASSUME EditsAreCounted == MaxEdits \in Nat

VARIABLES
    page,      \* the page that is open
    left,      \* the page went elsewhere
    task,      \* task[i]: a handler waiting for an answer, or NoTask
    truth,     \* truth[l]: the edits list l reflects at the server
    clock,     \* number of edits the server has made
    shown,     \* shown[l]: what the page shows, and the clock of the last it heard
    drawn,     \* the lists drawn since the page opened
    focused,   \* the focus is inside the table the page does not redraw then
    did,       \* <<l, e>>: the page was told its edit e of list l was made
    stale,     \* [missed, crossed, raced]: the lists that may lack an edit, by why
    begun, failures   \* counted for the bounds only

pagesVars == <<page, left, task, truth, clock, shown, drawn, focused, did, stale, begun, failures>>

-----------------------------------------------------------------------------
(* Operations: the lists they change, the list they send whole, what the   *)
(* handler does with the answer, and the flag it raises meanwhile.         *)

Plain(changes, then, loads) ==
    [changes |-> changes, whole |-> "", then |-> then, loads |-> loads, flag |-> "", awaits |-> TRUE]
Reloads(changes, loads) == Plain(changes, "reload", loads)
Takes(changes, lists) == Plain(changes, "take", <<{lists}>>)
Departs(changes) == Plain(changes, "leave", <<>>)
Forgets == Plain({}, "nothing", <<>>)
Flagged(op, flag) == [op EXCEPT !.flag = flag]
Unawaited(op) == [op EXCEPT !.awaits = FALSE]
Whole(op, list) == [op EXCEPT !.whole = list]
Always(op) == [op EXCEPT !.then = "always"]

\* Controls: the list whose row holds it, the flags that disable it, and
\* whether clicking it leaves the focus in a table that is not redrawn then.
Form(flags) == [row |-> "", disabled |-> flags, focuses |-> FALSE]
Row(list) == [row |-> list, disabled |-> {}, focuses |-> FALSE]
FocusRow(list) == [row |-> list, disabled |-> {}, focuses |-> TRUE]
RowUnless(list, flag) == [row |-> list, disabled |-> {flag}, focuses |-> FALSE]

\* A page: the loads it opens with, those it repeats, the lists it does not
\* redraw under the focus.
React(opens, ops, controls) ==
    [opens |-> opens, polls |-> {}, guarded |-> {}, ops |-> ops, controls |-> controls]
Vanilla(opens, guarded, ops, controls) ==
    [opens |-> opens, polls |-> opens, guarded |-> guarded, ops |-> ops, controls |-> controls]

Both(f, g) == [n \in DOMAIN f \cup DOMAIN g |-> IF n \in DOMAIN f THEN f[n] ELSE g[n]]

\* A load that is one request.
One(lists) == {lists}

-----------------------------------------------------------------------------
(* The React pages: the handlers of each, then the controls it renders.    *)

\* `sources` are the streams the relay form offers.
StreamerPage ==
    LET loadStreams == One({"streams"})
        loadRelays  == One({"relays", "sources"})
    IN  [createStream  |-> Flagged(Reloads({"streams", "sources"}, <<loadStreams>>), "creatingStream"),
         rotateKey     |-> Reloads({"streams"}, <<loadStreams>>),
         toggleStream  |-> Reloads({"streams"}, <<loadStreams>>),
         setVisibility |-> Reloads({"streams"}, <<loadStreams>>),
         removeStream  |-> Reloads({"streams", "relays", "sources"}, <<loadStreams, loadRelays>>),
         createRelay   |-> Flagged(Reloads({"relays"}, <<loadRelays>>), "creatingRelay"),
         toggleRelay   |-> Reloads({"relays"}, <<loadRelays>>),
         removeRelay   |-> Reloads({"relays"}, <<loadRelays>>)]

StreamerPageControls ==
    [createStream  |-> Form({"creatingStream"}),
     rotateKey     |-> Row("streams"),
     toggleStream  |-> Row("streams"),
     setVisibility |-> Row("streams"),
     removeStream  |-> Row("streams"),
     createRelay   |-> RowUnless("sources", "creatingRelay"),
     toggleRelay   |-> Row("relays"),
     removeRelay   |-> Row("relays")]

\* Impersonating reads the session again and goes to the home page.
AdminUsersPage ==
    LET load == One({"users"})
    IN  [handleCreate |-> Flagged(Reloads({"users"}, <<load>>), "creating"),
         remove       |-> Reloads({"users"}, <<load>>),
         impersonate  |-> Departs({})]

AdminUsersPageControls ==
    [handleCreate |-> Form({"creating"}), remove |-> Row("users"), impersonate |-> Row("users")]

AdminUserEditPage ==
    [update         |-> Takes({"user"}, {"user"}),
     setPassword    |-> Flagged(Forgets, "settingPassword"),
     resetTwoFactor |-> Flagged(Takes({"user"}, {"user"}), "resettingTwoFactor"),
     impersonate    |-> Departs({}),
     remove         |-> Departs({"user"})]

AdminUserEditPageControls ==
    [update         |-> Row("user"),
     setPassword    |-> RowUnless("user", "settingPassword"),
     resetTwoFactor |-> RowUnless("user", "resettingTwoFactor"),
     impersonate    |-> Row("user"),
     remove         |-> Row("user")]

\* The avatar's picker, of that page: onUploaded replaces the user.
AvatarCropField == [save |-> Flagged(Takes({"user"}, {"user"}), "uploading")]

AvatarCropFieldControl == [save |-> RowUnless("user", "uploading")]

\* Both requests must be answered before either list is shown.
AdminRelaysPage ==
    LET load == {{"relays"}, {"streams"}}
    IN  [handleCreate  |-> Flagged(Reloads({"relays"}, <<load>>), "creating"),
         toggleEnabled |-> Reloads({"relays"}, <<load>>),
         remove        |-> Reloads({"relays"}, <<load>>)]

AdminRelaysPageControls ==
    [handleCreate  |-> RowUnless("streams", "creating"),
     toggleEnabled |-> Row("relays"),
     remove        |-> Row("relays")]

AdminStreamsPage ==
    LET load == One({"streams"})
    IN  [handleCreate        |-> Flagged(Reloads({"streams"}, <<load>>), "creating"),
         toggleEnabled       |-> Reloads({"streams"}, <<load>>),
         setStreamVisibility |-> Reloads({"streams"}, <<load>>),
         rotateKey           |-> Reloads({"streams"}, <<load>>),
         remove              |-> Reloads({"streams"}, <<load>>)]

AdminStreamsPageControls ==
    [handleCreate        |-> Form({"creating"}),
     toggleEnabled       |-> Row("streams"),
     setStreamVisibility |-> Row("streams"),
     rotateKey           |-> Row("streams"),
     remove              |-> Row("streams")]

AdminChannelsPage ==
    LET load == One({"channels", "homepage"})
    IN  [handleCreate  |-> Flagged(Reloads({"channels"}, <<load>>), "creating"),
         setHomepage   |-> Reloads({"homepage"}, <<load>>),
         clearHomepage |-> Reloads({"homepage"}, <<load>>),
         remove        |-> Reloads({"channels", "homepage"}, <<load>>)]

AdminChannelsPageControls ==
    [handleCreate  |-> Form({"creating"}),
     setHomepage   |-> Row("channels"),
     clearHomepage |-> Row("channels"),
     remove        |-> Row("channels")]

ChannelsPage ==
    LET load == One({"channels"})
    IN  [handleCreate  |-> Flagged(Reloads({"channels"}, <<load>>), "creating"),
         setVisibility |-> Reloads({"channels"}, <<load>>),
         remove        |-> Reloads({"channels"}, <<load>>)]

ChannelsPageControls ==
    [handleCreate |-> Form({"creating"}), setVisibility |-> Row("channels"), remove |-> Row("channels")]

AdminGamesPage ==
    LET load == One({"games"})
    IN  [handleCreate |-> Flagged(Reloads({"games"}, <<load>>), "creating"),
         rename       |-> Reloads({"games"}, <<load>>),
         remove       |-> Reloads({"games"}, <<load>>)]

AdminGamesPageControls ==
    [handleCreate |-> Form({"creating"}), rename |-> Row("games"), remove |-> Row("games")]

AdminSettingsPage == [update |-> Flagged(Takes({"settings"}, {"settings"}), "saving")]

AdminSettingsPageControls == [update |-> RowUnless("settings", "saving")]

\* Every PATCH of a channel answers with the channel.  The stream picker sends
\* the whole list of members; the other fields send themselves.
ChannelEditPage ==
    LET channel == {"channel", "members"}
    IN  [update           |-> Takes({"channel"}, channel),
         pick             |-> Whole(Takes({"members"}, channel), "members"),
         uploadBackground |-> Flagged(Takes({"channel"}, channel), "uploading"),
         remove           |-> Departs({"channel"})]

\* The administrator's page is the same program over other endpoints, and
\* loads the users too.
AdminChannelEditPage == ChannelEditPage

\* The form both render.
ChannelEditForm ==
    [update           |-> Row("channel"),
     uploadBackground |-> RowUnless("channel", "uploading"),
     remove           |-> Row("channel")]

StreamPicker == [pick |-> Row("members")]

\* A PATCH answers with the composition of one orientation, which replaces that
\* one; a change of its destinations loads both again.
ChannelCompositionSection ==
    [updateHorizontal |-> Takes({"horizontal"}, {"horizontal"}),
     updateVertical   |-> Takes({"vertical"}, {"vertical"})]

DestinationsTable ==
    LET load == One({"horizontal", "vertical"})
    IN  [handleCreate |-> Unawaited(Flagged(Reloads({"horizontal"}, <<load>>), "creating")),
         toggle       |-> Reloads({"horizontal"}, <<load>>),
         remove       |-> Reloads({"horizontal"}, <<load>>)]

OrientationCard == [updateHorizontal |-> Row("horizontal"), updateVertical |-> Row("vertical")]

DestinationsTableControls ==
    [handleCreate |-> RowUnless("horizontal", "creating"),
     toggle       |-> Row("horizontal"),
     remove       |-> Row("horizontal")]


-----------------------------------------------------------------------------
(* Version 1's pages.  Their tables are loaded again on a timer, and each has  *)
(* a Refresh button.                                                       *)

\* streamer.js, whose other tab loads the destinations when it is opened and as
\* long as it is: its streams.  They also fill the form of that tab, so a load
\* that is dropped leaves it as it was too.
MyStreams ==
    LET loadStreams == One({"streams", "sources"})
    IN  [createStream |-> Reloads({"streams", "sources"}, <<loadStreams>>),
         patchStream  |-> Reloads({"streams", "sources"}, <<loadStreams>>),
         rotateKey    |-> Reloads({"streams", "sources"}, <<loadStreams>>),
         deleteStream |-> Reloads({"streams", "sources"}, <<loadStreams>>)]

MyStreamsControls ==
    [createStream |-> Form({}),
     patchStream  |-> FocusRow("streams"),
     rotateKey    |-> FocusRow("streams"),
     deleteStream |-> FocusRow("streams")]

\* The destinations of streamer.js.
MyRelays ==
    LET loadRelays == One({"relays"})
    IN  [patchRelay      |-> Reloads({"relays"}, <<loadRelays>>),
         replaceRelayKey |-> Reloads({"relays"}, <<loadRelays>>),
         deleteRelay     |-> Reloads({"relays"}, <<loadRelays>>)]

MyRelaysControls ==
    [patchRelay      |-> Row("relays"),
     replaceRelayKey |-> Row("relays"),
     deleteRelay     |-> Row("relays")]

MyRelayForm == [createRelay |-> Reloads({"relays"}, <<One({"relays"})>>)]

MyRelayFormControl == [createRelay |-> Row("sources")]

\* channels.js.  An upload goes straight to fetch, and reloads all the same.
MyChannels ==
    LET loadChannels == One({"channels"})
    IN  [submit           |-> Reloads({"channels"}, <<loadChannels>>),
         deleteChannel    |-> Reloads({"channels"}, <<loadChannels>>),
         uploadBackground |-> Reloads({"channels"}, <<loadChannels>>)]

MyChannelsControls ==
    [submit |-> Form({}), deleteChannel |-> Row("channels"), uploadBackground |-> Row("channels")]

\* The streams of the console.
ConsoleStreams ==
    LET loadStreams == One({"streams", "access"})
    IN  [patchStream  |-> Reloads({"streams"}, <<loadStreams>>),
         rotateKey    |-> Reloads({"streams"}, <<loadStreams>>),
         deleteStream |-> Reloads({"streams"}, <<loadStreams>>),
         createStream |-> Reloads({"streams"}, <<loadStreams>>)]

ConsoleStreamsControls ==
    [patchStream  |-> FocusRow("streams"),
     rotateKey    |-> FocusRow("streams"),
     deleteStream |-> FocusRow("streams"),
     createStream |-> Form({})]

\* The nickname is edited in its row, and saved when the field is left: what was
\* typed is kept, and no list is loaded.
nicknameField == [commit |-> Plain({"streams"}, "keep", <<>>)]

NicknameControl == [commit |-> Row("streams")]

\* The access dialog sends the whole list of users, from the row it was opened on.
editStreamAccess == [save |-> Whole(Reloads({"streams", "access"}, <<One({"streams", "access"})>>), "access")]

AccessDialog == [save |-> FocusRow("access")]

\* The destinations of the console.
ConsoleRelays ==
    LET loadRelays == One({"relays", "sources"})
    IN  [patchRelay      |-> Reloads({"relays"}, <<loadRelays>>),
         replaceRelayKey |-> Reloads({"relays"}, <<loadRelays>>),
         deleteRelay     |-> Reloads({"relays"}, <<loadRelays>>)]

ConsoleRelaysControls ==
    [patchRelay      |-> Row("relays"),
     replaceRelayKey |-> Row("relays"),
     deleteRelay     |-> Row("relays")]

\* Submitting leaves the focus in the form, whose sources are then not refilled.
ConsoleRelayForm ==
    [createRelay |-> Reloads({"relays"}, <<One({"relays", "sources"})>>)]

ConsoleRelayFormControl == [createRelay |-> FocusRow("sources")]

\* The mode and the fallback are saved on the spot; saving the form sends
\* everything.  Each answer replaces the composition.
ConsoleComposition ==
    [setFallback |-> Takes({"composition"}, {"composition"}),
     setMode     |-> Takes({"composition"}, {"composition"}),
     submit      |-> Takes({"composition"}, {"composition"}),
     restart     |-> Forgets]

ConsoleCompositionControls ==
    [setFallback |-> Row("composition"), setMode |-> Row("composition"),
     submit |-> Row("composition"), restart |-> Form({})]

ConsoleChannels ==
    LET loadChannels == One({"channels", "homepage"})
    IN  [setHomepageChannel |-> Reloads({"homepage"}, <<loadChannels>>),
         deleteChannel      |-> Reloads({"channels", "homepage"}, <<loadChannels>>),
         submit             |-> Reloads({"channels"}, <<loadChannels>>)]

ConsoleChannelsControls ==
    [setHomepageChannel |-> Row("channels"), deleteChannel |-> Row("channels"), submit |-> Form({})]

\* A role or a quota is saved as it is changed, and the users are loaded again
\* even when the server refuses, to put the field back.
ConsoleUsers ==
    LET loadUsers == One({"users"})
    IN  [setRole     |-> Always(Reloads({"users"}, <<loadUsers>>)),
         setQuota    |-> Always(Reloads({"users"}, <<loadUsers>>)),
         setPassword |-> Forgets,
         deleteUser  |-> Reloads({"users"}, <<loadUsers>>)]

ConsoleUsersControls ==
    [setRole |-> Row("users"), setQuota |-> Row("users"), setPassword |-> Row("users"), deleteUser |-> Row("users")]

ConsoleUserForm_NotReloaded == [createUser |-> Plain({"users"}, "nothing", <<>>)]

ConsoleUserForm == [createUser |-> Reloads({"users"}, <<One({"users"})>>)]

ConsoleUserFormControl == [createUser |-> Form({})]

ConsoleSettings == [submit |-> Takes({"settings"}, {"settings"})]

ConsoleSettingsControl == [submit |-> Row("settings")]

-----------------------------------------------------------------------------
(* The pages, by name.                                                     *)

Compositions == Both(ChannelCompositionSection, DestinationsTable)

PageNames ==
    {"StreamerPage", "AdminUsersPage", "AdminUserEditPage", "AdminRelaysPage", "AdminStreamsPage",
     "AdminChannelsPage", "ChannelsPage", "AdminGamesPage", "AdminSettingsPage", "ChannelEditPage",
     "AdminChannelEditPage", "ChannelCompositionSection", "streamer.js streams",
     "streamer.js restream", "channels.js",
     "admin.js streams", "admin.js restream", "admin.js composition", "admin.js channels",
     "admin.js users", "admin.js settings"}

PageTable == [name \in PageNames |->
    CASE name = "StreamerPage" ->
           React({One({"streams"}), One({"relays", "sources"})}, StreamerPage, StreamerPageControls)
      [] name = "AdminUsersPage" -> React({One({"users"})}, AdminUsersPage, AdminUsersPageControls)
      [] name = "AdminUserEditPage" ->
           React({One({"user"})}, Both(AdminUserEditPage, AvatarCropField),
                 Both(AdminUserEditPageControls, AvatarCropFieldControl))
      [] name = "AdminRelaysPage" ->
           React({{{"relays"}, {"streams"}}}, AdminRelaysPage, AdminRelaysPageControls)
      [] name = "AdminStreamsPage" -> React({One({"streams"})}, AdminStreamsPage, AdminStreamsPageControls)
      [] name = "AdminChannelsPage" ->
           React({One({"channels", "homepage"})}, AdminChannelsPage, AdminChannelsPageControls)
      [] name = "ChannelsPage" -> React({One({"channels"})}, ChannelsPage, ChannelsPageControls)
      [] name = "AdminGamesPage" -> React({One({"games"})}, AdminGamesPage, AdminGamesPageControls)
      [] name = "AdminSettingsPage" -> React({One({"settings"})}, AdminSettingsPage, AdminSettingsPageControls)
      [] name = "ChannelEditPage" ->
           React({{{"channel", "members"}, {"streams"}}}, ChannelEditPage, Both(ChannelEditForm, StreamPicker))
      [] name = "AdminChannelEditPage" ->
           React({{{"channel", "members"}, {"streams"}}}, AdminChannelEditPage, Both(ChannelEditForm, StreamPicker))
      [] name = "ChannelCompositionSection" ->
           React({One({"horizontal", "vertical"})}, Compositions, Both(OrientationCard, DestinationsTableControls))
      [] name = "streamer.js streams" ->
           Vanilla({One({"streams", "sources"})}, {"streams", "sources"}, MyStreams, MyStreamsControls)
      [] name = "streamer.js restream" ->
           Vanilla({One({"streams", "sources"}), One({"relays"})}, {"streams", "sources"},
                   Both(MyRelays, MyRelayForm), Both(MyRelaysControls, MyRelayFormControl))
      [] name = "channels.js" -> Vanilla({One({"channels"})}, {}, MyChannels, MyChannelsControls)
      [] name = "admin.js streams" ->
           Vanilla({One({"streams", "access"})}, {"streams", "access"},
                   Both(ConsoleStreams, Both(nicknameField, editStreamAccess)),
                   Both(ConsoleStreamsControls, Both(NicknameControl, AccessDialog)))
      [] name = "admin.js restream" ->
           Vanilla({One({"relays", "sources"})}, {"sources"}, Both(ConsoleRelays, ConsoleRelayForm),
                   Both(ConsoleRelaysControls, ConsoleRelayFormControl))
      [] name = "admin.js composition" ->
           React({One({"composition"})}, ConsoleComposition, ConsoleCompositionControls)
      [] name = "admin.js channels" ->
           Vanilla({One({"channels", "homepage"})}, {}, ConsoleChannels, ConsoleChannelsControls)
      [] name = "admin.js users" ->
           Vanilla({One({"users"})}, {}, Both(ConsoleUsers, ConsoleUserForm),
                   Both(ConsoleUsersControls, ConsoleUserFormControl))
      [] name = "admin.js settings" -> React({One({"settings"})}, ConsoleSettings, ConsoleSettingsControl)]

Here == PageTable[page]
Lists == UNION UNION Here.opens
Ops == {Here.ops[name] : name \in DOMAIN Here.ops}

-----------------------------------------------------------------------------
(* The program.                                                            *)

Free == {i \in Tasks : task[i].stage = "free"}
Busy == Tasks \ Free
NextFree == CHOOSE i \in Tasks : i \in Free

\* What lists are at the server, as it answers.
At(now, edits, lists) == [l \in lists |-> [edits |-> edits[l], at |-> now]]

Later(m, n) == IF m > n THEN m ELSE n

\* No request of its load is answered yet.
NoAnswer == [l \in {} |-> l]

\* A handler that only loads; and none at all.
LoadTask(loads) ==
    [op |-> Forgets, stage |-> "loading", edit |-> 0, base |-> {}, at |-> 0, detached |-> FALSE, loads |-> loads, got |-> NoAnswer]
NoTask == [LoadTask(<<>>) EXCEPT !.stage = "free"]

\* A handler that has nothing left to load is over.
After(loads) == IF loads = <<>> THEN NoTask ELSE LoadTask(loads)

Flags == {task[i].op.flag : i \in Busy}

PagesInit ==
    /\ page \in PageNames /\ left = FALSE /\ task = [i \in Tasks |-> NoTask]
    /\ truth = [l \in Lists |-> {}] /\ clock = 0
    /\ shown = [l \in Lists |-> [edits |-> {}, at |-> 0]] /\ drawn = {} /\ focused = FALSE
    /\ did = {} /\ stale = [missed |-> {}, crossed |-> {}, raced |-> {}]
    /\ begun = 0 /\ failures = 0

\* The page opens, a timer fires, or Refresh is pressed.
Load(i, load) ==
    /\ ~left /\ Free # {} /\ i = NextFree /\ load \in Here.opens
    /\ load \in Here.polls
       \/ /\ (UNION load) \cap (drawn \cup stale.missed) = {}
          /\ \A j \in Busy : task[j].stage = "loading" => Head(task[j].loads) # load
    /\ task' = [task EXCEPT ![i] = LoadTask(<<load>>)]
    /\ UNCHANGED <<page, left, truth, clock, shown, drawn, focused, did, stale, begun, failures>>

\* The user uses a control: one of a row once the row is there, and not one
\* that a handler under way disables.
Begin(i, name) ==
    LET op == Here.ops[name]
        control == Here.controls[name]
    IN  /\ ~left /\ Free # {} /\ i = NextFree /\ begun < MaxEdits
        /\ control.row \in drawn \cup {""}
        /\ control.disabled \cap Flags = {}
        /\ begun' = begun + 1
        /\ focused' = (focused \/ control.focuses)
        /\ task' = [task EXCEPT ![i] =
                        [op |-> op, stage |-> "sent", edit |-> begun', at |-> 0, detached |-> FALSE,
                         base |-> IF op.whole = "" THEN {} ELSE shown[op.whole].edits,
                         loads |-> op.loads, got |-> NoAnswer]]
        /\ UNCHANGED <<page, left, truth, clock, shown, drawn, did, stale, failures>>

\* The server makes the change.  A list sent whole replaces what is there.
Serve(i) ==
    LET t == task[i]
        op == t.op
    IN  /\ i \in Busy /\ t.stage = "sent"
        /\ clock' = clock + 1
        /\ truth' = [l \in Lists |->
                        (IF l = op.whole THEN t.base ELSE truth[l])
                            \cup (IF l \in op.changes THEN {t.edit} ELSE {})]
        /\ stale' = IF op.whole # "" /\ ~(truth[op.whole] \subseteq t.base)
                    THEN [stale EXCEPT !.raced = @ \cup {op.whole}] ELSE stale
        /\ task' = [task EXCEPT ![i].stage = "answered", ![i].at = clock',
                                ![i].got = IF op.then = "take" THEN At(clock', truth', UNION Head(op.loads)) ELSE NoAnswer]
        /\ UNCHANGED <<page, left, shown, drawn, focused, did, begun, failures>>

\* The server refuses, or nothing comes back.  The user reads about it.
Refused(i) ==
    /\ i \in Busy /\ task[i].stage \in {"sent", "answered"}
    /\ failures < MaxFailures /\ failures' = failures + 1
    /\ task' = [task EXCEPT ![i] = IF @.op.then = "always" THEN After(@.loads) ELSE NoTask]
    /\ UNCHANGED <<page, left, truth, clock, shown, drawn, focused, did, stale, begun>>

\* Answers are put on the page, whatever it shows and however old they are;
\* but not into a table that has the focus.
Show(got) ==
    LET seen == {l \in DOMAIN got : ~(focused /\ l \in Here.guarded)}
    IN  /\ shown' = [l \in Lists |-> IF l \in seen THEN [edits |-> got[l].edits, at |-> Later(shown[l].at, got[l].at)]
                                                   ELSE shown[l]]
        /\ drawn' = drawn \cup seen
        /\ stale' = [stale EXCEPT !.missed = (@ \ seen) \cup (DOMAIN got \ seen),
                                  !.crossed = (@ \ seen) \cup {l \in seen : got[l].at < shown[l].at}]

\* A nickname's row is thrown away when its table is drawn again.
Detached(i, others) ==
    [j \in Tasks |-> IF j # i /\ others[j].op.then = "keep"
                     THEN [others[j] EXCEPT !.detached = TRUE] ELSE others[j]]

\* The page is told its change was made.
Told(i) ==
    LET op == task[i].op
    IN  /\ i \in Busy /\ task[i].stage = "answered"
        /\ did' = did \cup (op.changes \X {task[i].edit})

Knows(i) ==
    [l \in Lists |-> IF l \in task[i].op.changes THEN [shown[l] EXCEPT !.at = Later(@, task[i].at)] ELSE shown[l]]

\* It loads lists again, or has nothing more to do.
Goes(i) ==
    /\ Told(i) /\ task[i].op.then \in {"reload", "always", "nothing"}
    /\ shown' = Knows(i)
    /\ task' = [task EXCEPT ![i] = IF @.op.awaits /\ @.loads # <<>>
                                   THEN [@ EXCEPT !.stage = "loading", !.got = NoAnswer] ELSE After(@.loads)]
    /\ UNCHANGED <<page, left, truth, clock, drawn, focused, stale, begun, failures>>

\* It takes the changed object from the answer.
Replaces(i) ==
    /\ Told(i) /\ task[i].op.then = "take"
    /\ Show(task[i].got)
    /\ task' = [task EXCEPT ![i] = NoTask]
    /\ UNCHANGED <<page, left, truth, clock, focused, begun, failures>>

\* It keeps what was typed, in the row it was typed into.
Keeps(i) ==
    /\ Told(i) /\ task[i].op.then = "keep"
    /\ LET lists == task[i].op.changes
       IN  IF task[i].detached
           THEN shown' = Knows(i) /\ stale' = [stale EXCEPT !.crossed = @ \cup lists]
           ELSE /\ shown' = [l \in Lists |-> IF l \in lists THEN [Knows(i)[l] EXCEPT !.edits = @ \cup {task[i].edit}]
                                                            ELSE shown[l]]
                /\ UNCHANGED stale
    /\ task' = [task EXCEPT ![i] = NoTask]
    /\ UNCHANGED <<page, left, truth, clock, drawn, focused, begun, failures>>

\* It goes elsewhere, and what is under way is shown to nobody.
GoesElsewhere(i) ==
    /\ Told(i) /\ task[i].op.then = "leave"
    /\ left' = TRUE /\ task' = [j \in Tasks |-> NoTask]
    /\ UNCHANGED <<page, truth, clock, shown, drawn, focused, stale, begun, failures>>

\* One request of a load is answered.
Reads(i, lists) ==
    /\ i \in Busy /\ task[i].stage = "loading"
    /\ lists \in Head(task[i].loads) /\ lists \cap DOMAIN task[i].got = {}
    /\ task' = [task EXCEPT ![i].got = [l \in DOMAIN @ \cup lists |-> IF l \in lists THEN At(clock, truth, lists)[l] ELSE @[l]]]
    /\ UNCHANGED <<page, left, truth, clock, shown, drawn, focused, did, stale, begun, failures>>

Rest(t) == IF Len(t.loads) = 1 THEN NoTask ELSE [t EXCEPT !.loads = Tail(@), !.got = NoAnswer]

\* All of them are: the lists are shown together.
LoadArrives(i) ==
    /\ i \in Busy /\ task[i].stage = "loading"
    /\ DOMAIN task[i].got = UNION Head(task[i].loads)
    /\ Show(task[i].got)
    /\ task' = Detached(i, [task EXCEPT ![i] = Rest(@)])
    /\ UNCHANGED <<page, left, truth, clock, focused, did, begun, failures>>

\* One of them fails, and none is shown.
LoadFails(i) ==
    /\ i \in Busy /\ task[i].stage = "loading"
    /\ failures < MaxFailures /\ failures' = failures + 1
    /\ stale' = [stale EXCEPT !.missed = @ \cup UNION Head(task[i].loads)]
    /\ task' = [task EXCEPT ![i] = Rest(@)]
    /\ UNCHANGED <<page, left, truth, clock, shown, drawn, focused, did, begun>>

Blur ==
    /\ focused /\ focused' = FALSE
    /\ UNCHANGED <<page, left, task, truth, clock, shown, drawn, did, stale, begun, failures>>

PagesNext ==
    \/ \E i \in Tasks :
         \/ \E load \in Here.opens : Load(i, load)
         \/ \E name \in DOMAIN Here.ops : Begin(i, name)
         \/ Serve(i) \/ Refused(i) \/ Goes(i) \/ Replaces(i) \/ Keeps(i) \/ GoesElsewhere(i)
         \/ \E lists \in SUBSET Lists : Reads(i, lists)
         \/ LoadArrives(i) \/ LoadFails(i)
    \/ Blur

-----------------------------------------------------------------------------

\* What was heard of some lists.
Heard == UNION {[lists -> [edits : SUBSET (1..begun), at : 0..clock]] : lists \in SUBSET Lists}

PagesTypeOK ==
    /\ page \in PageNames /\ left \in BOOLEAN /\ focused \in BOOLEAN
    /\ begun \in 0..MaxEdits /\ clock \in 0..begun
    /\ task \in [Tasks -> [op : Ops \cup {Forgets}, stage : {"free", "sent", "answered", "loading"},
                          edit : 0..begun, base : SUBSET (1..begun), at : 0..clock, detached : BOOLEAN,
                          loads : Seq(SUBSET SUBSET Lists), got : Heard]]
    /\ truth \in [Lists -> SUBSET (1..begun)]
    /\ shown \in [Lists -> [edits : SUBSET (1..begun), at : 0..clock]]
    /\ drawn \subseteq Lists /\ did \subseteq Lists \X (1..begun)
    /\ stale \in [missed : SUBSET Lists, crossed : SUBSET Lists, raced : SUBSET Lists]

\* What a page never loads again after an operation of its own changed it: a new
\* stream is not offered as a source until the page is opened again.
NotLoadedAgain == {<<"StreamerPage", "sources">>}

\* Once nothing is under way, whatever the user was told was done can be seen
\* on the page; save where an answer did not come, came out of order, or the
\* change was lost to a list another request sent whole.
ShowsWhatItDid ==
    (Busy = {} /\ ~left) =>
        \A d \in did :
            \/ d[2] \in shown[d[1]].edits
            \/ d[1] \in stale.missed \cup stale.crossed \cup stale.raced
            \/ <<page, d[1]>> \in NotLoadedAgain
================================================================================
