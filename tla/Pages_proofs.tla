------------------------------ MODULE Pages_proofs ------------------------------
(***************************************************************************)
(* What a management page shows once its handlers are done is what the     *)
(* user was told was done.                                                 *)
(*                                                                         *)
(* An edit the page was told of is on the page, or one of the excuses      *)
(* holds, or it is still coming: a load under way will bring it.  It does, *)
(* because what a load hears is of a moment, and whatever the page hears   *)
(* of a later moment than the edit's has the edit.                         *)
(***************************************************************************)
EXTENDS Pages, FiniteSetTheorems, SequenceTheorems, TLAPS

\* Nothing the page was told of is lost but to a list sent whole; and whatever
\* is heard of a list from the n-th edit on has the edit.
Since(l, e, n) ==
    /\ e \in truth[l] \/ l \in stale.raced
    /\ \A i \in Tasks :
          task[i].stage # "free" /\ l \in DOMAIN task[i].got /\ task[i].got[l].at >= n =>
              e \in task[i].got[l].edits \/ l \in stale.raced

\* So it is of the edits the page was told of, and of those it is about to be.
UpToDate == \A d \in did : Since(d[1], d[2], shown[d[1]].at)
MadeAt(i) == task[i].stage = "answered" => \A l \in task[i].op.changes : Since(l, task[i].edit, task[i].at)

\* The load brings the edit, if every request that is to come is answered.
Brings(t, l, e) ==
    \E k \in 1 .. Len(t.loads) :
        l \in UNION (t.loads[k]) /\ (k = 1 /\ l \in DOMAIN t.got => e \in t.got[l].edits)
Coming(l, e) == \E i \in Tasks : task[i].stage = "loading" /\ Brings(task[i], l, e)

Excused(l) == l \in stale.missed \cup stale.crossed \cup stale.raced \/ <<page, l>> \in NotLoadedAgain
Accounted == left \/ \A d \in did : d[2] \in shown[d[1]].edits \/ Excused(d[1]) \/ Coming(d[1], d[2])

\* What a handler has in hand at each stage.
InHand(t) ==
    /\ t.stage \in {"sent", "answered"} =>
          t.op \in Ops /\ t.loads = t.op.loads /\ t.edit > 0
    /\ t.stage = "answered" /\ t.op.then = "take" =>
          DOMAIN t.got = UNION Head(t.op.loads) /\ \A l \in DOMAIN t.got : t.got[l].at = t.at
    /\ t.stage = "loading" => t.loads # <<>> /\ DOMAIN t.got \subseteq UNION Head(t.loads)

Sent == {i \in Tasks : task[i].stage = "sent"}
EditsServed == clock + Cardinality(Sent) <= begun

PagesInv ==
    /\ PagesTypeOK /\ EditsServed
    /\ \A i \in Tasks : InHand(task[i]) /\ MadeAt(i)
    /\ UpToDate /\ Accounted

-----------------------------------------------------------------------------
(* The tables.  Whatever an operation changes, its page loads again, takes *)
(* from the answer, or is known not to load.                               *)

\* What follows an operation, as far as the proof goes.
Fits(op, lists, guarded, name) ==
    /\ op.changes \subseteq lists /\ op.whole \in lists \cup {""}
    /\ op.loads \in Seq(SUBSET SUBSET lists)
    /\ \/ /\ op.then \in {"reload", "always"}
          /\ \A l \in op.changes : <<name, l>> \in NotLoadedAgain \/ \E k \in 1 .. Len(op.loads) : l \in UNION (op.loads[k])
       \/ /\ op.then = "take" /\ op.loads # <<>> /\ op.changes \subseteq UNION Head(op.loads)
          /\ (UNION Head(op.loads)) \cap guarded = {}
       \/ op.then = "nothing" /\ op.changes = {}
       \/ op.then \in {"leave", "keep"}

AllFit(ops, lists, guarded, name) == \A n \in DOMAIN ops : Fits(ops[n], lists, guarded, name)

LEMMA OneLoad ==
    ASSUME NEW S, NEW x \in S
    PROVE  <<x>> \in Seq(S) /\ Len(<<x>>) = 1 /\ <<x>>[1] = x /\ <<x>> # <<>> /\ Head(<<x>>) = x
OBVIOUS

LEMMA TwoLoads ==
    ASSUME NEW S, NEW x \in S, NEW y \in S
    PROVE  <<x, y>> \in Seq(S) /\ Len(<<x, y>>) = 2 /\ <<x, y>>[1] = x /\ <<x, y>>[2] = y
OBVIOUS

LEMMA NoLoad == ASSUME NEW S PROVE <<>> \in Seq(S)
OBVIOUS

LEMMA Indices == ASSUME NEW s, NEW n \in Nat, Len(s) = n PROVE \A k \in 1 .. n : k \in 1 .. Len(s)
OBVIOUS

\* An operation that is written with a flag, or sends a list whole, is followed by the same.
Like(op, plain, lists) ==
    \/ op = plain
    \/ \E flag : op = Flagged(plain, flag) \/ op = Unawaited(Flagged(plain, flag))
    \/ \E list \in lists : op = Whole(plain, list)

LEMMA LikeFits ==
    ASSUME NEW op, NEW changes, NEW then, NEW loads, NEW lists, NEW guarded, NEW name,
           Like(op, Plain(changes, then, loads), lists), Fits(Plain(changes, then, loads), lists, guarded, name)
    PROVE  Fits(op, lists, guarded, name)
<1> DEFINE plain == Plain(changes, then, loads)
<1>1. /\ plain.changes = changes /\ plain.then = then /\ plain.loads = loads /\ plain.whole = ""
      /\ plain = [changes |-> changes, whole |-> "", then |-> then, loads |-> loads, flag |-> "", awaits |-> TRUE]
  BY DEF Plain
<1>2. op.changes = changes /\ op.then = then /\ op.loads = loads /\ op.whole \in lists \cup {""}
  <2> HIDE DEF plain
  <2>1. CASE op = plain
    BY <1>1, <2>1
  <2>2. ASSUME NEW flag, op = Flagged(plain, flag) \/ op = Unawaited(Flagged(plain, flag))
        PROVE  op.changes = changes /\ op.then = then /\ op.loads = loads /\ op.whole \in lists \cup {""}
    BY <1>1, <2>2 DEF Flagged, Unawaited
  <2>3. ASSUME NEW list \in lists, op = Whole(plain, list)
        PROVE  op.changes = changes /\ op.then = then /\ op.loads = loads /\ op.whole \in lists \cup {""}
    BY <1>1, <2>3 DEF Whole
  <2>4. \/ op = plain
        \/ \E flag : op = Flagged(plain, flag) \/ op = Unawaited(Flagged(plain, flag))
        \/ \E list \in lists : op = Whole(plain, list)
    BY DEF Like, plain
  <2> QED BY <2>1, <2>2, <2>3, <2>4
<1> HIDE DEF plain
<1>3. Fits(plain, lists, guarded, name)
  BY DEF plain
<1> QED BY <1>1, <1>2, <1>3 DEF Fits

LEMMA ReloadFits ==
    ASSUME NEW changes, NEW then \in {"reload", "always"}, NEW load, NEW lists, NEW guarded, NEW name,
           load \in SUBSET SUBSET lists, changes \subseteq UNION load
    PROVE  Fits(Plain(changes, then, <<load>>), lists, guarded, name)
<1> DEFINE loads == <<load>>
           op == Plain(changes, then, loads)
<1>1. loads \in Seq(SUBSET SUBSET lists) /\ Len(loads) = 1 /\ loads[1] = load
  BY OneLoad
<1> HIDE DEF loads
<1>2. op.changes = changes /\ op.then = then /\ op.loads = loads /\ op.whole = ""
  BY DEF Plain
<1>3. changes \subseteq lists
  OBVIOUS
<1>4. \A l \in changes : \E k \in 1 .. Len(loads) : l \in UNION (loads[k])
  <2> TAKE l \in changes
  <2>1. 1 \in 1 .. Len(loads)
    BY <1>1, Indices
  <2>2. l \in UNION (loads[1])
    BY <1>1
  <2> QED BY <2>1, <2>2
<1> HIDE DEF op
<1>5. Fits(op, lists, guarded, name)
  BY <1>1, <1>2, <1>3, <1>4 DEF Fits
<1> QED BY <1>5 DEF op, loads

LEMMA TakeFits ==
    ASSUME NEW changes, NEW taken, NEW lists, NEW guarded, NEW name,
           changes \subseteq taken, taken \subseteq lists, taken \cap guarded = {}
    PROVE  Fits(Plain(changes, "take", <<{taken}>>), lists, guarded, name)
<1> DEFINE loads == <<{taken}>>
           op == Plain(changes, "take", loads)
<1>1. loads \in Seq(SUBSET SUBSET lists) /\ loads # <<>> /\ Head(loads) = {taken}
  <2>1. {taken} \in SUBSET SUBSET lists
    OBVIOUS
  <2> QED BY <2>1, OneLoad
<1>2. UNION {taken} = taken
  OBVIOUS
<1> HIDE DEF loads
<1>3. op.changes = changes /\ op.then = "take" /\ op.loads = loads /\ op.whole = ""
  BY DEF Plain
<1> HIDE DEF op
<1>4. Fits(op, lists, guarded, name)
  BY <1>1, <1>2, <1>3 DEF Fits
<1> QED BY <1>4 DEF op, loads

LEMMA EndFits ==
    ASSUME NEW changes, NEW then, NEW lists, NEW guarded, NEW name, changes \subseteq lists,
           then \in {"leave", "keep"} \/ (then = "nothing" /\ changes = {})
    PROVE  Fits(Plain(changes, then, <<>>), lists, guarded, name)
<1>1. <<>> \in Seq(SUBSET SUBSET lists)
  BY NoLoad
<1> QED BY <1>1 DEF Fits, Plain

\* An operation that concerns one listing: the lists one request loads.
Reloading(op, listing) ==
    \E changes \in SUBSET listing :
        Like(op, Reloads(changes, <<One(listing)>>), listing) \/ op = Always(Reloads(changes, <<One(listing)>>))
Simple(op, listing) ==
    \/ Reloading(op, listing)
    \/ \E changes \in SUBSET listing :
          Like(op, Takes(changes, listing), listing) \/ op = Departs(changes) \/ op = Plain(changes, "keep", <<>>)
    \/ Like(op, Forgets, listing)

LEMMA LikeMore ==
    ASSUME NEW op, NEW plain, NEW listing, NEW lists, listing \subseteq lists, Like(op, plain, listing)
    PROVE  Like(op, plain, lists)
BY DEF Like

LEMMA ReloadingFits ==
    ASSUME NEW op, NEW listing, NEW lists, NEW guarded, NEW name, listing \subseteq lists, Reloading(op, listing)
    PROVE  Fits(op, lists, guarded, name)
<1> DEFINE load == One(listing)
<1>1. load \in SUBSET SUBSET lists /\ UNION load = listing
  BY DEF One
<1>2. PICK changes \in SUBSET listing :
         Like(op, Reloads(changes, <<load>>), listing) \/ op = Always(Reloads(changes, <<load>>))
  BY DEF Reloading
<1> HIDE DEF load
<1>3. \A then \in {"reload", "always"} : Fits(Plain(changes, then, <<load>>), lists, guarded, name)
  BY <1>1, ReloadFits
<1>4. CASE Like(op, Reloads(changes, <<load>>), listing)
  <2>1. Like(op, Plain(changes, "reload", <<load>>), lists)
    BY <1>4, LikeMore DEF Reloads
  <2>2. Fits(Plain(changes, "reload", <<load>>), lists, guarded, name)
    BY <1>3
  <2> QED BY <2>1, <2>2, LikeFits
<1>5. CASE op = Always(Reloads(changes, <<load>>))
  <2> DEFINE loads == <<load>>
             plain == Plain(changes, "always", loads)
  <2>1. Fits(plain, lists, guarded, name)
    BY <1>3
  <2>2. op = Always(Reloads(changes, loads))
    BY <1>5
  <2> HIDE DEF loads
  <2>3. op.changes = plain.changes /\ op.then = plain.then /\ op.loads = plain.loads /\ op.whole = plain.whole
    BY <2>2 DEF Always, Reloads, Plain
  <2> HIDE DEF plain
  <2> QED BY <2>1, <2>3 DEF Fits
<1> QED BY <1>2, <1>4, <1>5

LEMMA SimpleFits ==
    ASSUME NEW op, NEW listing, NEW lists, NEW guarded, NEW name,
           listing \subseteq lists, listing \cap guarded = {}, Simple(op, listing)
    PROVE  Fits(op, lists, guarded, name)
<1>1. CASE Reloading(op, listing)
  BY <1>1, ReloadingFits
<1>2. ASSUME NEW changes \in SUBSET listing, Like(op, Takes(changes, listing), listing)
      PROVE  Fits(op, lists, guarded, name)
  <2>1. Like(op, Plain(changes, "take", <<{listing}>>), lists)
    BY <1>2, LikeMore DEF Takes
  <2>2. Fits(Plain(changes, "take", <<{listing}>>), lists, guarded, name)
    BY TakeFits
  <2> QED BY <2>1, <2>2, LikeFits
<1>3. ASSUME NEW changes \in SUBSET listing, op = Departs(changes) \/ op = Plain(changes, "keep", <<>>)
      PROVE  Fits(op, lists, guarded, name)
  BY <1>3, EndFits DEF Departs
<1>4. CASE Like(op, Forgets, listing)
  <2>1. Like(op, Plain({}, "nothing", <<>>), lists)
    BY <1>4, LikeMore DEF Forgets
  <2>2. Fits(Plain({}, "nothing", <<>>), lists, guarded, name)
    BY EndFits
  <2> QED BY <2>1, <2>2, LikeFits
<1> QED BY <1>1, <1>2, <1>3, <1>4 DEF Simple

LEMMA ReloadingAllFit ==
    ASSUME NEW ops, NEW listing, NEW lists, NEW guarded, NEW name, listing \subseteq lists,
           \A n \in DOMAIN ops : Reloading(ops[n], listing)
    PROVE  AllFit(ops, lists, guarded, name)
BY ReloadingFits DEF AllFit

LEMMA SimpleAllFit ==
    ASSUME NEW ops, NEW listing, NEW lists, NEW guarded, NEW name, listing \subseteq lists, listing \cap guarded = {},
           \A n \in DOMAIN ops : Simple(ops[n], listing)
    PROVE  AllFit(ops, lists, guarded, name)
BY SimpleFits DEF AllFit

LEMMA BothFit ==
    ASSUME NEW f, NEW g, NEW lists, NEW guarded, NEW name,
           AllFit(f, lists, guarded, name), AllFit(g, lists, guarded, name)
    PROVE  AllFit(Both(f, g), lists, guarded, name)
BY DEF AllFit, Both

LEMMA AdminUsersPageFits ==
    ASSUME NEW lists, NEW guarded, NEW name, {"users"} \subseteq lists, {"users"} \cap guarded = {}
    PROVE  AllFit(AdminUsersPage, lists, guarded, name)
<1> DEFINE listing == {"users"}
<1>1. \A n \in DOMAIN AdminUsersPage : Simple(AdminUsersPage[n], listing)
  BY DEF AdminUsersPage, Simple, Reloading, Like
<1> HIDE DEF listing
<1>2. listing \subseteq lists /\ listing \cap guarded = {}
  BY DEF listing
<1> QED BY <1>1, <1>2, SimpleAllFit

LEMMA AdminUserEditPageFits ==
    ASSUME NEW lists, NEW guarded, NEW name, {"user"} \subseteq lists, {"user"} \cap guarded = {}
    PROVE  AllFit(AdminUserEditPage, lists, guarded, name)
<1> DEFINE listing == {"user"}
<1>1. \A n \in DOMAIN AdminUserEditPage : Simple(AdminUserEditPage[n], listing)
  BY DEF AdminUserEditPage, Simple, Reloading, Like
<1> HIDE DEF listing
<1>2. listing \subseteq lists /\ listing \cap guarded = {}
  BY DEF listing
<1> QED BY <1>1, <1>2, SimpleAllFit

LEMMA AvatarCropFieldFits ==
    ASSUME NEW lists, NEW guarded, NEW name, {"user"} \subseteq lists, {"user"} \cap guarded = {}
    PROVE  AllFit(AvatarCropField, lists, guarded, name)
<1> DEFINE listing == {"user"}
<1>1. \A n \in DOMAIN AvatarCropField : Simple(AvatarCropField[n], listing)
  BY DEF AvatarCropField, Simple, Reloading, Like
<1> HIDE DEF listing
<1>2. listing \subseteq lists /\ listing \cap guarded = {}
  BY DEF listing
<1> QED BY <1>1, <1>2, SimpleAllFit

LEMMA AdminStreamsPageFits ==
    ASSUME NEW lists, NEW guarded, NEW name, {"streams"} \subseteq lists
    PROVE  AllFit(AdminStreamsPage, lists, guarded, name)
<1> DEFINE listing == {"streams"}
<1>1. \A n \in DOMAIN AdminStreamsPage : Reloading(AdminStreamsPage[n], listing)
  BY DEF AdminStreamsPage, Reloading, Like
<1> HIDE DEF listing
<1>2. listing \subseteq lists
  BY DEF listing
<1> QED BY <1>1, <1>2, ReloadingAllFit

LEMMA AdminChannelsPageFits ==
    ASSUME NEW lists, NEW guarded, NEW name, {"channels", "homepage"} \subseteq lists
    PROVE  AllFit(AdminChannelsPage, lists, guarded, name)
<1> DEFINE listing == {"channels", "homepage"}
<1>1. \A n \in DOMAIN AdminChannelsPage : Reloading(AdminChannelsPage[n], listing)
  BY DEF AdminChannelsPage, Reloading, Like
<1> HIDE DEF listing
<1>2. listing \subseteq lists
  BY DEF listing
<1> QED BY <1>1, <1>2, ReloadingAllFit

LEMMA ChannelsPageFits ==
    ASSUME NEW lists, NEW guarded, NEW name, {"channels"} \subseteq lists
    PROVE  AllFit(ChannelsPage, lists, guarded, name)
<1> DEFINE listing == {"channels"}
<1>1. \A n \in DOMAIN ChannelsPage : Reloading(ChannelsPage[n], listing)
  BY DEF ChannelsPage, Reloading, Like
<1> HIDE DEF listing
<1>2. listing \subseteq lists
  BY DEF listing
<1> QED BY <1>1, <1>2, ReloadingAllFit

LEMMA AdminGamesPageFits ==
    ASSUME NEW lists, NEW guarded, NEW name, {"games"} \subseteq lists
    PROVE  AllFit(AdminGamesPage, lists, guarded, name)
<1> DEFINE listing == {"games"}
<1>1. \A n \in DOMAIN AdminGamesPage : Reloading(AdminGamesPage[n], listing)
  BY DEF AdminGamesPage, Reloading, Like
<1> HIDE DEF listing
<1>2. listing \subseteq lists
  BY DEF listing
<1> QED BY <1>1, <1>2, ReloadingAllFit

LEMMA AdminSettingsPageFits ==
    ASSUME NEW lists, NEW guarded, NEW name, {"settings"} \subseteq lists, {"settings"} \cap guarded = {}
    PROVE  AllFit(AdminSettingsPage, lists, guarded, name)
<1> DEFINE listing == {"settings"}
<1>1. \A n \in DOMAIN AdminSettingsPage : Simple(AdminSettingsPage[n], listing)
  BY DEF AdminSettingsPage, Simple, Reloading, Like
<1> HIDE DEF listing
<1>2. listing \subseteq lists /\ listing \cap guarded = {}
  BY DEF listing
<1> QED BY <1>1, <1>2, SimpleAllFit

LEMMA ChannelEditPageFits ==
    ASSUME NEW lists, NEW guarded, NEW name, {"channel", "members"} \subseteq lists, {"channel", "members"} \cap guarded = {}
    PROVE  AllFit(ChannelEditPage, lists, guarded, name)
<1> DEFINE listing == {"channel", "members"}
<1>1. \A n \in DOMAIN ChannelEditPage : Simple(ChannelEditPage[n], listing)
  BY DEF ChannelEditPage, Simple, Reloading, Like
<1> HIDE DEF listing
<1>2. listing \subseteq lists /\ listing \cap guarded = {}
  BY DEF listing
<1> QED BY <1>1, <1>2, SimpleAllFit

LEMMA DestinationsTableFits ==
    ASSUME NEW lists, NEW guarded, NEW name, {"horizontal", "vertical"} \subseteq lists
    PROVE  AllFit(DestinationsTable, lists, guarded, name)
<1> DEFINE listing == {"horizontal", "vertical"}
<1>1. \A n \in DOMAIN DestinationsTable : Reloading(DestinationsTable[n], listing)
  BY DEF DestinationsTable, Reloading, Like
<1> HIDE DEF listing
<1>2. listing \subseteq lists
  BY DEF listing
<1> QED BY <1>1, <1>2, ReloadingAllFit

LEMMA MyStreamsFits ==
    ASSUME NEW lists, NEW guarded, NEW name, {"streams", "sources"} \subseteq lists
    PROVE  AllFit(MyStreams, lists, guarded, name)
<1> DEFINE listing == {"streams", "sources"}
<1>1. \A n \in DOMAIN MyStreams : Reloading(MyStreams[n], listing)
  BY DEF MyStreams, Reloading, Like
<1> HIDE DEF listing
<1>2. listing \subseteq lists
  BY DEF listing
<1> QED BY <1>1, <1>2, ReloadingAllFit

LEMMA MyRelaysFits ==
    ASSUME NEW lists, NEW guarded, NEW name, {"relays"} \subseteq lists
    PROVE  AllFit(MyRelays, lists, guarded, name)
<1> DEFINE listing == {"relays"}
<1>1. \A n \in DOMAIN MyRelays : Reloading(MyRelays[n], listing)
  BY DEF MyRelays, Reloading, Like
<1> HIDE DEF listing
<1>2. listing \subseteq lists
  BY DEF listing
<1> QED BY <1>1, <1>2, ReloadingAllFit

LEMMA MyRelayFormFits ==
    ASSUME NEW lists, NEW guarded, NEW name, {"relays"} \subseteq lists
    PROVE  AllFit(MyRelayForm, lists, guarded, name)
<1> DEFINE listing == {"relays"}
<1>1. \A n \in DOMAIN MyRelayForm : Reloading(MyRelayForm[n], listing)
  BY DEF MyRelayForm, Reloading, Like
<1> HIDE DEF listing
<1>2. listing \subseteq lists
  BY DEF listing
<1> QED BY <1>1, <1>2, ReloadingAllFit

LEMMA MyChannelsFits ==
    ASSUME NEW lists, NEW guarded, NEW name, {"channels"} \subseteq lists
    PROVE  AllFit(MyChannels, lists, guarded, name)
<1> DEFINE listing == {"channels"}
<1>1. \A n \in DOMAIN MyChannels : Reloading(MyChannels[n], listing)
  BY DEF MyChannels, Reloading, Like
<1> HIDE DEF listing
<1>2. listing \subseteq lists
  BY DEF listing
<1> QED BY <1>1, <1>2, ReloadingAllFit

LEMMA ConsoleStreamsFits ==
    ASSUME NEW lists, NEW guarded, NEW name, {"streams", "access"} \subseteq lists
    PROVE  AllFit(ConsoleStreams, lists, guarded, name)
<1> DEFINE listing == {"streams", "access"}
<1>1. \A n \in DOMAIN ConsoleStreams : Reloading(ConsoleStreams[n], listing)
  BY DEF ConsoleStreams, Reloading, Like
<1> HIDE DEF listing
<1>2. listing \subseteq lists
  BY DEF listing
<1> QED BY <1>1, <1>2, ReloadingAllFit

LEMMA editStreamAccessFits ==
    ASSUME NEW lists, NEW guarded, NEW name, {"streams", "access"} \subseteq lists
    PROVE  AllFit(editStreamAccess, lists, guarded, name)
<1> DEFINE listing == {"streams", "access"}
<1>1. \A n \in DOMAIN editStreamAccess : Reloading(editStreamAccess[n], listing)
  BY DEF editStreamAccess, Reloading, Like
<1> HIDE DEF listing
<1>2. listing \subseteq lists
  BY DEF listing
<1> QED BY <1>1, <1>2, ReloadingAllFit

LEMMA ConsoleRelaysFits ==
    ASSUME NEW lists, NEW guarded, NEW name, {"relays", "sources"} \subseteq lists
    PROVE  AllFit(ConsoleRelays, lists, guarded, name)
<1> DEFINE listing == {"relays", "sources"}
<1>1. \A n \in DOMAIN ConsoleRelays : Reloading(ConsoleRelays[n], listing)
  BY DEF ConsoleRelays, Reloading, Like
<1> HIDE DEF listing
<1>2. listing \subseteq lists
  BY DEF listing
<1> QED BY <1>1, <1>2, ReloadingAllFit

LEMMA ConsoleRelayFormFits ==
    ASSUME NEW lists, NEW guarded, NEW name, {"relays", "sources"} \subseteq lists
    PROVE  AllFit(ConsoleRelayForm, lists, guarded, name)
<1> DEFINE listing == {"relays", "sources"}
<1>1. \A n \in DOMAIN ConsoleRelayForm : Reloading(ConsoleRelayForm[n], listing)
  BY DEF ConsoleRelayForm, Reloading, Like
<1> HIDE DEF listing
<1>2. listing \subseteq lists
  BY DEF listing
<1> QED BY <1>1, <1>2, ReloadingAllFit

LEMMA ConsoleCompositionFits ==
    ASSUME NEW lists, NEW guarded, NEW name, {"composition"} \subseteq lists, {"composition"} \cap guarded = {}
    PROVE  AllFit(ConsoleComposition, lists, guarded, name)
<1> DEFINE listing == {"composition"}
<1>1. \A n \in DOMAIN ConsoleComposition : Simple(ConsoleComposition[n], listing)
  BY DEF ConsoleComposition, Simple, Reloading, Like
<1> HIDE DEF listing
<1>2. listing \subseteq lists /\ listing \cap guarded = {}
  BY DEF listing
<1> QED BY <1>1, <1>2, SimpleAllFit

LEMMA ConsoleChannelsFits ==
    ASSUME NEW lists, NEW guarded, NEW name, {"channels", "homepage"} \subseteq lists
    PROVE  AllFit(ConsoleChannels, lists, guarded, name)
<1> DEFINE listing == {"channels", "homepage"}
<1>1. \A n \in DOMAIN ConsoleChannels : Reloading(ConsoleChannels[n], listing)
  BY DEF ConsoleChannels, Reloading, Like
<1> HIDE DEF listing
<1>2. listing \subseteq lists
  BY DEF listing
<1> QED BY <1>1, <1>2, ReloadingAllFit

LEMMA ConsoleUsersFits ==
    ASSUME NEW lists, NEW guarded, NEW name, {"users"} \subseteq lists, {"users"} \cap guarded = {}
    PROVE  AllFit(ConsoleUsers, lists, guarded, name)
<1> DEFINE listing == {"users"}
<1>1. \A n \in DOMAIN ConsoleUsers : Simple(ConsoleUsers[n], listing)
  BY DEF ConsoleUsers, Simple, Reloading, Like
<1> HIDE DEF listing
<1>2. listing \subseteq lists /\ listing \cap guarded = {}
  BY DEF listing
<1> QED BY <1>1, <1>2, SimpleAllFit

LEMMA ConsoleUserFormFits ==
    ASSUME NEW lists, NEW guarded, NEW name, {"users"} \subseteq lists
    PROVE  AllFit(ConsoleUserForm, lists, guarded, name)
<1> DEFINE listing == {"users"}
<1>1. \A n \in DOMAIN ConsoleUserForm : Reloading(ConsoleUserForm[n], listing)
  BY DEF ConsoleUserForm, Reloading, Like
<1> HIDE DEF listing
<1>2. listing \subseteq lists
  BY DEF listing
<1> QED BY <1>1, <1>2, ReloadingAllFit

LEMMA ConsoleSettingsFits ==
    ASSUME NEW lists, NEW guarded, NEW name, {"settings"} \subseteq lists, {"settings"} \cap guarded = {}
    PROVE  AllFit(ConsoleSettings, lists, guarded, name)
<1> DEFINE listing == {"settings"}
<1>1. \A n \in DOMAIN ConsoleSettings : Simple(ConsoleSettings[n], listing)
  BY DEF ConsoleSettings, Simple, Reloading, Like
<1> HIDE DEF listing
<1>2. listing \subseteq lists /\ listing \cap guarded = {}
  BY DEF listing
<1> QED BY <1>1, <1>2, SimpleAllFit

LEMMA AdminRelaysPageFits ==
    ASSUME NEW lists, NEW guarded, NEW name, {"relays", "streams"} \subseteq lists
    PROVE  AllFit(AdminRelaysPage, lists, guarded, name)
<1> DEFINE load == {{"relays"}, {"streams"}}
           changes == {"relays"}
           plain == Reloads(changes, <<load>>)
<1>1. \A n \in DOMAIN AdminRelaysPage : AdminRelaysPage[n] = plain \/ \E flag : AdminRelaysPage[n] = Flagged(plain, flag)
  BY DEF AdminRelaysPage
<1>2. load \in SUBSET SUBSET lists /\ changes \subseteq UNION load
  OBVIOUS
<1> HIDE DEF load, changes
<1>3. Fits(Plain(changes, "reload", <<load>>), lists, guarded, name)
  BY <1>2, ReloadFits
<1>4. \A n \in DOMAIN AdminRelaysPage : Like(AdminRelaysPage[n], Plain(changes, "reload", <<load>>), lists)
  BY <1>1 DEF Like, Reloads
<1> QED BY <1>3, <1>4, LikeFits DEF AllFit

LEMMA ChannelCompositionSectionFits ==
    ASSUME NEW lists, NEW guarded, NEW name, {"horizontal", "vertical"} \subseteq lists,
           {"horizontal", "vertical"} \cap guarded = {}
    PROVE  AllFit(ChannelCompositionSection, lists, guarded, name)
<1> DEFINE section == ChannelCompositionSection
           h == {"horizontal"}
           v == {"vertical"}
<1>1. DOMAIN section = {"updateHorizontal", "updateVertical"}
  BY DEF ChannelCompositionSection
<1>2. Simple(section.updateHorizontal, h) /\ Simple(section.updateVertical, v)
  BY DEF ChannelCompositionSection, Simple, Like
<1>3. h \subseteq lists /\ v \subseteq lists /\ h \cap guarded = {} /\ v \cap guarded = {}
  OBVIOUS
<1> HIDE DEF section, h, v
<1>4. Fits(section.updateHorizontal, lists, guarded, name) /\ Fits(section.updateVertical, lists, guarded, name)
  BY <1>2, <1>3, SimpleFits
<1> QED BY <1>1, <1>4 DEF AllFit, section

LEMMA nicknameFieldFits ==
    ASSUME NEW lists, NEW guarded, NEW name, {"streams"} \subseteq lists
    PROVE  AllFit(nicknameField, lists, guarded, name)
<1> DEFINE op == Plain({"streams"}, "keep", <<>>)
<1>1. \A n \in DOMAIN nicknameField : nicknameField[n] = op
  BY DEF nicknameField
<1>2. Fits(op, lists, guarded, name)
  BY EndFits
<1> HIDE DEF op
<1> QED BY <1>1, <1>2 DEF AllFit

LEMMA StreamerPageFits ==
    ASSUME NEW guarded
    PROVE  AllFit(StreamerPage, {"streams", "relays", "sources"}, guarded, "StreamerPage")
<1> DEFINE lists == {"streams", "relays", "sources"}
           streams == {"streams"}
           relays == {"relays", "sources"}
           page_ == StreamerPage
<1>1. DOMAIN page_ = {"createStream", "rotateKey", "toggleStream", "setVisibility", "removeStream",
                     "createRelay", "toggleRelay", "removeRelay"}
  BY DEF StreamerPage
<1>2. \A n \in {"rotateKey", "toggleStream", "setVisibility"} : Reloading(page_[n], streams)
  BY DEF StreamerPage, Reloading, Like
<1>3. \A n \in {"createRelay", "toggleRelay", "removeRelay"} : Reloading(page_[n], relays)
  BY DEF StreamerPage, Reloading, Like
<1>4. streams \subseteq lists /\ relays \subseteq lists
  OBVIOUS
<1>5. Fits(page_.createStream, lists, guarded, "StreamerPage")
  <2> DEFINE changes == {"streams", "sources"}
             loads == <<One(streams)>>
             plain == Plain(changes, "reload", loads)
  <2>1. page_.createStream = Flagged(plain, "creatingStream")
    BY DEF StreamerPage, Reloads
  <2>2. One(streams) \in SUBSET SUBSET lists /\ "streams" \in UNION One(streams)
    BY DEF One
  <2>3. loads \in Seq(SUBSET SUBSET lists) /\ Len(loads) = 1 /\ loads[1] = One(streams)
    BY <2>2, OneLoad
  <2>4. \A l \in changes : <<"StreamerPage", l>> \in NotLoadedAgain \/ l = "streams"
    BY DEF NotLoadedAgain
  <2>5. changes \subseteq lists
    OBVIOUS
  <2> HIDE DEF changes, loads, lists, streams
  <2>6. \A l \in changes : <<"StreamerPage", l>> \in NotLoadedAgain \/ \E k \in 1 .. Len(loads) : l \in UNION (loads[k])
    <3> TAKE l \in changes
    <3>1. 1 \in 1 .. Len(loads)
      BY <2>3, Indices
    <3>2. "streams" \in UNION (loads[1])
      BY <2>2, <2>3
    <3> QED BY <2>4, <3>1, <3>2
  <2>7. plain.changes = changes /\ plain.then = "reload" /\ plain.loads = loads /\ plain.whole = ""
    BY DEF Plain
  <2> HIDE DEF plain
  <2>8. Fits(plain, lists, guarded, "StreamerPage")
    BY <2>3, <2>5, <2>6, <2>7 DEF Fits
  <2>9. Like(page_.createStream, plain, lists)
    BY <2>1 DEF Like
  <2> QED BY <2>8, <2>9, LikeFits DEF plain
<1>6. Fits(page_.removeStream, lists, guarded, "StreamerPage")
  <2> DEFINE a == One(streams)
             b == One(relays)
             loads == <<a, b>>
             op == page_.removeStream
  <2>1. op = Plain(lists, "reload", loads)
    BY DEF StreamerPage, Reloads
  <2>2. a \in SUBSET SUBSET lists /\ b \in SUBSET SUBSET lists /\ lists \subseteq (UNION a) \cup (UNION b)
    BY DEF One
  <2> HIDE DEF a, b, lists, page_
  <2>3. loads \in Seq(SUBSET SUBSET lists) /\ Len(loads) = 2 /\ loads[1] = a /\ loads[2] = b
    BY <2>2, TwoLoads
  <2> HIDE DEF loads
  <2>4. \A l \in lists : \E k \in 1 .. Len(loads) : l \in UNION (loads[k])
    <3> TAKE l \in lists
    <3>1. 1 \in 1 .. Len(loads) /\ 2 \in 1 .. Len(loads)
      BY <2>3, Indices
    <3>2. l \in UNION (loads[1]) \/ l \in UNION (loads[2])
      BY <2>2, <2>3
    <3> QED BY <3>1, <3>2
  <2> HIDE DEF op
  <2>5. op.changes = lists /\ op.then = "reload" /\ op.loads = loads /\ op.whole = ""
    BY <2>1 DEF Plain
  <2>6. Fits(op, lists, guarded, "StreamerPage")
    BY <2>3, <2>4, <2>5 DEF Fits
  <2> QED BY <2>6 DEF op
<1> HIDE DEF page_, lists, streams, relays
<1>7. \A n \in {"rotateKey", "toggleStream", "setVisibility"} : Fits(page_[n], lists, guarded, "StreamerPage")
  BY <1>2, <1>4, ReloadingFits
<1>8. \A n \in {"createRelay", "toggleRelay", "removeRelay"} : Fits(page_[n], lists, guarded, "StreamerPage")
  BY <1>3, <1>4, ReloadingFits
<1>9. AllFit(page_, lists, guarded, "StreamerPage")
  BY <1>1, <1>5, <1>6, <1>7, <1>8 DEF AllFit
<1> QED BY <1>9 DEF page_, lists


-----------------------------------------------------------------------------
(* The pages.                                                              *)

PageLists(name) == UNION UNION PageTable[name].opens
PageFits(name) ==
    "" \notin PageLists(name) /\ AllFit(PageTable[name].ops, PageLists(name), PageTable[name].guarded, name)

LEMMA Together ==
    /\ \A a, b : UNION UNION {{a, b}} = a \cup b
    /\ \A a : UNION UNION {One(a)} = a
    /\ \A a, b : UNION UNION {One(a), One(b)} = a \cup b
<1>1. \A a, b : UNION {{a, b}} = {a, b} /\ UNION {a, b} = a \cup b
  OBVIOUS
<1>2. \A a : UNION {One(a)} = {a} /\ UNION {a} = a
  BY DEF One
<1>3. \A a, b : UNION {One(a), One(b)} = {a, b}
  BY DEF One
<1>4. \A a, b : UNION UNION {{a, b}} = a \cup b
  BY <1>1, Zenon
<1>5. \A a : UNION UNION {One(a)} = a
  BY <1>2, Zenon
<1>6. \A a, b : UNION UNION {One(a), One(b)} = a \cup b
  <2> TAKE a, b
  <2>1. UNION {One(a), One(b)} = {a, b}
    BY <1>3
  <2>2. UNION {a, b} = a \cup b
    BY <1>1
  <2> QED BY <2>1, <2>2
<1> QED BY <1>4, <1>5, <1>6

LEMMA PageByTable ==
    ASSUME NEW name, NEW opens, NEW ops, NEW controls, NEW guarded, NEW lists,
           \/ PageTable[name] = React(opens, ops, controls) /\ guarded = {}
           \/ PageTable[name] = Vanilla(opens, guarded, ops, controls),
           UNION UNION opens = lists, "" \notin lists, AllFit(ops, lists, guarded, name)
    PROVE  PageFits(name)
<1>1. ASSUME NEW P, P = React(opens, ops, controls) PROVE P.opens = opens /\ P.ops = ops /\ P.guarded = {}
  BY <1>1 DEF React
<1>2. ASSUME NEW P, P = Vanilla(opens, guarded, ops, controls) PROVE P.opens = opens /\ P.ops = ops /\ P.guarded = guarded
  BY <1>2 DEF Vanilla
<1>3. PageTable[name].opens = opens /\ PageTable[name].ops = ops /\ PageTable[name].guarded = guarded
  BY <1>1, <1>2
<1> QED BY <1>3 DEF PageFits, PageLists

LEMMA Page_StreamerPage == PageFits("StreamerPage")
<1> DEFINE lists == {"streams", "relays", "sources"}
           guarded == {}
<1>1. PageTable["StreamerPage"] = React({One({"streams"}), One({"relays", "sources"})}, StreamerPage, StreamerPageControls)
  BY DEF PageTable, PageNames
<1>2. UNION UNION {One({"streams"}), One({"relays", "sources"})} = lists /\ "" \notin lists
  <2>1. UNION UNION {One({"streams"}), One({"relays", "sources"})} = {"streams"} \cup {"relays", "sources"}
    BY Together
  <2> QED BY <2>1
<1>3. AllFit(StreamerPage, lists, guarded, "StreamerPage")
  BY StreamerPageFits
<1> HIDE DEF lists
<1> QED BY <1>1, <1>2, <1>3, PageByTable

LEMMA Page_AdminUsersPage == PageFits("AdminUsersPage")
<1> DEFINE lists == {"users"}
           guarded == {}
<1>1. PageTable["AdminUsersPage"] = React({One({"users"})}, AdminUsersPage, AdminUsersPageControls)
  BY DEF PageTable, PageNames
<1>2. UNION UNION {One({"users"})} = lists /\ "" \notin lists
  <2>1. UNION UNION {One({"users"})} = {"users"}
    BY Together
  <2> QED BY <2>1
<1>3. AllFit(AdminUsersPage, lists, guarded, "AdminUsersPage")
  BY AdminUsersPageFits
<1> HIDE DEF lists
<1> QED BY <1>1, <1>2, <1>3, PageByTable

LEMMA Page_AdminUserEditPage == PageFits("AdminUserEditPage")
<1> DEFINE lists == {"user"}
           guarded == {}
<1>1. PageTable["AdminUserEditPage"] = React({One({"user"})}, Both(AdminUserEditPage, AvatarCropField), Both(AdminUserEditPageControls, AvatarCropFieldControl))
  BY DEF PageTable, PageNames
<1>2. UNION UNION {One({"user"})} = lists /\ "" \notin lists
  <2>1. UNION UNION {One({"user"})} = {"user"}
    BY Together
  <2> QED BY <2>1
<1>3. AllFit(Both(AdminUserEditPage, AvatarCropField), lists, guarded, "AdminUserEditPage")
  BY AdminUserEditPageFits, AvatarCropFieldFits, BothFit
<1> HIDE DEF lists
<1> QED BY <1>1, <1>2, <1>3, PageByTable

LEMMA Page_AdminRelaysPage == PageFits("AdminRelaysPage")
<1> DEFINE lists == {"relays", "streams"}
           guarded == {}
<1>1. PageTable["AdminRelaysPage"] = React({{{"relays"}, {"streams"}}}, AdminRelaysPage, AdminRelaysPageControls)
  BY DEF PageTable, PageNames
<1>2. UNION UNION {{{"relays"}, {"streams"}}} = lists /\ "" \notin lists
  <2>1. UNION UNION {{{"relays"}, {"streams"}}} = {"relays"} \cup {"streams"}
    BY Together
  <2> QED BY <2>1
<1>3. AllFit(AdminRelaysPage, lists, guarded, "AdminRelaysPage")
  BY AdminRelaysPageFits
<1> HIDE DEF lists
<1> QED BY <1>1, <1>2, <1>3, PageByTable

LEMMA Page_AdminStreamsPage == PageFits("AdminStreamsPage")
<1> DEFINE lists == {"streams"}
           guarded == {}
<1>1. PageTable["AdminStreamsPage"] = React({One({"streams"})}, AdminStreamsPage, AdminStreamsPageControls)
  BY DEF PageTable, PageNames
<1>2. UNION UNION {One({"streams"})} = lists /\ "" \notin lists
  <2>1. UNION UNION {One({"streams"})} = {"streams"}
    BY Together
  <2> QED BY <2>1
<1>3. AllFit(AdminStreamsPage, lists, guarded, "AdminStreamsPage")
  BY AdminStreamsPageFits
<1> HIDE DEF lists
<1> QED BY <1>1, <1>2, <1>3, PageByTable

LEMMA Page_AdminChannelsPage == PageFits("AdminChannelsPage")
<1> DEFINE lists == {"channels", "homepage"}
           guarded == {}
<1>1. PageTable["AdminChannelsPage"] = React({One({"channels", "homepage"})}, AdminChannelsPage, AdminChannelsPageControls)
  BY DEF PageTable, PageNames
<1>2. UNION UNION {One({"channels", "homepage"})} = lists /\ "" \notin lists
  <2>1. UNION UNION {One({"channels", "homepage"})} = {"channels", "homepage"}
    BY Together
  <2> QED BY <2>1
<1>3. AllFit(AdminChannelsPage, lists, guarded, "AdminChannelsPage")
  BY AdminChannelsPageFits
<1> HIDE DEF lists
<1> QED BY <1>1, <1>2, <1>3, PageByTable

LEMMA Page_ChannelsPage == PageFits("ChannelsPage")
<1> DEFINE lists == {"channels"}
           guarded == {}
<1>1. PageTable["ChannelsPage"] = React({One({"channels"})}, ChannelsPage, ChannelsPageControls)
  BY DEF PageTable, PageNames
<1>2. UNION UNION {One({"channels"})} = lists /\ "" \notin lists
  <2>1. UNION UNION {One({"channels"})} = {"channels"}
    BY Together
  <2> QED BY <2>1
<1>3. AllFit(ChannelsPage, lists, guarded, "ChannelsPage")
  BY ChannelsPageFits
<1> HIDE DEF lists
<1> QED BY <1>1, <1>2, <1>3, PageByTable

LEMMA Page_AdminGamesPage == PageFits("AdminGamesPage")
<1> DEFINE lists == {"games"}
           guarded == {}
<1>1. PageTable["AdminGamesPage"] = React({One({"games"})}, AdminGamesPage, AdminGamesPageControls)
  BY DEF PageTable, PageNames
<1>2. UNION UNION {One({"games"})} = lists /\ "" \notin lists
  <2>1. UNION UNION {One({"games"})} = {"games"}
    BY Together
  <2> QED BY <2>1
<1>3. AllFit(AdminGamesPage, lists, guarded, "AdminGamesPage")
  BY AdminGamesPageFits
<1> HIDE DEF lists
<1> QED BY <1>1, <1>2, <1>3, PageByTable

LEMMA Page_AdminSettingsPage == PageFits("AdminSettingsPage")
<1> DEFINE lists == {"settings"}
           guarded == {}
<1>1. PageTable["AdminSettingsPage"] = React({One({"settings"})}, AdminSettingsPage, AdminSettingsPageControls)
  BY DEF PageTable, PageNames
<1>2. UNION UNION {One({"settings"})} = lists /\ "" \notin lists
  <2>1. UNION UNION {One({"settings"})} = {"settings"}
    BY Together
  <2> QED BY <2>1
<1>3. AllFit(AdminSettingsPage, lists, guarded, "AdminSettingsPage")
  BY AdminSettingsPageFits
<1> HIDE DEF lists
<1> QED BY <1>1, <1>2, <1>3, PageByTable

LEMMA Page_ChannelEditPage == PageFits("ChannelEditPage")
<1> DEFINE lists == {"channel", "members", "streams"}
           guarded == {}
<1>1. PageTable["ChannelEditPage"] = React({{{"channel", "members"}, {"streams"}}}, ChannelEditPage, Both(ChannelEditForm, StreamPicker))
  BY DEF PageTable, PageNames
<1>2. UNION UNION {{{"channel", "members"}, {"streams"}}} = lists /\ "" \notin lists
  <2>1. UNION UNION {{{"channel", "members"}, {"streams"}}} = {"channel", "members"} \cup {"streams"}
    BY Together
  <2> QED BY <2>1
<1>3. AllFit(ChannelEditPage, lists, guarded, "ChannelEditPage")
  BY ChannelEditPageFits
<1> HIDE DEF lists
<1> QED BY <1>1, <1>2, <1>3, PageByTable

LEMMA Page_AdminChannelEditPage == PageFits("AdminChannelEditPage")
<1> DEFINE lists == {"channel", "members", "streams"}
           guarded == {}
<1>1. PageTable["AdminChannelEditPage"] = React({{{"channel", "members"}, {"streams"}}}, AdminChannelEditPage, Both(ChannelEditForm, StreamPicker))
  BY DEF PageTable, PageNames
<1>2. UNION UNION {{{"channel", "members"}, {"streams"}}} = lists /\ "" \notin lists
  <2>1. UNION UNION {{{"channel", "members"}, {"streams"}}} = {"channel", "members"} \cup {"streams"}
    BY Together
  <2> QED BY <2>1
<1>3. AllFit(AdminChannelEditPage, lists, guarded, "AdminChannelEditPage")
  BY ChannelEditPageFits DEF AdminChannelEditPage
<1> HIDE DEF lists
<1> QED BY <1>1, <1>2, <1>3, PageByTable

LEMMA Page_ChannelCompositionSection == PageFits("ChannelCompositionSection")
<1> DEFINE lists == {"horizontal", "vertical"}
           guarded == {}
<1>1. PageTable["ChannelCompositionSection"] = React({One({"horizontal", "vertical"})}, Compositions, Both(OrientationCard, DestinationsTableControls))
  BY DEF PageTable, PageNames
<1>2. UNION UNION {One({"horizontal", "vertical"})} = lists /\ "" \notin lists
  <2>1. UNION UNION {One({"horizontal", "vertical"})} = {"horizontal", "vertical"}
    BY Together
  <2> QED BY <2>1
<1>3. AllFit(Compositions, lists, guarded, "ChannelCompositionSection")
  BY ChannelCompositionSectionFits, DestinationsTableFits, BothFit DEF Compositions
<1> HIDE DEF lists
<1> QED BY <1>1, <1>2, <1>3, PageByTable

LEMMA Page_streamer_streams == PageFits("streamer.js streams")
<1> DEFINE lists == {"streams", "sources"}
           guarded == {"streams", "sources"}
<1>1. PageTable["streamer.js streams"] = Vanilla({One({"streams", "sources"})}, {"streams", "sources"}, MyStreams, MyStreamsControls)
  BY DEF PageTable, PageNames
<1>2. UNION UNION {One({"streams", "sources"})} = lists /\ "" \notin lists
  <2>1. UNION UNION {One({"streams", "sources"})} = {"streams", "sources"}
    BY Together
  <2> QED BY <2>1
<1>3. AllFit(MyStreams, lists, guarded, "streamer.js streams")
  BY MyStreamsFits
<1> HIDE DEF lists
<1> QED BY <1>1, <1>2, <1>3, PageByTable

LEMMA Page_streamer_restream == PageFits("streamer.js restream")
<1> DEFINE lists == {"streams", "sources", "relays"}
           guarded == {"streams", "sources"}
<1>1. PageTable["streamer.js restream"] = Vanilla({One({"streams", "sources"}), One({"relays"})}, {"streams", "sources"}, Both(MyRelays, MyRelayForm), Both(MyRelaysControls, MyRelayFormControl))
  BY DEF PageTable, PageNames
<1>2. UNION UNION {One({"streams", "sources"}), One({"relays"})} = lists /\ "" \notin lists
  <2>1. UNION UNION {One({"streams", "sources"}), One({"relays"})} = {"streams", "sources"} \cup {"relays"}
    BY Together
  <2> QED BY <2>1
<1>3. AllFit(Both(MyRelays, MyRelayForm), lists, guarded, "streamer.js restream")
  BY MyRelaysFits, MyRelayFormFits, BothFit
<1> HIDE DEF lists
<1> QED BY <1>1, <1>2, <1>3, PageByTable

LEMMA Page_channels == PageFits("channels.js")
<1> DEFINE lists == {"channels"}
           guarded == {}
<1>1. PageTable["channels.js"] = Vanilla({One({"channels"})}, {}, MyChannels, MyChannelsControls)
  BY DEF PageTable, PageNames
<1>2. UNION UNION {One({"channels"})} = lists /\ "" \notin lists
  <2>1. UNION UNION {One({"channels"})} = {"channels"}
    BY Together
  <2> QED BY <2>1
<1>3. AllFit(MyChannels, lists, guarded, "channels.js")
  BY MyChannelsFits
<1> HIDE DEF lists
<1> QED BY <1>1, <1>2, <1>3, PageByTable

LEMMA Page_admin_streams == PageFits("admin.js streams")
<1> DEFINE lists == {"streams", "access"}
           guarded == {"streams", "access"}
<1>1. PageTable["admin.js streams"] = Vanilla({One({"streams", "access"})}, {"streams", "access"}, Both(ConsoleStreams, Both(nicknameField, editStreamAccess)), Both(ConsoleStreamsControls, Both(NicknameControl, AccessDialog)))
  BY DEF PageTable, PageNames
<1>2. UNION UNION {One({"streams", "access"})} = lists /\ "" \notin lists
  <2>1. UNION UNION {One({"streams", "access"})} = {"streams", "access"}
    BY Together
  <2> QED BY <2>1
<1>3. AllFit(Both(ConsoleStreams, Both(nicknameField, editStreamAccess)), lists, guarded, "admin.js streams")
  BY ConsoleStreamsFits, nicknameFieldFits, editStreamAccessFits, BothFit
<1> HIDE DEF lists
<1> QED BY <1>1, <1>2, <1>3, PageByTable

LEMMA Page_admin_restream == PageFits("admin.js restream")
<1> DEFINE lists == {"relays", "sources"}
           guarded == {"sources"}
<1>1. PageTable["admin.js restream"] = Vanilla({One({"relays", "sources"})}, {"sources"}, Both(ConsoleRelays, ConsoleRelayForm), Both(ConsoleRelaysControls, ConsoleRelayFormControl))
  BY DEF PageTable, PageNames
<1>2. UNION UNION {One({"relays", "sources"})} = lists /\ "" \notin lists
  <2>1. UNION UNION {One({"relays", "sources"})} = {"relays", "sources"}
    BY Together
  <2> QED BY <2>1
<1>3. AllFit(Both(ConsoleRelays, ConsoleRelayForm), lists, guarded, "admin.js restream")
  BY ConsoleRelaysFits, ConsoleRelayFormFits, BothFit
<1> HIDE DEF lists
<1> QED BY <1>1, <1>2, <1>3, PageByTable

LEMMA Page_admin_composition == PageFits("admin.js composition")
<1> DEFINE lists == {"composition"}
           guarded == {}
<1>1. PageTable["admin.js composition"] = React({One({"composition"})}, ConsoleComposition, ConsoleCompositionControls)
  BY DEF PageTable, PageNames
<1>2. UNION UNION {One({"composition"})} = lists /\ "" \notin lists
  <2>1. UNION UNION {One({"composition"})} = {"composition"}
    BY Together
  <2> QED BY <2>1
<1>3. AllFit(ConsoleComposition, lists, guarded, "admin.js composition")
  BY ConsoleCompositionFits
<1> HIDE DEF lists
<1> QED BY <1>1, <1>2, <1>3, PageByTable

LEMMA Page_admin_channels == PageFits("admin.js channels")
<1> DEFINE lists == {"channels", "homepage"}
           guarded == {}
<1>1. PageTable["admin.js channels"] = Vanilla({One({"channels", "homepage"})}, {}, ConsoleChannels, ConsoleChannelsControls)
  BY DEF PageTable, PageNames
<1>2. UNION UNION {One({"channels", "homepage"})} = lists /\ "" \notin lists
  <2>1. UNION UNION {One({"channels", "homepage"})} = {"channels", "homepage"}
    BY Together
  <2> QED BY <2>1
<1>3. AllFit(ConsoleChannels, lists, guarded, "admin.js channels")
  BY ConsoleChannelsFits
<1> HIDE DEF lists
<1> QED BY <1>1, <1>2, <1>3, PageByTable

LEMMA Page_admin_users == PageFits("admin.js users")
<1> DEFINE lists == {"users"}
           guarded == {}
<1>1. PageTable["admin.js users"] = Vanilla({One({"users"})}, {}, Both(ConsoleUsers, ConsoleUserForm), Both(ConsoleUsersControls, ConsoleUserFormControl))
  BY DEF PageTable, PageNames
<1>2. UNION UNION {One({"users"})} = lists /\ "" \notin lists
  <2>1. UNION UNION {One({"users"})} = {"users"}
    BY Together
  <2> QED BY <2>1
<1>3. AllFit(Both(ConsoleUsers, ConsoleUserForm), lists, guarded, "admin.js users")
  BY ConsoleUsersFits, ConsoleUserFormFits, BothFit
<1> HIDE DEF lists
<1> QED BY <1>1, <1>2, <1>3, PageByTable

LEMMA Page_admin_settings == PageFits("admin.js settings")
<1> DEFINE lists == {"settings"}
           guarded == {}
<1>1. PageTable["admin.js settings"] = React({One({"settings"})}, ConsoleSettings, ConsoleSettingsControl)
  BY DEF PageTable, PageNames
<1>2. UNION UNION {One({"settings"})} = lists /\ "" \notin lists
  <2>1. UNION UNION {One({"settings"})} = {"settings"}
    BY Together
  <2> QED BY <2>1
<1>3. AllFit(ConsoleSettings, lists, guarded, "admin.js settings")
  BY ConsoleSettingsFits
<1> HIDE DEF lists
<1> QED BY <1>1, <1>2, <1>3, PageByTable

LEMMA PagesFit == \A name \in PageNames : PageFits(name)
BY Page_StreamerPage, Page_AdminUsersPage, Page_AdminUserEditPage,
   Page_AdminRelaysPage, Page_AdminStreamsPage, Page_AdminChannelsPage,
   Page_ChannelsPage, Page_AdminGamesPage, Page_AdminSettingsPage,
   Page_ChannelEditPage, Page_AdminChannelEditPage, Page_ChannelCompositionSection,
   Page_streamer_streams, Page_streamer_restream, Page_channels,
   Page_admin_streams, Page_admin_restream, Page_admin_composition,
   Page_admin_channels, Page_admin_users, Page_admin_settings DEF PageNames


-----------------------------------------------------------------------------
(* The steps.  A page stays the page it is, so its tables do not change.   *)

LEMMA Unmoved ==
    ASSUME page' = page
    PROVE  Here' = Here /\ Lists' = Lists /\ Ops' = Ops
BY DEF Here, Lists, Ops

LEMMA OpsFit ==
    ASSUME page \in PageNames
    PROVE  "" \notin Lists /\ \A op \in Ops : Fits(op, Lists, Here.guarded, page)
<1>1. PageFits(page)
  BY PagesFit
<1>2. Lists = PageLists(page)
  BY DEF Lists, PageLists, Here
<1>3. "" \notin Lists /\ AllFit(Here.ops, Lists, Here.guarded, page)
  BY <1>1, <1>2 DEF PageFits, Here
<1> QED BY <1>3 DEF Ops, AllFit

LEMMA ForgetsNothing ==
    Forgets.changes = {} /\ Forgets.whole = "" /\ Forgets.then = "nothing" /\ Forgets.loads = <<>>
BY DEF Forgets, Plain

\* What a list holds, or what is known of it, when b edits are begun and c are made.
Known(b, c) == [edits : SUBSET (1..b), at : 0..c]
HeardBy(b, c) == UNION {[lists -> Known(b, c)] : lists \in SUBSET Lists}
TaskAt(b, c) ==
    [op : Ops \cup {Forgets}, stage : {"free", "sent", "answered", "loading"},
     edit : 0..b, base : SUBSET (1..b), at : 0..c, detached : BOOLEAN,
     loads : Seq(SUBSET SUBSET Lists), got : HeardBy(b, c)]
Why == [missed : SUBSET Lists, crossed : SUBSET Lists, raced : SUBSET Lists]

LEMMA HeardIs ==
    ASSUME NEW b, NEW c, NEW g
    PROVE  /\ g \in HeardBy(b, c) => DOMAIN g \subseteq Lists /\ \A l \in DOMAIN g : g[l] \in Known(b, c)
           /\ \A lists \in SUBSET Lists : g \in [lists -> Known(b, c)] => g \in HeardBy(b, c)
<1>1. ASSUME g \in HeardBy(b, c) PROVE DOMAIN g \subseteq Lists /\ \A l \in DOMAIN g : g[l] \in Known(b, c)
  <2>1. PICK lists \in SUBSET Lists : g \in [lists -> Known(b, c)]
    BY <1>1 DEF HeardBy
  <2> QED BY <2>1
<1>2. ASSUME NEW lists \in SUBSET Lists, g \in [lists -> Known(b, c)] PROVE g \in HeardBy(b, c)
  BY <1>2 DEF HeardBy
<1> QED BY <1>1, <1>2

LEMMA KnownGrows ==
    ASSUME NEW b \in Nat, NEW c \in Nat, NEW bb \in Nat, NEW cc \in Nat, b <= bb, c <= cc
    PROVE  /\ 1..b \subseteq 1..bb /\ 0..b \subseteq 0..bb /\ 0..c \subseteq 0..cc
           /\ Known(b, c) \subseteq Known(bb, cc)
<1>1. 1..b \subseteq 1..bb /\ 0..b \subseteq 0..bb /\ 0..c \subseteq 0..cc
  OBVIOUS
<1>2. Known(b, c) \subseteq Known(bb, cc)
  BY <1>1 DEF Known
<1> QED BY <1>1, <1>2

LEMMA TaskGrows ==
    ASSUME NEW b \in Nat, NEW c \in Nat, NEW bb \in Nat, NEW cc \in Nat, b <= bb, c <= cc, NEW t \in TaskAt(b, c)
    PROVE  t \in TaskAt(bb, cc)
<1>1. PICK lists \in SUBSET Lists : t.got \in [lists -> Known(b, c)]
  BY DEF TaskAt, HeardBy
<1>2. t.got \in [lists -> Known(bb, cc)]
  BY <1>1, KnownGrows
<1>3. t.got \in HeardBy(bb, cc)
  BY <1>2, HeardIs
<1>4. t.edit \in 0..bb /\ t.base \in SUBSET (1..bb) /\ t.at \in 0..cc
  BY KnownGrows DEF TaskAt
<1> QED BY <1>3, <1>4 DEF TaskAt

LEMMA Loads ==
    ASSUME NEW b \in Nat, NEW c \in Nat, NEW loads \in Seq(SUBSET SUBSET Lists)
    PROVE  /\ LoadTask(loads) \in TaskAt(b, c) /\ NoTask \in TaskAt(b, c) /\ After(loads) \in TaskAt(b, c)
           /\ NoAnswer \in HeardBy(b, c) /\ DOMAIN NoAnswer = {}
<1>1. DOMAIN NoAnswer = {} /\ NoAnswer \in [{} -> Known(b, c)]
  BY DEF NoAnswer
<1>2. NoAnswer \in HeardBy(b, c)
  BY <1>1, HeardIs
<1>3. ASSUME NEW s \in Seq(SUBSET SUBSET Lists) PROVE LoadTask(s) \in TaskAt(b, c)
  BY <1>2 DEF LoadTask, TaskAt
<1>4. LoadTask(<<>>) \in TaskAt(b, c)
  BY <1>3, NoLoad
<1>5. NoTask \in TaskAt(b, c)
  BY <1>4 DEF NoTask, TaskAt
<1> QED BY <1>1, <1>2, <1>3, <1>5 DEF After

LEMMA LoadTasks ==
    ASSUME NEW loads
    PROVE  /\ LoadTask(loads).stage = "loading" /\ LoadTask(loads).loads = loads /\ LoadTask(loads).got = NoAnswer
           /\ LoadTask(loads).op = Forgets
           /\ NoTask.stage = "free" /\ NoTask.got = NoAnswer /\ NoTask.op = Forgets
           /\ DOMAIN NoAnswer = {}
BY DEF LoadTask, NoTask, NoAnswer

\* The type invariant, by what a step sets.
LEMMA TypeStep ==
    ASSUME PagesTypeOK, page' = page, left' \in BOOLEAN, focused' \in BOOLEAN,
           begun' \in 0..MaxEdits, clock' \in 0..begun', task' \in [Tasks -> TaskAt(begun', clock')],
           truth' \in [Lists -> SUBSET (1..begun')], shown' \in [Lists -> Known(begun', clock')],
           drawn' \subseteq Lists, did' \subseteq Lists \X (1..begun'), stale' \in Why
    PROVE  PagesTypeOK'
BY Unmoved DEF PagesTypeOK, Heard, Known, HeardBy, TaskAt, Why

LEMMA Types ==
    ASSUME PagesTypeOK
    PROVE  /\ begun \in Nat /\ clock \in Nat /\ clock <= begun /\ begun <= MaxEdits
           /\ page \in PageNames /\ task \in [Tasks -> TaskAt(begun, clock)]
           /\ truth \in [Lists -> SUBSET (1..begun)] /\ shown \in [Lists -> Known(begun, clock)]
           /\ did \subseteq Lists \X (1..begun) /\ stale \in Why /\ drawn \subseteq Lists
           /\ left \in BOOLEAN /\ focused \in BOOLEAN /\ MaxEdits \in Nat
<1>1. begun \in Nat /\ clock \in Nat /\ clock <= begun /\ begun <= MaxEdits /\ MaxEdits \in Nat
  BY EditsAreCounted DEF PagesTypeOK
<1>2. task \in [Tasks -> TaskAt(begun, clock)] /\ stale \in Why
  BY DEF PagesTypeOK, Heard, Known, HeardBy, TaskAt, Why
<1> QED BY <1>1, <1>2 DEF PagesTypeOK, Known

LEMMA OpensAreLists == \A load \in Here.opens : load \in SUBSET SUBSET Lists /\ <<load>> \in Seq(SUBSET SUBSET Lists)
<1>1. \A load \in Here.opens : load \in SUBSET SUBSET Lists
  BY DEF Lists
<1> QED BY <1>1, OneLoad

LEMMA NextIsFree ==
    ASSUME Free # {}
    PROVE  NextFree \in Tasks /\ task[NextFree].stage = "free"
BY DEF Free, NextFree

\* One handler moves on, and the others are as they were.
Moves(i, t) == task' = [task EXCEPT ![i] = t]

LEMMA MovesTyped ==
    ASSUME NEW b \in Nat, NEW c \in Nat, task \in [Tasks -> TaskAt(begun, clock)], begun \in Nat, clock \in Nat,
           begun <= b, clock <= c, NEW i \in Tasks, NEW t \in TaskAt(b, c), Moves(i, t)
    PROVE  /\ task' \in [Tasks -> TaskAt(b, c)] /\ task'[i] = t
           /\ \A j \in Tasks : j # i => task'[j] = task[j]
<1>1. \A j \in Tasks : task[j] \in TaskAt(b, c)
  BY TaskGrows
<1> QED BY <1>1 DEF Moves

LEMMA LoadTyped ==
    ASSUME PagesTypeOK, NEW i \in Tasks, NEW load \in Here.opens, Load(i, load)
    PROVE  PagesTypeOK'
<1>1. LoadTask(<<load>>) \in TaskAt(begun, clock)
  BY OpensAreLists, Loads, Types
<1>2. Moves(i, LoadTask(<<load>>))
  BY DEF Load, Moves
<1>3. task' \in [Tasks -> TaskAt(begun, clock)]
  BY <1>1, <1>2, Types, MovesTyped
<1> QED BY <1>3, Types, TypeStep DEF Load

\* What the handler of a control starts with.
Begun(name) ==
    LET op == Here.ops[name]
    IN  [op |-> op, stage |-> "sent", edit |-> begun', at |-> 0, detached |-> FALSE,
         base |-> IF op.whole = "" THEN {} ELSE shown[op.whole].edits,
         loads |-> op.loads, got |-> NoAnswer]

LEMMA SentTyped ==
    ASSUME NEW b \in Nat, NEW c \in Nat, NEW op \in Ops, NEW base \in SUBSET (1..b),
           NEW loads \in Seq(SUBSET SUBSET Lists), NEW got \in HeardBy(b, c)
    PROVE  [op |-> op, stage |-> "sent", edit |-> b, at |-> 0, detached |-> FALSE,
            base |-> base, loads |-> loads, got |-> got] \in TaskAt(b, c)
BY DEF TaskAt

LEMMA OpIsOp == \A name \in DOMAIN Here.ops : Here.ops[name] \in Ops
BY DEF Ops

LEMMA BeginTyped ==
    ASSUME PagesTypeOK, NEW i \in Tasks, NEW name \in DOMAIN Here.ops, Begin(i, name)
    PROVE  PagesTypeOK' /\ Moves(i, Begun(name)) /\ Begun(name) \in TaskAt(begun', clock')
<1> DEFINE op == Here.ops[name]
           base == IF op.whole = "" THEN {} ELSE shown[op.whole].edits
<1>0. begun' = begun + 1 /\ clock' = clock /\ begun < MaxEdits
  BY DEF Begin
<1>1. begun' \in Nat /\ clock' \in Nat /\ begun <= begun' /\ clock <= clock' /\ begun' \in 0..MaxEdits /\ clock' \in 0..begun'
  BY <1>0, Types
<1>2. op \in Ops /\ Fits(op, Lists, Here.guarded, page)
  BY OpIsOp, OpsFit, Types
<1>3. op.loads \in Seq(SUBSET SUBSET Lists) /\ op.whole \in Lists \cup {""}
  BY <1>2 DEF Fits
<1>4. base \in SUBSET (1..begun')
  <2>1. CASE op.whole = ""
    BY <2>1
  <2>2. CASE op.whole # ""
    <3>1. shown[op.whole] \in Known(begun, clock)
      BY <2>2, <1>3, Types
    <3>2. shown[op.whole].edits \in SUBSET (1..begun)
      BY <3>1 DEF Known
    <3>3. 1..begun \subseteq 1..begun'
      BY <1>1, Types, KnownGrows
    <3> QED BY <2>2, <3>2, <3>3
  <2> QED BY <2>1, <2>2
<1>5. NoAnswer \in HeardBy(begun', clock')
  BY <1>1, NoLoad, Loads
<1>6. Begun(name) \in TaskAt(begun', clock')
  <2> HIDE DEF op, base
  <2>1. Begun(name) = [op |-> op, stage |-> "sent", edit |-> begun', at |-> 0, detached |-> FALSE,
                       base |-> base, loads |-> op.loads, got |-> NoAnswer]
    BY DEF Begun, op, base
  <2> QED BY <2>1, <1>1, <1>2, <1>3, <1>4, <1>5, SentTyped
<1>7. Moves(i, Begun(name))
  BY DEF Begin, Moves, Begun
<1>8. task' \in [Tasks -> TaskAt(begun', clock')]
  BY <1>1, <1>6, <1>7, Types, MovesTyped
<1>9. 1..begun \subseteq 1..begun' /\ Known(begun, clock) \subseteq Known(begun', clock')
  BY <1>1, Types, KnownGrows
<1>10. truth' \in [Lists -> SUBSET (1..begun')] /\ shown' \in [Lists -> Known(begun', clock')] /\ did' \subseteq Lists \X (1..begun')
  <2>1. truth' = truth /\ shown' = shown /\ did' = did
    BY DEF Begin
  <2> QED BY <2>1, <1>9, Types
<1>11. left' \in BOOLEAN /\ drawn' \subseteq Lists /\ stale' \in Why /\ page' = page
  BY Types DEF Begin
<1>12. focused' \in BOOLEAN
  BY DEF Begin
<1>13. PagesTypeOK'
  BY <1>1, <1>8, <1>10, <1>11, <1>12, TypeStep
<1> QED BY <1>6, <1>7, <1>13

\* The handler whose change is made.
Replied(t, now, got) == [t EXCEPT !.stage = "answered", !.at = now, !.got = got]
Served(t) == Replied(t, clock', IF t.op.then = "take" THEN At(clock', truth', UNION Head(t.op.loads)) ELSE NoAnswer)

LEMMA AnsweredTyped ==
    ASSUME NEW b, NEW c, NEW t \in TaskAt(b, c), NEW now \in 0..c, NEW got \in HeardBy(b, c)
    PROVE  LET tt == Replied(t, now, got) IN
           /\ tt \in TaskAt(b, c)
           /\ tt.stage = "answered" /\ tt.at = now /\ tt.got = got /\ tt.op = t.op /\ tt.loads = t.loads
           /\ tt.edit = t.edit /\ tt.base = t.base
<1> DEFINE tt == Replied(t, now, got)
<1>1. /\ tt.stage = "answered" /\ tt.at = now /\ tt.got = got /\ tt.op = t.op /\ tt.loads = t.loads
      /\ tt.edit = t.edit /\ tt.base = t.base
  BY DEF TaskAt, Replied
<1>2. tt \in TaskAt(b, c)
  BY DEF TaskAt, Replied
<1> QED BY <1>1, <1>2

LEMMA AtTyped ==
    ASSUME NEW b \in Nat, NEW c \in Nat, NEW now \in 0..c, NEW lists \in SUBSET Lists, NEW edits \in [Lists -> SUBSET (1..b)]
    PROVE  /\ At(now, edits, lists) \in HeardBy(b, c) /\ DOMAIN At(now, edits, lists) = lists
           /\ \A l \in lists : At(now, edits, lists)[l].edits = edits[l] /\ At(now, edits, lists)[l].at = now
<1>1. At(now, edits, lists) \in [lists -> Known(b, c)] /\ DOMAIN At(now, edits, lists) = lists
  BY DEF At, Known
<1>2. \A l \in lists : At(now, edits, lists)[l].edits = edits[l] /\ At(now, edits, lists)[l].at = now
  BY DEF At
<1> QED BY <1>1, <1>2, HeardIs

LEMMA ServeMoves ==
    ASSUME PagesTypeOK, NEW i \in Tasks, Serve(i)
    PROVE  /\ task[i].stage = "sent" /\ task[i].op \in Ops \cup {Forgets} /\ Moves(i, Served(task[i]))
           /\ page' = page /\ left' = left /\ shown' = shown /\ drawn' = drawn /\ focused' = focused /\ did' = did /\ begun' = begun
           /\ clock' = clock + 1
<1>1. task[i] \in TaskAt(begun, clock)
  BY Types
<1>2. Moves(i, Served(task[i]))
  BY <1>1 DEF Serve, Moves, Served, Replied, TaskAt
<1> QED BY <1>1, <1>2 DEF Serve, TaskAt

LEMMA ServeTyped ==
    ASSUME PagesTypeOK, EditsServed, \A j \in Tasks : InHand(task[j]), NEW i \in Tasks, Serve(i)
    PROVE  /\ PagesTypeOK' /\ Served(task[i]) \in TaskAt(begun, clock')
           /\ task[i].op \in Ops /\ task[i].loads = task[i].op.loads /\ task[i].edit \in 1..begun
<1> DEFINE t == task[i]
<1>1. t \in TaskAt(begun, clock) /\ t.op \in Ops /\ t.loads = t.op.loads /\ t.edit > 0
  BY Types, ServeMoves DEF InHand
<1>2. t.edit \in 1..begun /\ t.base \in SUBSET (1..begun)
  BY <1>1, Types DEF TaskAt
<1>3. clock' = clock + 1 /\ begun' = begun /\ clock' \in Nat /\ clock' <= begun
  <2>1. i \in Sent /\ IsFiniteSet(Sent) /\ Sent # {}
    <3>1. i \in Sent /\ Sent \subseteq Tasks
      BY ServeMoves DEF Sent
    <3> QED BY <3>1, TasksAreFinite, FS_Subset
  <2>2. Cardinality(Sent) \in Nat /\ Cardinality(Sent) # 0
    BY <2>1, FS_CardinalityType, FS_EmptySet
  <2>3. clock + Cardinality(Sent) <= begun
    BY DEF EditsServed
  <2> QED BY <2>2, <2>3, Types, ServeMoves
<1>4. Fits(t.op, Lists, Here.guarded, page)
  BY <1>1, OpsFit, Types
<1>5. truth' \in [Lists -> SUBSET (1..begun)]
  <2>1. \A l \in Lists : truth[l] \in SUBSET (1..begun)
    BY Types
  <2>2. truth' = [l \in Lists |-> (IF l = t.op.whole THEN t.base ELSE truth[l])
                                     \cup (IF l \in t.op.changes THEN {t.edit} ELSE {})]
    BY DEF Serve
  <2> HIDE DEF t
  <2> QED BY <2>1, <2>2, <1>2
<1>6. t.op.then = "take" => UNION Head(t.op.loads) \in SUBSET Lists
  <2> HAVE t.op.then = "take"
  <2>1. t.op.loads # <<>> /\ t.op.loads \in Seq(SUBSET SUBSET Lists)
    BY <1>4 DEF Fits
  <2>2. Head(t.op.loads) \in SUBSET SUBSET Lists
    BY <2>1
  <2> QED BY <2>2
<1>7. Served(t).got \in HeardBy(begun, clock') /\ Served(t) \in TaskAt(begun, clock')
  <2> DEFINE got == IF t.op.then = "take" THEN At(clock', truth', UNION Head(t.op.loads)) ELSE NoAnswer
  <2>1. got \in HeardBy(begun, clock')
    <3>1. clock' \in 0..clock'
      BY <1>3
    <3>2. CASE t.op.then = "take"
      BY <3>1, <3>2, <1>3, <1>5, <1>6, AtTyped, Types
    <3>3. CASE t.op.then # "take"
      BY <3>3, <1>3, NoLoad, Loads, Types
    <3> QED BY <3>2, <3>3
  <2>2. t \in TaskAt(begun, clock')
    BY <1>1, <1>3, Types, TaskGrows
  <2>3. Served(t) = Replied(t, clock', got)
    BY DEF Served
  <2> HIDE DEF got, t
  <2>4. clock' \in 0..clock'
    BY <1>3
  <2> QED BY <2>1, <2>2, <2>3, <2>4, AnsweredTyped
<1>8. task' \in [Tasks -> TaskAt(begun, clock')]
  BY <1>3, <1>7, ServeMoves, MovesTyped, Types
<1>9. shown' \in [Lists -> Known(begun, clock')]
  BY <1>3, ServeMoves, KnownGrows, Types
<1>10. stale' \in Why
  <2>1. t.op.whole \in Lists \cup {""} /\ stale \in Why
    BY <1>4, Types DEF Fits
  <2>2. CASE t.op.whole # "" /\ ~(truth[t.op.whole] \subseteq t.base)
    <3>1. stale' = [stale EXCEPT !.raced = @ \cup {t.op.whole}]
      BY <2>2 DEF Serve
    <3> QED BY <3>1, <2>1, <2>2 DEF Why
  <2>3. CASE ~(t.op.whole # "" /\ ~(truth[t.op.whole] \subseteq t.base))
    BY <2>1, <2>3 DEF Serve
  <2> QED BY <2>2, <2>3
<1>11. PagesTypeOK'
  <2>1. begun' \in 0..MaxEdits /\ clock' \in 0..begun'
    BY <1>3, Types
  <2> QED BY <2>1, <1>3, <1>5, <1>8, <1>9, <1>10, ServeMoves, TypeStep, Types
<1> QED BY <1>1, <1>2, <1>7, <1>11

LEMMA LaterIs == ASSUME NEW c \in Nat, NEW m \in 0..c, NEW n \in 0..c
                 PROVE  Later(m, n) \in 0..c /\ Later(m, n) >= m /\ Later(m, n) >= n
BY DEF Later

\* The handler is done, or goes on to load these.
GoesOn(t, tt) ==
    \/ t.loads = <<>> /\ tt = NoTask
    \/ t.loads # <<>> /\ tt.stage = "loading" /\ tt.loads = t.loads /\ tt.got = NoAnswer

LEMMA AfterGoesOn ==
    ASSUME NEW t
    PROVE  GoesOn(t, After(t.loads))
BY LoadTasks DEF GoesOn, After

LEMMA RefusedTyped ==
    ASSUME PagesTypeOK, NEW i \in Tasks, Refused(i)
    PROVE  /\ PagesTypeOK' /\ task[i].stage \in {"sent", "answered"} /\ task'[i] \in TaskAt(begun, clock)
           /\ task'[i] = NoTask \/ GoesOn(task[i], task'[i])
           /\ \A j \in Tasks : j # i => task'[j] = task[j]
<1> DEFINE t == task[i]
           tt == IF t.op.then = "always" THEN After(t.loads) ELSE NoTask
<1>1. t \in TaskAt(begun, clock) /\ t.loads \in Seq(SUBSET SUBSET Lists)
  BY Types DEF TaskAt
<1>2. tt \in TaskAt(begun, clock)
  BY <1>1, Loads, Types
<1>3. Moves(i, tt)
  BY Types DEF Refused, Moves
<1> HIDE DEF tt
<1>4. task' \in [Tasks -> TaskAt(begun, clock)] /\ task'[i] = tt /\ \A j \in Tasks : j # i => task'[j] = task[j]
  BY <1>2, <1>3, Types, MovesTyped
<1>5. tt = NoTask \/ GoesOn(t, tt)
  BY AfterGoesOn DEF tt
<1>6. PagesTypeOK'
  BY <1>4, Types, TypeStep DEF Refused
<1>7. t.stage \in {"sent", "answered"}
  BY DEF Refused
<1> QED BY <1>2, <1>4, <1>5, <1>6, <1>7

\* What an answered handler was told.
LEMMA ToldIs ==
    ASSUME PagesTypeOK, \A j \in Tasks : InHand(task[j]), NEW i \in Tasks, Told(i)
    PROVE  LET t == task[i] IN
           /\ t \in TaskAt(begun, clock) /\ t.stage = "answered" /\ t.op \in Ops /\ Fits(t.op, Lists, Here.guarded, page)
           /\ t.loads = t.op.loads /\ t.loads \in Seq(SUBSET SUBSET Lists)
           /\ t.op.changes \subseteq Lists /\ t.edit \in 1..begun /\ t.at \in 0..clock
           /\ t.got \in HeardBy(begun, clock)
           /\ did' = did \cup (t.op.changes \X {t.edit}) /\ did' \subseteq Lists \X (1..begun)
<1> DEFINE t == task[i]
<1>1. t \in TaskAt(begun, clock) /\ t.stage = "answered" /\ InHand(t)
  BY Types DEF Told
<1>2. t.op \in Ops /\ t.loads = t.op.loads /\ t.edit > 0
  BY <1>1 DEF InHand
<1>3. Fits(t.op, Lists, Here.guarded, page)
  BY <1>2, OpsFit, Types
<1>4. t.op.changes \subseteq Lists /\ t.loads \in Seq(SUBSET SUBSET Lists)
  BY <1>2, <1>3 DEF Fits
<1>5. t.edit \in 1..begun /\ t.at \in 0..clock /\ t.got \in HeardBy(begun, clock)
  BY <1>1, <1>2, Types DEF TaskAt
<1>6. did' = did \cup (t.op.changes \X {t.edit})
  BY DEF Told
<1>7. did' \subseteq Lists \X (1..begun)
  BY <1>4, <1>5, <1>6, Types
<1> QED BY <1>1, <1>2, <1>3, <1>4, <1>5, <1>6, <1>7

LEMMA KnowsIs ==
    ASSUME PagesTypeOK, NEW i \in Tasks
    PROVE  /\ Knows(i) \in [Lists -> Known(begun, clock)]
           /\ \A l \in Lists : /\ Knows(i)[l].edits = shown[l].edits /\ Knows(i)[l].at >= shown[l].at
                               /\ l \in task[i].op.changes => Knows(i)[l].at >= task[i].at
                               /\ l \notin task[i].op.changes => Knows(i)[l] = shown[l]
<1> DEFINE k(l) == IF l \in task[i].op.changes THEN [shown[l] EXCEPT !.at = Later(@, task[i].at)] ELSE shown[l]
<1>1. ASSUME NEW l \in Lists
      PROVE  /\ k(l) \in Known(begun, clock)
             /\ k(l).edits = shown[l].edits /\ k(l).at >= shown[l].at
             /\ l \in task[i].op.changes => k(l).at >= task[i].at
             /\ l \notin task[i].op.changes => k(l) = shown[l]
  <2>1. shown[l] \in Known(begun, clock) /\ task[i].at \in 0..clock
    BY Types DEF TaskAt
  <2>2. Later(shown[l].at, task[i].at) \in 0..clock
        /\ Later(shown[l].at, task[i].at) >= shown[l].at /\ Later(shown[l].at, task[i].at) >= task[i].at
    BY <2>1, LaterIs, Types DEF Known
  <2>3. ASSUME NEW r, r = [shown[l] EXCEPT !.at = Later(shown[l].at, task[i].at)]
        PROVE  /\ r \in Known(begun, clock) /\ r.edits = shown[l].edits
               /\ r.at = Later(shown[l].at, task[i].at)
    BY <2>1, <2>2, <2>3 DEF Known
  <2>4. CASE l \in task[i].op.changes
    BY <2>2, <2>3, <2>4
  <2>5. CASE l \notin task[i].op.changes
    BY <2>1, <2>5, Types DEF Known
  <2> QED BY <2>4, <2>5
<1>2. Knows(i) = [l \in Lists |-> k(l)]
  BY DEF Knows
<1> HIDE DEF k
<1> QED BY <1>1, <1>2

LEMMA GoesTyped ==
    ASSUME PagesTypeOK, \A j \in Tasks : InHand(task[j]), NEW i \in Tasks, Goes(i)
    PROVE  /\ PagesTypeOK' /\ task'[i] \in TaskAt(begun, clock) /\ GoesOn(task[i], task'[i])
           /\ \A j \in Tasks : j # i => task'[j] = task[j]
<1> DEFINE t == task[i]
           w == [t EXCEPT !.stage = "loading", !.got = NoAnswer]
           tt == IF t.op.awaits /\ t.loads # <<>> THEN w ELSE After(t.loads)
<1>1. t \in TaskAt(begun, clock) /\ t.loads \in Seq(SUBSET SUBSET Lists)
  BY Types DEF TaskAt
<1>2. After(t.loads) \in TaskAt(begun, clock) /\ NoAnswer \in HeardBy(begun, clock)
  BY <1>1, Loads, Types
<1>3. w \in TaskAt(begun, clock) /\ w.stage = "loading" /\ w.loads = t.loads /\ w.got = NoAnswer
  BY <1>1, <1>2 DEF TaskAt
<1>4. Moves(i, tt)
  BY Types DEF Goes, Moves
<1> HIDE DEF w
<1>5. tt \in TaskAt(begun, clock) /\ GoesOn(t, tt)
  BY <1>2, <1>3, AfterGoesOn DEF GoesOn
<1> HIDE DEF tt
<1>6. task' \in [Tasks -> TaskAt(begun, clock)] /\ task'[i] = tt /\ \A j \in Tasks : j # i => task'[j] = task[j]
  BY <1>4, <1>5, Types, MovesTyped
<1>7. shown' \in [Lists -> Known(begun, clock)]
  BY KnowsIs DEF Goes
<1>8. did' \subseteq Lists \X (1..begun)
  BY ToldIs DEF Goes
<1>9. PagesTypeOK'
  BY <1>6, <1>7, <1>8, Types, TypeStep DEF Goes
<1> QED BY <1>5, <1>6, <1>9

\* What is heard is shown, or is missed; and the rest is as it was.
LEMMA ShowIs ==
    ASSUME PagesTypeOK, NEW got \in HeardBy(begun, clock), Show(got)
    PROVE  /\ shown' \in [Lists -> Known(begun, clock)] /\ drawn' \subseteq Lists /\ stale' \in Why
           /\ stale'.raced = stale.raced
           /\ \A l \in Lists : shown'[l].at >= shown[l].at
           /\ \A l \in Lists : l \notin DOMAIN got =>
                 /\ shown'[l] = shown[l]
                 /\ l \in stale.missed => l \in stale'.missed
                 /\ l \in stale.crossed => l \in stale'.crossed
           /\ \A l \in DOMAIN got : focused /\ l \in Here.guarded => l \in stale'.missed
           /\ \A l \in DOMAIN got : ~(focused /\ l \in Here.guarded) =>
                 /\ shown'[l].edits = got[l].edits /\ shown'[l].at >= got[l].at
                 /\ got[l].at < shown[l].at => l \in stale'.crossed
<1> DEFINE seen == {l \in DOMAIN got : ~(focused /\ l \in Here.guarded)}
           r(l) == [edits |-> got[l].edits, at |-> Later(shown[l].at, got[l].at)]
           missed == (stale.missed \ seen) \cup (DOMAIN got \ seen)
           crossed == (stale.crossed \ seen) \cup {l \in seen : got[l].at < shown[l].at}
<1>1. DOMAIN got \subseteq Lists /\ \A l \in DOMAIN got : got[l] \in Known(begun, clock)
  BY HeardIs
<1>2. ASSUME NEW l \in DOMAIN got
      PROVE  /\ r(l) \in Known(begun, clock) /\ r(l).edits = got[l].edits
             /\ r(l).at >= shown[l].at /\ r(l).at >= got[l].at
  <2>1. shown[l] \in Known(begun, clock) /\ got[l] \in Known(begun, clock)
    BY <1>1, Types
  <2> QED BY <2>1, LaterIs, Types DEF Known
<1>3. shown' = [l \in Lists |-> IF l \in seen THEN r(l) ELSE shown[l]]
  BY DEF Show
<1>4. drawn' = drawn \cup seen /\ seen \subseteq DOMAIN got
  BY DEF Show
<1>5. stale' = [stale EXCEPT !.missed = missed, !.crossed = crossed]
  BY DEF Show
<1>6. missed \subseteq Lists /\ crossed \subseteq Lists
  BY <1>1, Types DEF Why
<1>7. stale' \in Why /\ stale'.missed = missed /\ stale'.crossed = crossed /\ stale'.raced = stale.raced
  <2> HIDE DEF missed, crossed
  <2> QED BY <1>5, <1>6, Types DEF Why
<1> HIDE DEF r
<1>8. \A l \in Lists : l \notin DOMAIN got =>
         /\ shown'[l] = shown[l]
         /\ l \in stale.missed => l \in stale'.missed
         /\ l \in stale.crossed => l \in stale'.crossed
  BY <1>3, <1>7
<1>9. \A l \in DOMAIN got : ~(focused /\ l \in Here.guarded) =>
         /\ shown'[l].edits = got[l].edits /\ shown'[l].at >= got[l].at
         /\ got[l].at < shown[l].at => l \in stale'.crossed
  BY <1>1, <1>2, <1>3, <1>7
<1>10. \A l \in Lists : shown'[l].at >= shown[l].at
  BY <1>2, <1>3, Types DEF Known
<1>11. shown' \in [Lists -> Known(begun, clock)]
  BY <1>2, <1>3, Types
<1>12. \A l \in DOMAIN got : focused /\ l \in Here.guarded => l \in stale'.missed
  BY <1>7
<1> QED BY <1>1, <1>4, <1>7, <1>8, <1>9, <1>10, <1>11, <1>12, Types

\* The handler is done.
LEMMA Ends ==
    ASSUME PagesTypeOK, NEW i \in Tasks, task' = [task EXCEPT ![i] = NoTask]
    PROVE  /\ task' \in [Tasks -> TaskAt(begun, clock)] /\ task'[i] = NoTask
           /\ \A j \in Tasks : j # i => task'[j] = task[j]
BY Loads, NoLoad, Types, MovesTyped DEF Moves

LEMMA ReplacesTyped ==
    ASSUME PagesTypeOK, \A j \in Tasks : InHand(task[j]), NEW i \in Tasks, Replaces(i)
    PROVE  /\ PagesTypeOK' /\ task'[i] = NoTask
           /\ \A j \in Tasks : j # i => task'[j] = task[j]
<1>1. task' \in [Tasks -> TaskAt(begun, clock)] /\ task'[i] = NoTask /\ \A j \in Tasks : j # i => task'[j] = task[j]
  BY Ends DEF Replaces
<1>2. did' \subseteq Lists \X (1..begun) /\ task[i].got \in HeardBy(begun, clock)
  BY ToldIs DEF Replaces
<1>3. shown' \in [Lists -> Known(begun, clock)] /\ drawn' \subseteq Lists /\ stale' \in Why
  BY <1>2, ShowIs DEF Replaces
<1>4. PagesTypeOK'
  BY <1>1, <1>2, <1>3, Types, TypeStep DEF Replaces
<1> QED BY <1>1, <1>4

LEMMA KeepsIs ==
    ASSUME PagesTypeOK, \A j \in Tasks : InHand(task[j]), NEW i \in Tasks, Keeps(i)
    PROVE  /\ shown' \in [Lists -> Known(begun, clock)] /\ stale' \in Why
           /\ stale'.raced = stale.raced /\ stale'.missed = stale.missed /\ stale.crossed \subseteq stale'.crossed
           /\ \A l \in Lists : shown'[l].at >= shown[l].at /\ shown[l].edits \subseteq shown'[l].edits
           /\ \A l \in task[i].op.changes : /\ shown'[l].at >= task[i].at
                                            /\ task[i].edit \in shown'[l].edits \/ l \in stale'.crossed
<1> DEFINE t == task[i]
<1>1. t.op.changes \subseteq Lists /\ t.edit \in 1..begun
  BY ToldIs DEF Keeps
<1>2. CASE t.detached
  <2>1. shown' = Knows(i) /\ stale' = [stale EXCEPT !.crossed = @ \cup t.op.changes]
    BY <1>2 DEF Keeps
  <2>2. stale' \in Why /\ stale'.raced = stale.raced /\ stale'.missed = stale.missed /\ stale'.crossed = stale.crossed \cup t.op.changes
    BY <1>1, <2>1, Types DEF Why
  <2> QED BY <1>1, <2>1, <2>2, KnowsIs
<1>3. CASE ~t.detached
  <2> DEFINE with(k, e) == [k EXCEPT !.edits = @ \cup {e}]
             r(l) == with(Knows(i)[l], t.edit)
  <2>1. shown' = [l \in Lists |-> IF l \in t.op.changes THEN r(l) ELSE shown[l]] /\ stale' = stale
    BY <1>3 DEF Keeps
  <2>2. ASSUME NEW l \in Lists
        PROVE  /\ r(l) \in Known(begun, clock) /\ r(l).edits = shown[l].edits \cup {t.edit} /\ r(l).at >= shown[l].at
               /\ l \in t.op.changes => r(l).at >= t.at
    <3>1. /\ Knows(i)[l] \in Known(begun, clock) /\ Knows(i)[l].edits = shown[l].edits /\ Knows(i)[l].at >= shown[l].at
          /\ l \in t.op.changes => Knows(i)[l].at >= t.at
      BY KnowsIs
    <3>2. ASSUME NEW k \in Known(begun, clock), NEW e \in 1..begun
          PROVE  with(k, e) \in Known(begun, clock) /\ with(k, e).edits = k.edits \cup {e} /\ with(k, e).at = k.at
      BY DEF Known
    <3> HIDE DEF with
    <3>3. r(l) \in Known(begun, clock) /\ r(l).edits = Knows(i)[l].edits \cup {t.edit} /\ r(l).at = Knows(i)[l].at
      BY <3>1, <3>2, <1>1
    <3> HIDE DEF r
    <3> QED BY <3>1, <3>3
  <2> HIDE DEF with, r
  <2>3. shown' \in [Lists -> Known(begun, clock)]
    BY <2>1, <2>2, Types
  <2>4. \A l \in Lists : shown'[l].at >= shown[l].at /\ shown[l].edits \subseteq shown'[l].edits
    BY <2>1, <2>2, Types DEF Known
  <2>5. \A l \in t.op.changes : shown'[l].at >= t.at /\ t.edit \in shown'[l].edits
    BY <1>1, <2>1, <2>2
  <2> QED BY <2>1, <2>3, <2>4, <2>5, Types
<1> QED BY <1>2, <1>3

LEMMA KeepsTyped ==
    ASSUME PagesTypeOK, \A j \in Tasks : InHand(task[j]), NEW i \in Tasks, Keeps(i)
    PROVE  /\ PagesTypeOK' /\ task'[i] = NoTask
           /\ \A j \in Tasks : j # i => task'[j] = task[j]
<1>1. task' \in [Tasks -> TaskAt(begun, clock)] /\ task'[i] = NoTask /\ \A j \in Tasks : j # i => task'[j] = task[j]
  BY Ends DEF Keeps
<1>2. did' \subseteq Lists \X (1..begun)
  BY ToldIs DEF Keeps
<1>3. shown' \in [Lists -> Known(begun, clock)] /\ stale' \in Why
  BY KeepsIs
<1>4. page' = page /\ left' = left /\ truth' = truth /\ clock' = clock /\ drawn' = drawn /\ focused' = focused /\ begun' = begun
  BY DEF Keeps
<1>5. PagesTypeOK'
  BY <1>1, <1>2, <1>3, <1>4, Types, TypeStep
<1> QED BY <1>1, <1>5

LEMMA GoesElsewhereTyped ==
    ASSUME PagesTypeOK, \A j \in Tasks : InHand(task[j]), NEW i \in Tasks, GoesElsewhere(i)
    PROVE  PagesTypeOK' /\ \A j \in Tasks : task'[j] = NoTask
<1>1. NoTask \in TaskAt(begun, clock)
  BY Loads, NoLoad, Types
<1>2. task' \in [Tasks -> TaskAt(begun, clock)] /\ \A j \in Tasks : task'[j] = NoTask
  BY <1>1 DEF GoesElsewhere
<1>3. did' \subseteq Lists \X (1..begun)
  BY ToldIs DEF GoesElsewhere
<1> QED BY <1>2, <1>3, Types, TypeStep DEF GoesElsewhere

\* The answer that came is of now.
LEMMA ReadsTyped ==
    ASSUME PagesTypeOK, \A j \in Tasks : InHand(task[j]), NEW i \in Tasks, NEW lists \in SUBSET Lists, Reads(i, lists)
    PROVE  /\ PagesTypeOK' /\ task[i].stage = "loading" /\ task[i].loads # <<>>
           /\ \A j \in Tasks : j # i => task'[j] = task[j]
           /\ task'[i] \in TaskAt(begun, clock) /\ task'[i].stage = "loading" /\ task'[i].loads = task[i].loads
           /\ DOMAIN task'[i].got = DOMAIN task[i].got \cup lists /\ lists \subseteq UNION Head(task[i].loads)
           /\ \A l \in lists : task'[i].got[l].edits = truth[l] /\ task'[i].got[l].at = clock
           /\ \A l \in DOMAIN task[i].got : l \notin lists => task'[i].got[l] = task[i].got[l]
<1> DEFINE t == task[i]
           got == [l \in DOMAIN t.got \cup lists |-> IF l \in lists THEN At(clock, truth, lists)[l] ELSE t.got[l]]
           tt == [t EXCEPT !.got = got]
<1>1. t \in TaskAt(begun, clock) /\ t.got \in HeardBy(begun, clock)
  BY Types DEF TaskAt
<1>2. /\ \A l \in lists : At(clock, truth, lists)[l].edits = truth[l] /\ At(clock, truth, lists)[l].at = clock
      /\ \A l \in lists : At(clock, truth, lists)[l] \in Known(begun, clock)
  <2>1. At(clock, truth, lists) \in HeardBy(begun, clock) /\ DOMAIN At(clock, truth, lists) = lists
        /\ \A l \in lists : At(clock, truth, lists)[l].edits = truth[l] /\ At(clock, truth, lists)[l].at = clock
    <3>1. clock \in 0..clock
      BY Types
    <3> QED BY <3>1, AtTyped, Types
  <2> QED BY <2>1, HeardIs
<1>3. DOMAIN t.got \subseteq Lists /\ \A l \in DOMAIN t.got : t.got[l] \in Known(begun, clock)
  BY <1>1, HeardIs
<1>4. got \in [DOMAIN t.got \cup lists -> Known(begun, clock)] /\ DOMAIN t.got \cup lists \in SUBSET Lists
  BY <1>2, <1>3
<1>5. got \in HeardBy(begun, clock)
  BY <1>4, HeardIs
<1>6. /\ DOMAIN got = DOMAIN t.got \cup lists
      /\ \A l \in lists : got[l].edits = truth[l] /\ got[l].at = clock
      /\ \A l \in DOMAIN t.got : l \notin lists => got[l] = t.got[l]
  BY <1>2
<1>7. Moves(i, tt)
  BY Types DEF Reads, Moves
<1> HIDE DEF got
<1>8. tt \in TaskAt(begun, clock) /\ tt.got = got /\ tt.stage = t.stage /\ tt.loads = t.loads
  BY <1>1, <1>5 DEF TaskAt
<1> HIDE DEF tt
<1>9. task' \in [Tasks -> TaskAt(begun, clock)] /\ task'[i] = tt /\ \A j \in Tasks : j # i => task'[j] = task[j]
  BY <1>7, <1>8, Types, MovesTyped
<1>10. t.stage = "loading" /\ t.loads # <<>> /\ lists \subseteq UNION Head(t.loads)
  <2>1. t.stage = "loading" /\ lists \in Head(t.loads) /\ InHand(t)
    BY DEF Reads
  <2> QED BY <2>1 DEF InHand
<1>11. PagesTypeOK'
  BY <1>9, Types, TypeStep DEF Reads
<1> QED BY <1>6, <1>8, <1>9, <1>10, <1>11

LEMMA TailIs ==
    ASSUME NEW S, NEW s \in Seq(S), Len(s) >= 1, Len(s) # 1
    PROVE  /\ Tail(s) \in Seq(S) /\ Len(Tail(s)) = Len(s) - 1 /\ Tail(s) # <<>>
           /\ \A k \in 1 .. Len(s) - 1 : Tail(s)[k] = s[k + 1]
<1>1. Tail(s) \in Seq(S) /\ Len(Tail(s)) = Len(s) - 1
  OBVIOUS
<1>2. \A k \in 1 .. Len(s) - 1 : Tail(s)[k] = s[k + 1]
  <2>1. s # <<>>
    BY EmptySeq
  <2> QED BY <1>1, <2>1, HeadTailProperties
<1>3. Tail(s) # <<>>
  <2>1. Len(s) - 1 # 0
    BY LenProperties
  <2>2. Len(<<>>) = 0
    BY EmptySeq
  <2> QED BY <1>1, <2>1, <2>2
<1> QED BY <1>1, <1>2, <1>3

\* What is left of a load.
LEMMA RestIs ==
    ASSUME PagesTypeOK, NEW t \in TaskAt(begun, clock), t.stage = "loading", t.loads # <<>>
    PROVE  /\ Rest(t) \in TaskAt(begun, clock) /\ Head(t.loads) = t.loads[1]
           /\ \/ Rest(t) = NoTask /\ Len(t.loads) = 1
              \/ /\ Rest(t).stage = "loading" /\ Rest(t).loads # <<>> /\ Rest(t).got = NoAnswer
                 /\ Len(Rest(t).loads) = Len(t.loads) - 1 /\ Len(t.loads) \in Nat
                 /\ \A k \in 1 .. Len(t.loads) - 1 : Rest(t).loads[k] = t.loads[k + 1]
<1>1. t.loads \in Seq(SUBSET SUBSET Lists)
  BY DEF TaskAt
<1>2. Head(t.loads) = t.loads[1] /\ Len(t.loads) \in Nat /\ Len(t.loads) >= 1
  BY <1>1
<1>3. NoTask \in TaskAt(begun, clock) /\ NoAnswer \in HeardBy(begun, clock)
  BY Types, NoLoad, Loads
<1>4. CASE Len(t.loads) = 1
  BY <1>2, <1>3, <1>4 DEF Rest
<1>5. CASE Len(t.loads) # 1
  <2> DEFINE tail == Tail(t.loads)
             r == [t EXCEPT !.loads = tail, !.got = NoAnswer]
  <2>1. /\ tail \in Seq(SUBSET SUBSET Lists) /\ Len(tail) = Len(t.loads) - 1 /\ tail # <<>>
        /\ \A k \in 1 .. Len(t.loads) - 1 : tail[k] = t.loads[k + 1]
    BY <1>1, <1>2, <1>5, TailIs
  <2>2. Rest(t) = r
    BY <1>5 DEF Rest
  <2> HIDE DEF tail
  <2>3. r \in TaskAt(begun, clock) /\ r.stage = "loading" /\ r.loads = tail /\ r.got = NoAnswer
    BY <1>3, <2>1 DEF TaskAt
  <2> HIDE DEF r
  <2> QED BY <1>2, <2>1, <2>2, <2>3
<1> QED BY <1>4, <1>5

\* But for the row it was typed into.
Alike(t, tt) ==
    /\ tt.stage = t.stage /\ tt.op = t.op /\ tt.edit = t.edit /\ tt.base = t.base /\ tt.at = t.at
    /\ tt.loads = t.loads /\ tt.got = t.got

LEMMA LoadArrivesTyped ==
    ASSUME PagesTypeOK, \A j \in Tasks : InHand(task[j]), NEW i \in Tasks, LoadArrives(i)
    PROVE  /\ PagesTypeOK' /\ task[i] \in TaskAt(begun, clock) /\ task[i].stage = "loading" /\ task[i].loads # <<>>
           /\ task'[i] = Rest(task[i])
           /\ \A j \in Tasks : j # i => Alike(task[j], task'[j])
<1>1. task[i] \in TaskAt(begun, clock) /\ task[i].stage = "loading" /\ task[i].loads # <<>>
  BY Types DEF LoadArrives, InHand
<1>2. Rest(task[i]) \in TaskAt(begun, clock)
  BY <1>1, RestIs
<1> DEFINE others == [task EXCEPT ![i] = Rest(@)]
           loose(t) == [t EXCEPT !.detached = TRUE]
<1>3. others \in [Tasks -> TaskAt(begun, clock)] /\ others[i] = Rest(task[i]) /\ \A j \in Tasks : j # i => others[j] = task[j]
  BY <1>2, Types
<1>4. ASSUME NEW t \in TaskAt(begun, clock)
      PROVE  loose(t) \in TaskAt(begun, clock) /\ Alike(t, loose(t))
  BY DEF TaskAt, Alike
<1>5. task' = [j \in Tasks |-> IF j # i /\ others[j].op.then = "keep" THEN loose(others[j]) ELSE others[j]]
  BY DEF LoadArrives, Detached
<1> HIDE DEF others, loose
<1>6. task' \in [Tasks -> TaskAt(begun, clock)] /\ task'[i] = Rest(task[i])
  BY <1>3, <1>4, <1>5
<1>7. ASSUME NEW j \in Tasks, j # i PROVE Alike(task[j], task'[j])
  <2>1. others[j] = task[j] /\ task[j] \in TaskAt(begun, clock)
    BY <1>3, <1>7, Types
  <2>2. task'[j] = loose(task[j]) \/ task'[j] = task[j]
    BY <1>5, <2>1
  <2>3. Alike(task[j], task[j])
    BY DEF Alike
  <2> QED BY <1>4, <2>1, <2>2, <2>3
<1>8. shown' \in [Lists -> Known(begun, clock)] /\ drawn' \subseteq Lists /\ stale' \in Why
  <2>1. task[i].got \in HeardBy(begun, clock) /\ Show(task[i].got)
    BY <1>1 DEF LoadArrives, TaskAt
  <2> QED BY <2>1, ShowIs
<1>9. page' = page /\ left' = left /\ truth' = truth /\ clock' = clock /\ focused' = focused /\ did' = did /\ begun' = begun
  BY DEF LoadArrives
<1>10. PagesTypeOK'
  BY <1>6, <1>8, <1>9, Types, TypeStep
<1> QED BY <1>1, <1>6, <1>7, <1>10

LEMMA LoadFailsTyped ==
    ASSUME PagesTypeOK, \A j \in Tasks : InHand(task[j]), NEW i \in Tasks, LoadFails(i)
    PROVE  /\ PagesTypeOK' /\ task[i] \in TaskAt(begun, clock) /\ task[i].stage = "loading" /\ task[i].loads # <<>>
           /\ task'[i] = Rest(task[i])
           /\ \A j \in Tasks : j # i => task'[j] = task[j]
           /\ stale'.missed = stale.missed \cup UNION Head(task[i].loads)
           /\ stale'.crossed = stale.crossed /\ stale'.raced = stale.raced
<1>1. task[i] \in TaskAt(begun, clock) /\ task[i].stage = "loading" /\ task[i].loads # <<>>
  BY Types DEF LoadFails, InHand
<1>2. Moves(i, Rest(task[i])) /\ Rest(task[i]) \in TaskAt(begun, clock)
  BY <1>1, RestIs, Types DEF LoadFails, Moves
<1>3. task' \in [Tasks -> TaskAt(begun, clock)] /\ task'[i] = Rest(task[i]) /\ \A j \in Tasks : j # i => task'[j] = task[j]
  BY <1>2, Types, MovesTyped
<1> DEFINE more == UNION Head(task[i].loads)
<1>4. more \in SUBSET Lists
  <2>1. task[i].loads \in Seq(SUBSET SUBSET Lists)
    BY <1>1 DEF TaskAt
  <2>2. Head(task[i].loads) \in SUBSET SUBSET Lists
    BY <1>1, <2>1
  <2> QED BY <2>2
<1>5. stale' = [stale EXCEPT !.missed = @ \cup more]
  BY DEF LoadFails
<1> HIDE DEF more
<1>6. stale' \in Why /\ stale'.missed = stale.missed \cup more /\ stale'.crossed = stale.crossed /\ stale'.raced = stale.raced
  BY <1>4, <1>5, Types DEF Why
<1>7. PagesTypeOK'
  BY <1>3, <1>6, Types, TypeStep DEF LoadFails
<1> QED BY <1>1, <1>3, <1>6, <1>7 DEF more

-----------------------------------------------------------------------------
(* What is in hand, and what is heard.                                     *)

LEMMA EditsStayServed ==
    ASSUME EditsServed, PagesTypeOK, clock' = clock, begun' = begun, Sent' \subseteq Sent
    PROVE  EditsServed'
<1>1. IsFiniteSet(Sent) /\ Cardinality(Sent) \in Nat
  <2>1. Sent \subseteq Tasks
    BY DEF Sent
  <2> QED BY <2>1, TasksAreFinite, FS_Subset, FS_CardinalityType
<1>2. Cardinality(Sent') <= Cardinality(Sent) /\ Cardinality(Sent') \in Nat
  BY <1>1, FS_Subset, FS_CardinalityType
<1> QED BY <1>1, <1>2, Types DEF EditsServed

\* No handler sends what it had not sent before.
LEMMA NoneSent ==
    ASSUME EditsServed, PagesTypeOK, clock' = clock, begun' = begun,
           \A j \in Tasks : task'[j].stage = "sent" => task[j].stage = "sent"
    PROVE  EditsServed'
<1>1. Sent' \subseteq Sent
  BY DEF Sent
<1> QED BY <1>1, EditsStayServed

LEMMA Hands ==
    ASSUME page' = page, \A j \in Tasks : InHand(task'[j])
    PROVE  (\A j \in Tasks : InHand(task[j]))'
BY Unmoved DEF InHand

LEMMA AlikeInHand ==
    ASSUME NEW t, NEW tt, InHand(t), tt = t \/ Alike(t, tt)
    PROVE  InHand(tt)
BY DEF InHand, Alike

LEMMA FreeInHand ==
    ASSUME NEW t, t = NoTask
    PROVE  InHand(t)
BY LoadTasks DEF InHand

LEMMA GoesOnInHand ==
    ASSUME NEW t, NEW tt, GoesOn(t, tt)
    PROVE  InHand(tt)
<1>1. CASE tt = NoTask
  BY <1>1, FreeInHand
<1>2. CASE t.loads # <<>> /\ tt.stage = "loading" /\ tt.loads = t.loads /\ tt.got = NoAnswer
  BY <1>2, LoadTasks DEF InHand
<1> QED BY <1>1, <1>2 DEF GoesOn

\* What a handler holds it held before, or it is what the server has now.
Heeds(j) ==
    task'[j].stage # "free" =>
        \A l \in DOMAIN task'[j].got :
            \/ task[j].stage # "free" /\ l \in DOMAIN task[j].got /\ task'[j].got[l] = task[j].got[l]
            \/ task'[j].got[l].edits = truth[l]

Quiet ==
    truth' = truth /\ stale.raced \subseteq stale'.raced /\ \A j \in Tasks : Heeds(j)

LEMMA AlikeHeeds ==
    ASSUME NEW j \in Tasks, task'[j] = task[j] \/ Alike(task[j], task'[j])
    PROVE  Heeds(j)
BY DEF Heeds, Alike

LEMMA EmptyHeeds ==
    ASSUME NEW j \in Tasks, task'[j].got = NoAnswer
    PROVE  Heeds(j)
BY LoadTasks DEF Heeds

LEMMA GoesOnHeeds ==
    ASSUME NEW j \in Tasks, NEW t, task'[j] = NoTask \/ GoesOn(t, task'[j])
    PROVE  Heeds(j)
BY LoadTasks, EmptyHeeds DEF GoesOn

\* What holds of an edit from some time on keeps to hold, and from later on too.
LEMMA SinceStays ==
    ASSUME PagesTypeOK, PagesTypeOK', page' = page, Quiet, NEW l \in Lists, NEW e, NEW n \in Nat, NEW m \in Nat, n <= m, Since(l, e, n)
    PROVE  /\ e \in truth'[l] \/ l \in stale'.raced
           /\ \A j \in Tasks :
                 task'[j].stage # "free" /\ l \in DOMAIN task'[j].got /\ task'[j].got[l].at >= m =>
                     e \in task'[j].got[l].edits \/ l \in stale'.raced
<1>1. e \in truth[l] \/ l \in stale'.raced
  BY DEF Since, Quiet
<1>2. ASSUME NEW j \in Tasks, task'[j].stage # "free", l \in DOMAIN task'[j].got, task'[j].got[l].at >= m
      PROVE  e \in task'[j].got[l].edits \/ l \in stale'.raced
  <2>1. CASE task'[j].got[l].edits = truth[l]
    BY <1>1, <2>1
  <2>2. CASE task[j].stage # "free" /\ l \in DOMAIN task[j].got /\ task'[j].got[l] = task[j].got[l]
    <3>1. task[j].got \in HeardBy(begun, clock)
      BY Types DEF TaskAt
    <3>2. task[j].got[l].at \in Nat
      BY <2>2, <3>1, HeardIs, Types DEF Known
    <3>3. task[j].got[l].at >= n
      BY <1>2, <2>2, <3>2
    <3> QED BY <2>2, <3>3 DEF Since, Quiet
  <2> QED BY <1>2, <2>1, <2>2 DEF Quiet, Heeds
<1> QED BY <1>1, <1>2 DEF Quiet

LEMMA UpToDateStays ==
    ASSUME PagesTypeOK, PagesTypeOK', page' = page, Quiet, UpToDate,
           NEW i \in Tasks, MadeAt(i), task[i].op.changes \subseteq Lists, task[i].at \in Nat,
           did' = did \/ (task[i].stage = "answered" /\ did' = did \cup (task[i].op.changes \X {task[i].edit})
                            /\ \A l \in task[i].op.changes : shown'[l].at >= task[i].at),
           \A l \in Lists : shown'[l].at >= shown[l].at
    PROVE  UpToDate'
<1>1. \A l \in Lists : shown[l].at \in Nat /\ shown'[l].at \in Nat
  <2>1. \A l \in Lists : shown[l].at \in Nat
    BY Types DEF Known
  <2>2. clock' \in Nat /\ shown' \in [Lists -> Known(begun', clock')]
    BY Unmoved DEF PagesTypeOK, Known
  <2>3. \A l \in Lists : shown'[l].at \in Nat
    BY <2>2 DEF Known
  <2> QED BY <2>1, <2>3
<1>2. ASSUME NEW d \in did', NEW n \in Nat, d[1] \in Lists, shown'[d[1]].at >= n, Since(d[1], d[2], n)
      PROVE  Since(d[1], d[2], shown[d[1]].at)'
  <2>1. shown'[d[1]].at \in Nat /\ n <= shown'[d[1]].at
    BY <1>1, <1>2
  <2> DEFINE m == shown'[d[1]].at
             l == d[1]
             e == d[2]
  <2>2. /\ e \in truth'[l] \/ l \in stale'.raced
        /\ \A j \in Tasks :
              task'[j].stage # "free" /\ l \in DOMAIN task'[j].got /\ task'[j].got[l].at >= m =>
                  e \in task'[j].got[l].edits \/ l \in stale'.raced
    BY <1>2, <2>1, SinceStays
  <2> QED BY <2>2 DEF Since
<1>3. ASSUME NEW d \in did' PROVE Since(d[1], d[2], shown[d[1]].at)'
  <2>1. CASE d \in did
    <3>1. d[1] \in Lists /\ Since(d[1], d[2], shown[d[1]].at)
      BY <2>1, Types DEF UpToDate
    <3> QED BY <1>1, <1>2, <3>1
  <2>2. CASE d \notin did
    <3>1. /\ task[i].stage = "answered" /\ d[1] \in task[i].op.changes /\ d[2] = task[i].edit
          /\ shown'[d[1]].at >= task[i].at
      BY <2>2, <1>3
    <3>2. Since(d[1], d[2], task[i].at)
      BY <3>1 DEF MadeAt
    <3> QED BY <1>2, <3>1, <3>2
  <2> QED BY <2>1, <2>2
<1> QED BY <1>3 DEF UpToDate

LEMMA MadeStays ==
    ASSUME PagesTypeOK, PagesTypeOK', page' = page, Quiet, NEW i \in Tasks, MadeAt(i),
           task[i].stage = "answered" => task[i].op.changes \subseteq Lists,
           task'[i].stage # "answered" \/ task'[i] = task[i] \/ Alike(task[i], task'[i])
    PROVE  MadeAt(i)'
<1> SUFFICES ASSUME task'[i].stage = "answered" PROVE (\A l \in task[i].op.changes : Since(l, task[i].edit, task[i].at))'
  BY DEF MadeAt
<1>1. task[i].stage = "answered" /\ task'[i].op = task[i].op /\ task'[i].edit = task[i].edit /\ task'[i].at = task[i].at
  BY DEF Alike
<1>2. task[i].at \in Nat
  BY Types DEF TaskAt
<1>3. ASSUME NEW l \in task[i].op.changes
      PROVE  /\ task[i].edit \in truth'[l] \/ l \in stale'.raced
             /\ \A j \in Tasks :
                   task'[j].stage # "free" /\ l \in DOMAIN task'[j].got /\ task'[j].got[l].at >= task[i].at =>
                       task[i].edit \in task'[j].got[l].edits \/ l \in stale'.raced
  <2>1. l \in Lists /\ Since(l, task[i].edit, task[i].at)
    BY <1>1 DEF MadeAt
  <2> QED BY <1>2, <2>1, SinceStays
<1> QED BY <1>1, <1>3 DEF Since

LEMMA AllListed ==
    ASSUME PagesTypeOK, NEW j \in Tasks
    PROVE  task[j].op.changes \subseteq Lists /\ task[j].at \in Nat /\ task[j] \in TaskAt(begun, clock)
<1>1. task[j] \in TaskAt(begun, clock)
  BY Types
<1>2. task[j].op.changes \subseteq Lists
  <2>1. task[j].op \in Ops \cup {Forgets}
    BY <1>1 DEF TaskAt
  <2>2. ASSUME NEW op \in Ops PROVE op.changes \subseteq Lists
    BY OpsFit, Types DEF Fits
  <2> QED BY <2>1, <2>2, ForgetsNothing
<1> QED BY <1>1, <1>2, Types DEF TaskAt

\* A step that changes nothing at the server, and one handler of the page.
LEMMA Calm ==
    ASSUME PagesInv, PagesTypeOK', page' = page, truth' = truth, stale.raced \subseteq stale'.raced, NEW i \in Tasks,
           \A j \in Tasks : j # i => task'[j] = task[j] \/ Alike(task[j], task'[j]),
           Heeds(i), InHand(task'[i]), task'[i].stage # "answered",
           did' = did \/ (task[i].stage = "answered" /\ did' = did \cup (task[i].op.changes \X {task[i].edit})
                            /\ \A l \in task[i].op.changes : shown'[l].at >= task[i].at),
           \A l \in Lists : shown'[l].at >= shown[l].at
    PROVE  (\A j \in Tasks : InHand(task[j]))' /\ (\A j \in Tasks : MadeAt(j))' /\ UpToDate'
<1>1. PagesTypeOK /\ UpToDate /\ \A j \in Tasks : InHand(task[j]) /\ MadeAt(j)
  BY DEF PagesInv
<1>2. \A j \in Tasks : Heeds(j)
  BY AlikeHeeds
<1>3. Quiet
  BY <1>2 DEF Quiet
<1>4. \A j \in Tasks : InHand(task'[j])
  BY <1>1, AlikeInHand
<1>5. ASSUME NEW j \in Tasks PROVE MadeAt(j)'
  BY <1>1, <1>3, AllListed, MadeStays
<1>6. UpToDate'
  BY <1>1, <1>3, AllListed, UpToDateStays
<1> QED BY <1>4, <1>5, <1>6, Hands

\* All but that what was done is on its way.
HeardInv ==
    PagesTypeOK /\ EditsServed /\ (\A i \in Tasks : InHand(task[i])) /\ (\A i \in Tasks : MadeAt(i)) /\ UpToDate

LEMMA Parts ==
    /\ PagesInv <=> HeardInv /\ Accounted
    /\ PagesInv => PagesTypeOK /\ EditsServed /\ (\A i \in Tasks : InHand(task[i])) /\ (\A i \in Tasks : MadeAt(i))
                   /\ UpToDate /\ Accounted
BY DEF PagesInv, HeardInv

LEMMA AtsStay ==
    ASSUME PagesTypeOK, shown' = shown
    PROVE  \A l \in Lists : shown'[l].at >= shown[l].at
BY Types DEF Known

LEMMA LoadHeard ==
    ASSUME PagesInv, NEW i \in Tasks, NEW load \in Here.opens, Load(i, load)
    PROVE  HeardInv' /\ task[i].stage = "free" /\ \A j \in Tasks : j # i => task'[j] = task[j]
<1>1. PagesTypeOK /\ PagesTypeOK'
  BY Parts, LoadTyped
<1>2. LoadTask(<<load>>) \in TaskAt(begun, clock) /\ Moves(i, LoadTask(<<load>>))
  BY <1>1, OpensAreLists, Loads, Types DEF Load, Moves
<1>3. task'[i] = LoadTask(<<load>>) /\ \A j \in Tasks : j # i => task'[j] = task[j]
  BY <1>1, <1>2, Types, MovesTyped
<1>4. task'[i].stage = "loading" /\ task'[i].loads = <<load>> /\ task'[i].got = NoAnswer
  BY <1>3, LoadTasks
<1>5. <<load>> # <<>>
  OBVIOUS
<1>6. InHand(task'[i])
  BY <1>4, <1>5, LoadTasks DEF InHand
<1>7. page' = page /\ truth' = truth /\ stale' = stale /\ did' = did /\ shown' = shown /\ clock' = clock /\ begun' = begun
  BY DEF Load
<1>8. (\A j \in Tasks : InHand(task[j]))' /\ (\A j \in Tasks : MadeAt(j))' /\ UpToDate'
  BY <1>1, <1>3, <1>4, <1>6, <1>7, EmptyHeeds, AtsStay, Calm
<1>9. EditsServed'
  BY <1>1, <1>3, <1>4, <1>7, Parts, NoneSent
<1> QED BY <1>1, <1>3, <1>8, <1>9, NextIsFree DEF Load, HeardInv

LEMMA BeginHeard ==
    ASSUME PagesInv, NEW i \in Tasks, NEW name \in DOMAIN Here.ops, Begin(i, name)
    PROVE  HeardInv' /\ task[i].stage = "free" /\ \A j \in Tasks : j # i => task'[j] = task[j]
<1>1. PagesTypeOK /\ PagesTypeOK' /\ Moves(i, Begun(name)) /\ Begun(name) \in TaskAt(begun', clock')
  BY Parts, BeginTyped
<1>2. page' = page /\ truth' = truth /\ stale' = stale /\ did' = did /\ shown' = shown /\ clock' = clock /\ begun' = begun + 1
  BY DEF Begin
<1>3. task'[i] = Begun(name) /\ \A j \in Tasks : j # i => task'[j] = task[j]
  <2>1. begun \in Nat /\ begun' \in Nat /\ clock \in Nat /\ begun <= begun' /\ clock' \in Nat /\ clock <= clock'
    BY <1>1, <1>2, Types
  <2> QED BY <1>1, <2>1, Types, MovesTyped
<1>4. task'[i].stage = "sent" /\ task'[i].op = Here.ops[name] /\ task'[i].loads = Here.ops[name].loads
      /\ task'[i].edit = begun + 1 /\ task'[i].got = NoAnswer
  <2>1. ASSUME NEW t, t = Begun(name)
        PROVE  t.stage = "sent" /\ t.op = Here.ops[name] /\ t.loads = Here.ops[name].loads
               /\ t.edit = begun' /\ t.got = NoAnswer
    BY <2>1 DEF Begun
  <2> QED BY <1>2, <1>3, <2>1
<1>5. InHand(task'[i])
  <2>1. begun + 1 > 0
    BY <1>1, Types
  <2> QED BY <1>4, <2>1, OpIsOp DEF InHand
<1>6. task[i].stage = "free"
  BY NextIsFree DEF Begin
<1>7. (\A j \in Tasks : InHand(task[j]))' /\ (\A j \in Tasks : MadeAt(j))' /\ UpToDate'
  BY <1>1, <1>2, <1>3, <1>4, <1>5, EmptyHeeds, AtsStay, Calm
<1>8. EditsServed'
  <2>1. Sent' = Sent \cup {i} /\ i \notin Sent
    BY <1>3, <1>4, <1>6 DEF Sent
  <2>2. IsFiniteSet(Sent) /\ Cardinality(Sent) \in Nat
    <3>1. Sent \subseteq Tasks
      BY DEF Sent
    <3> QED BY <3>1, TasksAreFinite, FS_Subset, FS_CardinalityType
  <2>3. Cardinality(Sent') = Cardinality(Sent) + 1
    BY <2>1, <2>2, FS_AddElement
  <2> QED BY <1>1, <1>2, <2>2, <2>3, Parts, Types DEF EditsServed
<1> QED BY <1>1, <1>3, <1>6, <1>7, <1>8 DEF HeardInv

LEMMA RefusedHeard ==
    ASSUME PagesInv, NEW i \in Tasks, Refused(i)
    PROVE  HeardInv'
<1>1. PagesTypeOK /\ PagesTypeOK' /\ (task'[i] = NoTask \/ GoesOn(task[i], task'[i])) /\ \A j \in Tasks : j # i => task'[j] = task[j]
  BY Parts, RefusedTyped
<1>2. page' = page /\ truth' = truth /\ stale' = stale /\ did' = did /\ shown' = shown /\ clock' = clock /\ begun' = begun
  BY DEF Refused
<1>3. InHand(task'[i]) /\ Heeds(i) /\ task'[i].stage \notin {"sent", "answered"}
  BY <1>1, FreeInHand, GoesOnInHand, GoesOnHeeds, LoadTasks DEF GoesOn
<1>4. (\A j \in Tasks : InHand(task[j]))' /\ (\A j \in Tasks : MadeAt(j))' /\ UpToDate'
  BY <1>1, <1>2, <1>3, AtsStay, Calm
<1>5. EditsServed'
  BY <1>1, <1>2, <1>3, Parts, NoneSent
<1> QED BY <1>1, <1>4, <1>5 DEF HeardInv

LEMMA ToldAlready ==
    ASSUME PagesInv, NEW i \in Tasks, Told(i)
    PROVE  /\ task[i].stage = "answered" /\ did' = did \cup (task[i].op.changes \X {task[i].edit})
           /\ task[i].op.changes \subseteq Lists /\ task[i].at \in Nat
BY Parts, ToldIs, AllListed

LEMMA GoesHeard ==
    ASSUME PagesInv, NEW i \in Tasks, Goes(i)
    PROVE  HeardInv'
<1>1. PagesTypeOK /\ PagesTypeOK' /\ GoesOn(task[i], task'[i]) /\ \A j \in Tasks : j # i => task'[j] = task[j]
  BY Parts, GoesTyped
<1>2. page' = page /\ truth' = truth /\ stale' = stale /\ shown' = Knows(i) /\ clock' = clock /\ begun' = begun /\ Told(i)
  BY DEF Goes
<1>3. InHand(task'[i]) /\ Heeds(i) /\ task'[i].stage \notin {"sent", "answered"}
  BY <1>1, GoesOnInHand, GoesOnHeeds, LoadTasks DEF GoesOn
<1>4. \A l \in Lists : shown'[l].at >= shown[l].at /\ (l \in task[i].op.changes => shown'[l].at >= task[i].at)
  BY <1>1, <1>2, KnowsIs
<1>5. (\A j \in Tasks : InHand(task[j]))' /\ (\A j \in Tasks : MadeAt(j))' /\ UpToDate'
  BY <1>1, <1>2, <1>3, <1>4, ToldAlready, Calm
<1>6. EditsServed'
  BY <1>1, <1>2, <1>3, Parts, NoneSent
<1> QED BY <1>1, <1>5, <1>6 DEF HeardInv

\* Whatever the answer holds is of the moment the change was made.
LEMMA ReplacesHears ==
    ASSUME PagesInv, NEW i \in Tasks, Replaces(i)
    PROVE  /\ task[i].got \in HeardBy(begun, clock) /\ Show(task[i].got)
           /\ task[i].op.changes \subseteq DOMAIN task[i].got /\ (DOMAIN task[i].got) \cap Here.guarded = {}
           /\ \A l \in DOMAIN task[i].got : task[i].got[l].at = task[i].at
<1>1. Told(i) /\ task[i].op.then = "take" /\ Show(task[i].got)
  BY DEF Replaces
<1>2. task[i].got \in HeardBy(begun, clock) /\ task[i].op \in Ops /\ Fits(task[i].op, Lists, Here.guarded, page)
      /\ InHand(task[i]) /\ task[i].stage = "answered"
  BY <1>1, Parts, ToldIs
<1>3. DOMAIN task[i].got = UNION Head(task[i].op.loads) /\ \A l \in DOMAIN task[i].got : task[i].got[l].at = task[i].at
  BY <1>1, <1>2 DEF InHand
<1>4. task[i].op.changes \subseteq UNION Head(task[i].op.loads) /\ (UNION Head(task[i].op.loads)) \cap Here.guarded = {}
  BY <1>1, <1>2 DEF Fits
<1> QED BY <1>1, <1>2, <1>3, <1>4

LEMMA ReplacesHeard ==
    ASSUME PagesInv, NEW i \in Tasks, Replaces(i)
    PROVE  HeardInv'
<1>1. PagesTypeOK /\ PagesTypeOK' /\ task'[i] = NoTask /\ \A j \in Tasks : j # i => task'[j] = task[j]
  BY Parts, ReplacesTyped
<1>2. page' = page /\ truth' = truth /\ clock' = clock /\ begun' = begun /\ Told(i)
  BY DEF Replaces
<1>3. InHand(task'[i]) /\ Heeds(i) /\ task'[i].stage \notin {"sent", "answered"}
  BY <1>1, FreeInHand, EmptyHeeds, LoadTasks
<1>4. stale'.raced = stale.raced /\ \A l \in Lists : shown'[l].at >= shown[l].at
  BY <1>1, ReplacesHears, ShowIs
<1>5. \A l \in task[i].op.changes : shown'[l].at >= task[i].at
  <2> TAKE l \in task[i].op.changes
  <2>1. l \in DOMAIN task[i].got /\ l \notin Here.guarded /\ task[i].got[l].at = task[i].at
    BY ReplacesHears
  <2>2. shown'[l].at >= task[i].got[l].at
    BY <1>1, <2>1, ReplacesHears, ShowIs
  <2> QED BY <2>1, <2>2
<1>6. (\A j \in Tasks : InHand(task[j]))' /\ (\A j \in Tasks : MadeAt(j))' /\ UpToDate'
  BY <1>1, <1>2, <1>3, <1>4, <1>5, ToldAlready, Calm
<1>7. EditsServed'
  BY <1>1, <1>2, <1>3, Parts, NoneSent
<1> QED BY <1>1, <1>6, <1>7 DEF HeardInv

LEMMA KeepsHeard ==
    ASSUME PagesInv, NEW i \in Tasks, Keeps(i)
    PROVE  HeardInv'
<1>1. PagesTypeOK /\ PagesTypeOK' /\ task'[i] = NoTask /\ \A j \in Tasks : j # i => task'[j] = task[j]
  BY Parts, KeepsTyped
<1>2. page' = page /\ truth' = truth /\ clock' = clock /\ begun' = begun /\ Told(i)
  BY DEF Keeps
<1>3. InHand(task'[i]) /\ Heeds(i) /\ task'[i].stage \notin {"sent", "answered"}
  BY <1>1, FreeInHand, EmptyHeeds, LoadTasks
<1>4. /\ stale'.raced = stale.raced /\ \A l \in Lists : shown'[l].at >= shown[l].at
      /\ \A l \in task[i].op.changes : shown'[l].at >= task[i].at
  BY <1>1, Parts, KeepsIs
<1>5. (\A j \in Tasks : InHand(task[j]))' /\ (\A j \in Tasks : MadeAt(j))' /\ UpToDate'
  BY <1>1, <1>2, <1>3, <1>4, ToldAlready, Calm
<1>6. EditsServed'
  BY <1>1, <1>2, <1>3, Parts, NoneSent
<1> QED BY <1>1, <1>5, <1>6 DEF HeardInv

LEMMA GoesElsewhereHeard ==
    ASSUME PagesInv, NEW i \in Tasks, GoesElsewhere(i)
    PROVE  HeardInv'
<1>1. PagesTypeOK /\ PagesTypeOK' /\ \A j \in Tasks : task'[j] = NoTask
  BY Parts, GoesElsewhereTyped
<1>2. /\ page' = page /\ truth' = truth /\ stale' = stale /\ shown' = shown /\ clock' = clock /\ begun' = begun
      /\ Told(i)
  BY DEF GoesElsewhere
<1>3. \A j \in Tasks : InHand(task'[j]) /\ Heeds(j) /\ task'[j].stage \notin {"sent", "answered"}
  BY <1>1, FreeInHand, EmptyHeeds, LoadTasks
<1>4. Quiet
  BY <1>2, <1>3 DEF Quiet
<1>5. (\A j \in Tasks : InHand(task[j]))' /\ (\A j \in Tasks : MadeAt(j))'
  BY <1>2, <1>3, Hands DEF MadeAt
<1>6. UpToDate'
  \* Of no handler is anything left.
  <2>1. ASSUME NEW d \in did' PROVE d[2] \in truth[d[1]] \/ d[1] \in stale.raced
    <3>1. CASE d \in did
      BY <3>1, Parts DEF UpToDate, Since
    <3>2. CASE d \notin did
      <4>1. d[1] \in task[i].op.changes /\ d[2] = task[i].edit /\ task[i].stage = "answered"
        BY <1>2, <2>1, <3>2, ToldAlready
      <4> QED BY <4>1, Parts DEF MadeAt, Since
    <3> QED BY <3>1, <3>2
  <2>2. \A j \in Tasks : task'[j].stage = "free"
    BY <1>1, LoadTasks
  <2> QED BY <1>2, <2>1, <2>2 DEF UpToDate, Since
<1>7. EditsServed'
  BY <1>1, <1>2, <1>3, Parts, NoneSent
<1> QED BY <1>1, <1>5, <1>6, <1>7 DEF HeardInv

LEMMA ReadsHeard ==
    ASSUME PagesInv, NEW i \in Tasks, NEW lists \in SUBSET Lists, Reads(i, lists)
    PROVE  HeardInv'
<1>1. /\ PagesTypeOK /\ PagesTypeOK' /\ task[i].stage = "loading" /\ task[i].loads # <<>>
      /\ \A j \in Tasks : j # i => task'[j] = task[j]
      /\ task'[i].stage = "loading" /\ task'[i].loads = task[i].loads
      /\ DOMAIN task'[i].got = DOMAIN task[i].got \cup lists /\ lists \subseteq UNION Head(task[i].loads)
      /\ \A l \in lists : task'[i].got[l].edits = truth[l]
      /\ \A l \in DOMAIN task[i].got : l \notin lists => task'[i].got[l] = task[i].got[l]
  BY Parts, ReadsTyped
<1>2. page' = page /\ truth' = truth /\ stale' = stale /\ did' = did /\ shown' = shown /\ clock' = clock /\ begun' = begun
  BY DEF Reads
<1>3. Heeds(i)
  BY <1>1 DEF Heeds
<1>4. InHand(task'[i])
  BY <1>1, Parts DEF InHand
<1>5. (\A j \in Tasks : InHand(task[j]))' /\ (\A j \in Tasks : MadeAt(j))' /\ UpToDate'
  BY <1>1, <1>2, <1>3, <1>4, AtsStay, Calm
<1>6. EditsServed'
  BY <1>1, <1>2, Parts, NoneSent
<1> QED BY <1>1, <1>5, <1>6 DEF HeardInv

LEMMA RestInHand ==
    ASSUME PagesTypeOK, NEW t \in TaskAt(begun, clock), t.stage = "loading", t.loads # <<>>
    PROVE  /\ InHand(Rest(t)) /\ Rest(t).stage \notin {"sent", "answered"}
           /\ Rest(t).got = NoAnswer
BY RestIs, FreeInHand, LoadTasks DEF InHand

LEMMA LoadArrivesHeard ==
    ASSUME PagesInv, NEW i \in Tasks, LoadArrives(i)
    PROVE  HeardInv'
<1>1. /\ PagesTypeOK /\ PagesTypeOK' /\ task[i] \in TaskAt(begun, clock) /\ task[i].stage = "loading" /\ task[i].loads # <<>>
      /\ task'[i] = Rest(task[i]) /\ \A j \in Tasks : j # i => Alike(task[j], task'[j])
  BY Parts, LoadArrivesTyped
<1>2. page' = page /\ truth' = truth /\ clock' = clock /\ begun' = begun /\ did' = did
  BY DEF LoadArrives
<1>3. InHand(task'[i]) /\ Heeds(i) /\ task'[i].stage \notin {"sent", "answered"}
  BY <1>1, RestInHand, EmptyHeeds
<1>4. stale'.raced = stale.raced /\ \A l \in Lists : shown'[l].at >= shown[l].at
  <2>1. task[i].got \in HeardBy(begun, clock) /\ Show(task[i].got)
    BY <1>1 DEF LoadArrives, TaskAt
  <2> QED BY <1>1, <2>1, ShowIs
<1>5. (\A j \in Tasks : InHand(task[j]))' /\ (\A j \in Tasks : MadeAt(j))' /\ UpToDate'
  BY <1>1, <1>2, <1>3, <1>4, Calm
<1>6. EditsServed'
  <2>1. \A j \in Tasks : task'[j].stage = "sent" => task[j].stage = "sent"
    BY <1>1, <1>3 DEF Alike
  <2> QED BY <1>1, <1>2, <2>1, Parts, NoneSent
<1> QED BY <1>1, <1>5, <1>6 DEF HeardInv

LEMMA LoadFailsHeard ==
    ASSUME PagesInv, NEW i \in Tasks, LoadFails(i)
    PROVE  HeardInv'
<1>1. /\ PagesTypeOK /\ PagesTypeOK' /\ task[i] \in TaskAt(begun, clock) /\ task[i].stage = "loading" /\ task[i].loads # <<>>
      /\ task'[i] = Rest(task[i]) /\ \A j \in Tasks : j # i => task'[j] = task[j]
      /\ stale'.raced = stale.raced
  BY Parts, LoadFailsTyped
<1>2. page' = page /\ truth' = truth /\ clock' = clock /\ begun' = begun /\ did' = did /\ shown' = shown
  BY DEF LoadFails
<1>3. InHand(task'[i]) /\ Heeds(i) /\ task'[i].stage \notin {"sent", "answered"}
  BY <1>1, RestInHand, EmptyHeeds
<1>4. (\A j \in Tasks : InHand(task[j]))' /\ (\A j \in Tasks : MadeAt(j))' /\ UpToDate'
  BY <1>1, <1>2, <1>3, AtsStay, Calm
<1>5. EditsServed'
  BY <1>1, <1>2, <1>3, Parts, NoneSent
<1> QED BY <1>1, <1>4, <1>5 DEF HeardInv

\* A list that is sent whole keeps what was there, or is known to have raced.
LEMMA ServeSince ==
    ASSUME PagesInv, NEW i \in Tasks, Serve(i), NEW l \in Lists, NEW e, NEW n \in Nat
    PROVE  /\ Since(l, e, n) => Since(l, e, n)'
           /\ l \in task[i].op.changes /\ e = task[i].edit /\ n = clock' => Since(l, e, n)'
<1> DEFINE t == task[i]
<1>1. /\ PagesTypeOK /\ Served(t) \in TaskAt(begun, clock') /\ t \in TaskAt(begun, clock) /\ t.op \in Ops
      /\ Moves(i, Served(t)) /\ clock' = clock + 1 /\ Fits(t.op, Lists, Here.guarded, page)
      /\ t.stage = "sent"
  BY Parts, ServeTyped, ServeMoves, OpsFit, Types
<1>2. task'[i] = Served(t) /\ \A j \in Tasks : j # i => task'[j] = task[j]
  BY <1>1, Types, MovesTyped
<1>3. stale.raced \subseteq stale'.raced
      /\ (t.op.whole # "" /\ ~(truth[t.op.whole] \subseteq t.base) => t.op.whole \in stale'.raced)
  BY <1>1, Types DEF Serve, Why
<1>4. truth'[l] = (IF l = t.op.whole THEN t.base ELSE truth[l]) \cup (IF l \in t.op.changes THEN {t.edit} ELSE {})
  BY DEF Serve
<1>5. "" \notin Lists
  BY <1>1, OpsFit, Types
<1>6. e \in truth[l] \/ l \in stale.raced => e \in truth'[l] \/ l \in stale'.raced
  BY <1>3, <1>4, <1>5
<1>7. /\ Served(t).stage = "answered"
      /\ \A k \in DOMAIN Served(t).got : Served(t).got[k].edits = truth'[k]
  <2> DEFINE got == IF t.op.then = "take" THEN At(clock', truth', UNION Head(t.op.loads)) ELSE NoAnswer
  <2>1. Served(t) = Replied(t, clock', got)
    BY DEF Served
  <2> HIDE DEF got
  <2>2. Served(t).stage = "answered" /\ Served(t).got = got
    BY <1>1, <2>1 DEF Replied, TaskAt
  <2>3. \A k \in DOMAIN got : got[k].edits = truth'[k]
    BY LoadTasks DEF got, At
  <2> QED BY <2>2, <2>3
<1>8. ASSUME e \in truth'[l] \/ l \in stale'.raced
      PROVE  l \in DOMAIN task'[i].got => e \in task'[i].got[l].edits \/ l \in stale'.raced
  BY <1>2, <1>7, <1>8
<1>9. ASSUME Since(l, e, n) PROVE Since(l, e, n)'
  <2>1. e \in truth'[l] \/ l \in stale'.raced
    BY <1>6, <1>9 DEF Since
  <2>2. \A j \in Tasks : j # i /\ task'[j].stage # "free" /\ l \in DOMAIN task'[j].got /\ task'[j].got[l].at >= n =>
           e \in task'[j].got[l].edits \/ l \in stale'.raced
    BY <1>2, <1>3, <1>9 DEF Since
  <2> QED BY <1>8, <2>1, <2>2 DEF Since
<1>10. ASSUME l \in t.op.changes, e = t.edit, n = clock' PROVE Since(l, e, n)'
  <2>1. e \in truth'[l]
    BY <1>4, <1>10
  <2>2. ASSUME NEW j \in Tasks, j # i, l \in DOMAIN task'[j].got PROVE ~(task'[j].got[l].at >= n)
    <3>1. task'[j] = task[j] /\ task[j].got \in HeardBy(begun, clock)
      BY <1>1, <1>2, <2>2, Types DEF TaskAt
    <3>2. task[j].got[l].at \in 0..clock
      BY <2>2, <3>1, HeardIs DEF Known
    <3> QED BY <1>1, <1>10, <3>1, <3>2, Types
  <2> QED BY <1>8, <2>1, <2>2 DEF Since
<1> QED BY <1>9, <1>10

LEMMA ServeHeard ==
    ASSUME PagesInv, NEW i \in Tasks, Serve(i)
    PROVE  /\ HeardInv' /\ task[i].stage = "sent" /\ stale.raced \subseteq stale'.raced
           /\ stale'.missed = stale.missed /\ stale'.crossed = stale.crossed
           /\ \A j \in Tasks : j # i => task'[j] = task[j]
<1> DEFINE t == task[i]
<1>1. /\ PagesTypeOK /\ PagesTypeOK' /\ Served(t) \in TaskAt(begun, clock') /\ t \in TaskAt(begun, clock) /\ t.op \in Ops
      /\ t.loads = t.op.loads /\ t.edit \in 1..begun
      /\ Moves(i, Served(t)) /\ clock' = clock + 1 /\ Fits(t.op, Lists, Here.guarded, page) /\ t.stage = "sent"
      /\ page' = page /\ shown' = shown /\ did' = did /\ begun' = begun
  BY Parts, ServeTyped, ServeMoves, OpsFit, Types
<1>2. task'[i] = Served(t) /\ \A j \in Tasks : j # i => task'[j] = task[j]
  BY <1>1, Types, MovesTyped
<1> DEFINE got == IF t.op.then = "take" THEN At(clock', truth', UNION Head(t.op.loads)) ELSE NoAnswer
<1>3. /\ task'[i].stage = "answered" /\ task'[i].op = t.op /\ task'[i].loads = t.loads /\ task'[i].edit = t.edit
      /\ task'[i].at = clock' /\ task'[i].got = got
  <2>1. Served(t) = Replied(t, clock', got)
    BY DEF Served
  <2> HIDE DEF got
  <2> QED BY <1>1, <1>2, <2>1 DEF Replied, TaskAt
<1>4. t.op.then = "take" =>
         DOMAIN task'[i].got = UNION Head(t.op.loads) /\ \A l \in DOMAIN task'[i].got : task'[i].got[l].at = clock'
  <2>1. ASSUME NEW lists PROVE DOMAIN At(clock', truth', lists) = lists /\ \A l \in lists : At(clock', truth', lists)[l].at = clock'
    BY DEF At
  <2> QED BY <1>3, <2>1
<1> HIDE DEF got
<1>5. InHand(task'[i])
  BY <1>1, <1>3, <1>4, Types DEF InHand
<1>6. (\A j \in Tasks : InHand(task[j]))'
  BY <1>1, <1>2, <1>5, Parts, Hands
<1>7. ASSUME NEW j \in Tasks PROVE MadeAt(j)'
  <2>1. CASE j = i
    <3>1. clock' \in Nat
      BY <1>1, Types
    <3>2. ASSUME NEW l \in t.op.changes PROVE Since(l, task[i].edit, task[i].at)'
      <4>1. PICK e, n : e = t.edit /\ n = clock'
        OBVIOUS
      <4>2. l \in Lists /\ n \in Nat
        BY <1>1, <3>1, <4>1, AllListed
      <4>3. Since(l, e, n)'
        BY <4>1, <4>2, ServeSince
      <4> QED BY <1>3, <4>1, <4>3 DEF Since
    <3>3. (\A l \in task[i].op.changes : Since(l, task[i].edit, task[i].at))'
      BY <1>3, <3>2
    <3> QED BY <2>1, <3>3 DEF MadeAt
  <2>2. CASE j # i
    <3>1. task'[j] = task[j] /\ MadeAt(j) /\ task[j].op.changes \subseteq Lists /\ task[j].at \in Nat
      BY <1>1, <1>2, <2>2, Parts, AllListed
    <3>2. task[j].stage = "answered" => \A l \in task[j].op.changes : Since(l, task[j].edit, task[j].at)'
      <4> SUFFICES ASSUME task[j].stage = "answered", NEW l \in task[j].op.changes
                   PROVE  Since(l, task[j].edit, task[j].at)'
        OBVIOUS
      <4> DEFINE e == task[j].edit
                 n == task[j].at
      <4>1. Since(l, e, n)
        BY <3>1 DEF MadeAt
      <4>2. l \in Lists /\ n \in Nat /\ task'[j].edit = e /\ task'[j].at = n
        BY <3>1
      <4> QED BY <4>1, <4>2, ServeSince
    <3> QED BY <3>1, <3>2 DEF MadeAt
  <2> QED BY <2>1, <2>2
<1>8. UpToDate'
  <2>1. ASSUME NEW d \in did PROVE Since(d[1], d[2], shown[d[1]].at)'
    <3>1. d[1] \in Lists /\ Since(d[1], d[2], shown[d[1]].at) /\ shown[d[1]].at \in Nat
      BY <1>1, Parts, Types DEF UpToDate, Known
    <3> DEFINE n == shown[d[1]].at
    <3>2. shown'[d[1]].at = n
      BY <1>1
    <3> QED BY <3>1, <3>2, ServeSince
  <2> QED BY <1>1, <2>1 DEF UpToDate
<1>9. EditsServed'
  <2>1. Sent' = Sent \ {i} /\ i \in Sent
    BY <1>1, <1>2, <1>3 DEF Sent
  <2>2. IsFiniteSet(Sent) /\ Cardinality(Sent) \in Nat
    <3>1. Sent \subseteq Tasks
      BY DEF Sent
    <3> QED BY <3>1, TasksAreFinite, FS_Subset, FS_CardinalityType
  <2>3. Cardinality(Sent') = Cardinality(Sent) - 1
    BY <2>1, <2>2, FS_RemoveElement
  <2> QED BY <1>1, <2>2, <2>3, Parts, Types DEF EditsServed
<1>10. stale.raced \subseteq stale'.raced /\ stale'.missed = stale.missed /\ stale'.crossed = stale.crossed
  BY <1>1, Types DEF Serve, Why
<1> QED BY <1>1, <1>2, <1>6, <1>7, <1>8, <1>9, <1>10 DEF HeardInv

-----------------------------------------------------------------------------
(* What was done is on its way.                                            *)

ComingNow(l, e) == \E j \in Tasks : task'[j].stage = "loading" /\ Brings(task'[j], l, e)
ExcusedNow(l) == l \in stale'.missed \cup stale'.crossed \cup stale'.raced \/ <<page, l>> \in NotLoadedAgain

LEMMA AccountedNow ==
    ASSUME page' = page,
           left' \/ \A d \in did' : d[2] \in shown'[d[1]].edits \/ ExcusedNow(d[1]) \/ ComingNow(d[1], d[2])
    PROVE  Accounted'
<1>1. \A l, e : ComingNow(l, e) => Coming(l, e)'
  BY DEF ComingNow, Coming, Brings
<1>2. \A l : ExcusedNow(l) => Excused(l)'
  BY DEF ExcusedNow, Excused, NotLoadedAgain
<1> QED BY <1>1, <1>2 DEF Accounted

LEMMA ComingStays ==
    ASSUME NEW i \in Tasks, \A j \in Tasks : j # i => task'[j] = task[j] \/ Alike(task[j], task'[j]),
           NEW l, NEW e, Coming(l, e)
    PROVE  ComingNow(l, e) \/ (task[i].stage = "loading" /\ Brings(task[i], l, e))
<1>1. PICK j \in Tasks : task[j].stage = "loading" /\ Brings(task[j], l, e)
  BY DEF Coming
<1>2. CASE j # i
  <2>1. task'[j].stage = "loading" /\ task'[j].loads = task[j].loads /\ task'[j].got = task[j].got
    BY <1>1, <1>2 DEF Alike
  <2> QED BY <1>1, <2>1 DEF ComingNow, Brings
<1> QED BY <1>1, <1>2

\* A step that shows nothing, of a handler that was loading nothing.
LEMMA AccountedStays ==
    ASSUME PagesInv, page' = page, left' = left, did' = did, shown' = shown, NEW i \in Tasks,
           task[i].stage # "loading", \A j \in Tasks : j # i => task'[j] = task[j],
           stale.missed \subseteq stale'.missed, stale.crossed \subseteq stale'.crossed, stale.raced \subseteq stale'.raced
    PROVE  Accounted'
<1>1. ASSUME ~left, NEW d \in did PROVE d[2] \in shown[d[1]].edits \/ ExcusedNow(d[1]) \/ ComingNow(d[1], d[2])
  <2>1. d[2] \in shown[d[1]].edits \/ Excused(d[1]) \/ Coming(d[1], d[2])
    BY <1>1, Parts DEF Accounted
  <2>2. Excused(d[1]) => ExcusedNow(d[1])
    BY DEF Excused, ExcusedNow
  <2>3. Coming(d[1], d[2]) => ComingNow(d[1], d[2])
    BY ComingStays
  <2> QED BY <2>1, <2>2, <2>3
<1>2. left \in BOOLEAN
  BY Parts, Types
<1> QED BY <1>1, <1>2, AccountedNow

LEMMA QuietlyAccounted ==
    ASSUME PagesInv, NEW i \in Tasks,
           (\E load \in Here.opens : Load(i, load)) \/ (\E name \in DOMAIN Here.ops : Begin(i, name)) \/ Serve(i) \/ Refused(i)
    PROVE  Accounted'
<1>1. ASSUME NEW load \in Here.opens, Load(i, load) PROVE Accounted'
  <2>1. task[i].stage = "free" /\ \A j \in Tasks : j # i => task'[j] = task[j]
    BY <1>1, LoadHeard
  <2>2. page' = page /\ left' = left /\ stale' = stale /\ did' = did /\ shown' = shown
    BY <1>1 DEF Load
  <2> QED BY <2>1, <2>2, AccountedStays
<1>2. ASSUME NEW name \in DOMAIN Here.ops, Begin(i, name) PROVE Accounted'
  <2>1. task[i].stage = "free" /\ \A j \in Tasks : j # i => task'[j] = task[j]
    BY <1>2, BeginHeard
  <2>2. page' = page /\ left' = left /\ stale' = stale /\ did' = did /\ shown' = shown
    BY <1>2 DEF Begin
  <2> QED BY <2>1, <2>2, AccountedStays
<1>3. CASE Serve(i)
  <2>1. page' = page /\ left' = left /\ did' = did /\ shown' = shown
    BY <1>3 DEF Serve
  <2> QED BY <1>3, <2>1, ServeHeard, AccountedStays
<1>4. CASE Refused(i)
  <2>1. task[i].stage \in {"sent", "answered"} /\ \A j \in Tasks : j # i => task'[j] = task[j]
    BY <1>4, Parts, RefusedTyped
  <2>2. page' = page /\ left' = left /\ stale' = stale /\ did' = did /\ shown' = shown
    BY <1>4 DEF Refused
  <2> QED BY <2>1, <2>2, AccountedStays
<1> QED BY <1>1, <1>2, <1>3, <1>4

\* What an operation changes it loads again.
LEMMA GoesAccounted ==
    ASSUME PagesInv, NEW i \in Tasks, Goes(i)
    PROVE  Accounted'
<1> DEFINE t == task[i]
<1>1. /\ PagesTypeOK /\ GoesOn(t, task'[i]) /\ \A j \in Tasks : j # i => task'[j] = task[j]
      /\ t.stage = "answered" /\ did' = did \cup (t.op.changes \X {t.edit})
      /\ Fits(t.op, Lists, Here.guarded, page) /\ t.loads = t.op.loads /\ t.loads \in Seq(SUBSET SUBSET Lists)
  BY Parts, GoesTyped, ToldIs DEF Goes
<1>2. page' = page /\ left' = left /\ stale' = stale /\ shown' = Knows(i) /\ t.op.then \in {"reload", "always", "nothing"}
  BY DEF Goes
<1>3. ASSUME ~left, NEW d \in did PROVE d[2] \in shown'[d[1]].edits \/ ExcusedNow(d[1]) \/ ComingNow(d[1], d[2])
  <2>1. d[2] \in shown[d[1]].edits \/ Excused(d[1]) \/ Coming(d[1], d[2])
    BY <1>3, Parts DEF Accounted
  <2>2. Excused(d[1]) => ExcusedNow(d[1])
    BY <1>2 DEF Excused, ExcusedNow
  <2>3. Coming(d[1], d[2]) => ComingNow(d[1], d[2])
    BY <1>1, ComingStays
  <2>4. shown'[d[1]].edits = shown[d[1]].edits
    <3>1. d[1] \in Lists
      BY <1>1, Types
    <3> QED BY <1>1, <1>2, <3>1, KnowsIs
  <2> QED BY <2>1, <2>2, <2>3, <2>4
<1>4. ASSUME NEW l \in t.op.changes PROVE ExcusedNow(l) \/ \A e : ComingNow(l, e)
  <2>1. <<page, l>> \in NotLoadedAgain \/ \E k \in 1 .. Len(t.loads) : l \in UNION (t.loads[k])
    BY <1>1, <1>2 DEF Fits
  <2>2. ASSUME NEW k \in 1 .. Len(t.loads), l \in UNION (t.loads[k]), NEW e PROVE ComingNow(l, e)
    <3>1. t.loads # <<>>
      BY EmptySeq
    <3>2. task'[i].stage = "loading" /\ task'[i].loads = t.loads /\ task'[i].got = NoAnswer
      BY <1>1, <3>1 DEF GoesOn
    <3>3. Brings(task'[i], l, e)
      BY <2>2, <3>2, LoadTasks DEF Brings
    <3> QED BY <3>2, <3>3 DEF ComingNow
  <2> QED BY <2>1, <2>2 DEF ExcusedNow
<1>5. ASSUME ~left, NEW d \in did' PROVE d[2] \in shown'[d[1]].edits \/ ExcusedNow(d[1]) \/ ComingNow(d[1], d[2])
  <2>1. d \in did \/ d[1] \in t.op.changes
    BY <1>1
  <2> QED BY <1>3, <1>4, <1>5, <2>1
<1>6. left \in BOOLEAN
  BY <1>1, Types
<1> QED BY <1>2, <1>5, <1>6, AccountedNow

\* What is shown has what was done, if it is new enough.
LEMMA ShownOrExcused ==
    ASSUME PagesInv, page' = page, NEW i \in Tasks, task[i].stage # "free", Show(task[i].got),
           NEW l \in Lists, NEW e, NEW n \in Nat, Since(l, e, n), n <= shown[l].at \/ \A k \in DOMAIN task[i].got : task[i].got[k].at >= n,
           l \in DOMAIN task[i].got
    PROVE  e \in shown'[l].edits \/ ExcusedNow(l)
<1> DEFINE got == task[i].got
<1>1. PagesTypeOK /\ got \in HeardBy(begun, clock)
  BY Parts, Types DEF TaskAt
<1>2. got[l].at \in Nat /\ shown[l].at \in Nat
  BY <1>1, HeardIs, Types DEF Known
<1>3. CASE focused /\ l \in Here.guarded
  BY <1>1, <1>3, ShowIs DEF ExcusedNow
<1>4. CASE ~(focused /\ l \in Here.guarded)
  <2>1. shown'[l].edits = got[l].edits /\ (got[l].at < shown[l].at => l \in stale'.crossed) /\ stale'.raced = stale.raced
    BY <1>1, <1>4, ShowIs
  <2>2. CASE got[l].at < shown[l].at /\ ~(got[l].at >= n)
    BY <2>1, <2>2 DEF ExcusedNow
  <2>3. CASE got[l].at >= n
    BY <2>1, <2>3 DEF Since, ExcusedNow
  <2> QED BY <1>2, <2>2, <2>3
<1> QED BY <1>3, <1>4

\* What is not heard of is as it was.
LEMMA NotShown ==
    ASSUME PagesInv, page' = page, NEW i \in Tasks, Show(task[i].got), NEW l \in Lists, l \notin DOMAIN task[i].got
    PROVE  shown'[l] = shown[l] /\ (Excused(l) => ExcusedNow(l))
<1>1. task[i].got \in HeardBy(begun, clock) /\ PagesTypeOK
  BY Parts, Types DEF TaskAt
<1>2. /\ shown'[l] = shown[l] /\ stale'.raced = stale.raced
      /\ l \in stale.missed => l \in stale'.missed
      /\ l \in stale.crossed => l \in stale'.crossed
  BY <1>1, ShowIs
<1> QED BY <1>2 DEF Excused, ExcusedNow

LEMMA WasDone ==
    ASSUME PagesInv, NEW d \in did
    PROVE  /\ d[1] \in Lists /\ shown[d[1]].at \in Nat /\ Since(d[1], d[2], shown[d[1]].at)
           /\ left \/ d[2] \in shown[d[1]].edits \/ Excused(d[1]) \/ Coming(d[1], d[2])
<1>1. d[1] \in Lists /\ shown[d[1]].at \in Nat
  BY Parts, Types DEF Known
<1>2. Since(d[1], d[2], shown[d[1]].at)
  BY Parts DEF UpToDate
<1> QED BY <1>1, <1>2, Parts DEF Accounted

LEMMA ReplacesAccounted ==
    ASSUME PagesInv, NEW i \in Tasks, Replaces(i)
    PROVE  Accounted'
<1> DEFINE t == task[i]
<1>1. /\ page' = page /\ left' = left /\ Show(t.got) /\ Told(i) /\ t.stage = "answered"
      /\ did' = did \cup (t.op.changes \X {t.edit}) /\ t.op.changes \subseteq Lists /\ t.at \in Nat
  BY ToldAlready DEF Replaces
<1>2. \A j \in Tasks : j # i => task'[j] = task[j]
  BY Parts, ReplacesTyped
<1>3. ASSUME ~left, NEW d \in did PROVE d[2] \in shown'[d[1]].edits \/ ExcusedNow(d[1]) \/ ComingNow(d[1], d[2])
  <2> DEFINE l == d[1]
             e == d[2]
             n == shown[l].at
  <2>1. l \in Lists /\ n \in Nat /\ Since(l, e, n) /\ (e \in shown[l].edits \/ Excused(l) \/ Coming(l, e))
    BY <1>3, WasDone
  <2>2. CASE l \in DOMAIN t.got
    BY <1>1, <2>1, <2>2, ShownOrExcused
  <2>3. CASE l \notin DOMAIN t.got
    <3>1. shown'[l] = shown[l] /\ (Excused(l) => ExcusedNow(l))
      BY <1>1, <2>1, <2>3, NotShown
    <3>2. Coming(l, e) => ComingNow(l, e)
      BY <1>1, <1>2, ComingStays
    <3> QED BY <2>1, <3>1, <3>2
  <2> QED BY <2>2, <2>3
<1>4. ASSUME NEW l \in t.op.changes PROVE t.edit \in shown'[l].edits \/ ExcusedNow(l)
  <2>1. l \in Lists /\ l \in DOMAIN t.got /\ \A k \in DOMAIN t.got : t.got[k].at = t.at
    BY <1>1, ReplacesHears
  <2>2. Since(l, t.edit, t.at)
    BY <1>1, Parts DEF MadeAt
  <2>3. \A k \in DOMAIN t.got : t.got[k].at >= t.at
    BY <1>1, <2>1
  <2> QED BY <1>1, <2>1, <2>2, <2>3, ShownOrExcused
<1>5. ASSUME ~left, NEW d \in did' PROVE d[2] \in shown'[d[1]].edits \/ ExcusedNow(d[1]) \/ ComingNow(d[1], d[2])
  <2>1. d \in did \/ (d[1] \in t.op.changes /\ d[2] = t.edit)
    BY <1>1
  <2> QED BY <1>3, <1>4, <1>5, <2>1
<1>6. left \in BOOLEAN
  BY Parts, Types
<1> QED BY <1>1, <1>5, <1>6, AccountedNow

LEMMA KeepsAccounted ==
    ASSUME PagesInv, NEW i \in Tasks, Keeps(i)
    PROVE  Accounted'
<1> DEFINE t == task[i]
<1>1. /\ page' = page /\ left' = left /\ Told(i) /\ t.stage = "answered"
      /\ did' = did \cup (t.op.changes \X {t.edit})
  BY ToldAlready DEF Keeps
<1>2. \A j \in Tasks : j # i => task'[j] = task[j]
  BY Parts, KeepsTyped
<1>3. /\ stale'.raced = stale.raced /\ stale'.missed = stale.missed /\ stale.crossed \subseteq stale'.crossed
      /\ \A l \in Lists : shown[l].edits \subseteq shown'[l].edits
      /\ \A l \in t.op.changes : t.edit \in shown'[l].edits \/ l \in stale'.crossed
  BY Parts, KeepsIs
<1>4. ASSUME ~left, NEW d \in did' PROVE d[2] \in shown'[d[1]].edits \/ ExcusedNow(d[1]) \/ ComingNow(d[1], d[2])
  <2>1. CASE d \in did
    <3>1. d[1] \in Lists /\ (d[2] \in shown[d[1]].edits \/ Excused(d[1]) \/ Coming(d[1], d[2]))
      BY <1>4, <2>1, WasDone
    <3>2. Coming(d[1], d[2]) => ComingNow(d[1], d[2])
      BY <1>1, <1>2, ComingStays
    <3>3. Excused(d[1]) => ExcusedNow(d[1])
      BY <1>3 DEF Excused, ExcusedNow
    <3> QED BY <1>3, <3>1, <3>2, <3>3
  <2>2. CASE d \notin did
    <3>1. d[1] \in t.op.changes /\ d[2] = t.edit
      BY <1>1, <1>4, <2>2
    <3> QED BY <1>3, <3>1 DEF ExcusedNow
  <2> QED BY <2>1, <2>2
<1>5. left \in BOOLEAN
  BY Parts, Types
<1> QED BY <1>1, <1>4, <1>5, AccountedNow

LEMMA ReadsAccounted ==
    ASSUME PagesInv, NEW i \in Tasks, NEW lists \in SUBSET Lists, Reads(i, lists)
    PROVE  Accounted'
<1> DEFINE t == task[i]
<1>1. /\ t.stage = "loading" /\ \A j \in Tasks : j # i => task'[j] = task[j]
      /\ task'[i].stage = "loading" /\ task'[i].loads = t.loads
      /\ DOMAIN task'[i].got = DOMAIN t.got \cup lists
      /\ \A l \in lists : task'[i].got[l].edits = truth[l]
      /\ \A l \in DOMAIN t.got : l \notin lists => task'[i].got[l] = t.got[l]
  BY Parts, ReadsTyped
<1>2. page' = page /\ left' = left /\ stale' = stale /\ did' = did /\ shown' = shown
  BY DEF Reads
<1>3. ASSUME ~left, NEW d \in did PROVE d[2] \in shown'[d[1]].edits \/ ExcusedNow(d[1]) \/ ComingNow(d[1], d[2])
  <2> DEFINE l == d[1]
             e == d[2]
  <2>1. /\ e \in shown[l].edits \/ Excused(l) \/ Coming(l, e)
        /\ e \in truth[l] \/ l \in stale.raced
    BY <1>3, WasDone DEF Since
  <2>2. Excused(l) => ExcusedNow(l)
    BY <1>2 DEF Excused, ExcusedNow
  <2>3. ASSUME Brings(t, l, e) PROVE ExcusedNow(l) \/ ComingNow(l, e)
    <3>1. CASE l \in stale.raced
      BY <1>2, <3>1 DEF ExcusedNow
    <3>2. CASE e \in truth[l]
      <4>1. l \in DOMAIN task'[i].got => e \in task'[i].got[l].edits \/ (l \in DOMAIN t.got /\ task'[i].got[l] = t.got[l])
        BY <1>1, <3>2
      <4>2. Brings(task'[i], l, e)
        BY <1>1, <2>3, <4>1 DEF Brings
      <4> QED BY <1>1, <4>2 DEF ComingNow
    <3> QED BY <2>1, <3>1, <3>2
  <2>4. Coming(l, e) => ComingNow(l, e) \/ Brings(t, l, e)
    BY <1>1, ComingStays
  <2> QED BY <1>2, <2>1, <2>2, <2>3, <2>4
<1>4. left \in BOOLEAN
  BY Parts, Types
<1> QED BY <1>2, <1>3, <1>4, AccountedNow

\* What was not of the first of its loads a handler still brings.
LEMMA RestBrings ==
    ASSUME PagesTypeOK, NEW t \in TaskAt(begun, clock), t.stage = "loading", t.loads # <<>>, NEW l, NEW e, Brings(t, l, e)
    PROVE  \/ l \in UNION Head(t.loads) /\ (l \in DOMAIN t.got => e \in t.got[l].edits)
           \/ Rest(t).stage = "loading" /\ Brings(Rest(t), l, e)
<1>1. PICK k \in 1 .. Len(t.loads) :
          l \in UNION (t.loads[k]) /\ (k = 1 /\ l \in DOMAIN t.got => e \in t.got[l].edits)
  BY DEF Brings
<1>2. CASE k = 1
  BY <1>1, <1>2, RestIs
<1>3. CASE k # 1
  <2>1. Len(t.loads) \in Nat
    <3>1. t.loads \in Seq(SUBSET SUBSET Lists)
      BY DEF TaskAt
    <3> QED BY <3>1, LenProperties
  <2>2. Len(t.loads) # 1 /\ k - 1 \in 1 .. Len(t.loads) - 1 /\ (k - 1) + 1 = k
    BY <1>3, <2>1
  <2>3. /\ Rest(t).stage = "loading" /\ Rest(t).got = NoAnswer /\ Len(Rest(t).loads) = Len(t.loads) - 1
        /\ Rest(t).loads[k - 1] = t.loads[(k - 1) + 1]
    BY <2>2, RestIs
  <2>4. k - 1 \in 1 .. Len(Rest(t).loads) /\ l \in UNION (Rest(t).loads[k - 1])
    BY <1>1, <2>2, <2>3
  <2> QED BY <2>3, <2>4, LoadTasks DEF Brings
<1> QED BY <1>2, <1>3

LEMMA LoadArrivesAccounted ==
    ASSUME PagesInv, NEW i \in Tasks, LoadArrives(i)
    PROVE  Accounted'
<1> DEFINE t == task[i]
<1>1. /\ PagesTypeOK /\ t \in TaskAt(begun, clock) /\ t.stage = "loading" /\ t.loads # <<>>
      /\ task'[i] = Rest(t) /\ \A j \in Tasks : j # i => Alike(task[j], task'[j])
  BY Parts, LoadArrivesTyped
<1>2. page' = page /\ left' = left /\ did' = did /\ Show(t.got) /\ DOMAIN t.got = UNION Head(t.loads)
  BY DEF LoadArrives
<1>3. ASSUME ~left, NEW d \in did PROVE d[2] \in shown'[d[1]].edits \/ ExcusedNow(d[1]) \/ ComingNow(d[1], d[2])
  <2> DEFINE l == d[1]
             e == d[2]
             n == shown[l].at
  <2>1. l \in Lists /\ n \in Nat /\ Since(l, e, n) /\ (e \in shown[l].edits \/ Excused(l) \/ Coming(l, e))
    BY <1>3, WasDone
  <2>2. CASE l \in DOMAIN t.got
    BY <1>1, <1>2, <2>1, <2>2, ShownOrExcused
  <2>3. CASE l \notin DOMAIN t.got
    <3>1. shown'[l] = shown[l] /\ (Excused(l) => ExcusedNow(l))
      BY <1>2, <2>1, <2>3, NotShown
    <3>2. Brings(t, l, e) => ComingNow(l, e)
      BY <1>1, <1>2, <2>3, RestBrings DEF ComingNow
    <3>3. Coming(l, e) => ComingNow(l, e)
      BY <1>1, <3>2, ComingStays
    <3> QED BY <2>1, <3>1, <3>3
  <2> QED BY <2>2, <2>3
<1>4. left \in BOOLEAN
  BY Parts, Types
<1> QED BY <1>2, <1>3, <1>4, AccountedNow

LEMMA LoadFailsAccounted ==
    ASSUME PagesInv, NEW i \in Tasks, LoadFails(i)
    PROVE  Accounted'
<1> DEFINE t == task[i]
<1>1. /\ PagesTypeOK /\ t \in TaskAt(begun, clock) /\ t.stage = "loading" /\ t.loads # <<>>
      /\ task'[i] = Rest(t) /\ \A j \in Tasks : j # i => task'[j] = task[j]
      /\ stale'.missed = stale.missed \cup UNION Head(t.loads)
      /\ stale'.crossed = stale.crossed /\ stale'.raced = stale.raced
  BY Parts, LoadFailsTyped
<1>2. page' = page /\ left' = left /\ did' = did /\ shown' = shown
  BY DEF LoadFails
<1>3. ASSUME ~left, NEW d \in did PROVE d[2] \in shown'[d[1]].edits \/ ExcusedNow(d[1]) \/ ComingNow(d[1], d[2])
  <2> DEFINE l == d[1]
             e == d[2]
  <2>1. e \in shown[l].edits \/ Excused(l) \/ Coming(l, e)
    BY <1>3, WasDone
  <2>2. Excused(l) => ExcusedNow(l)
    BY <1>1 DEF Excused, ExcusedNow
  <2>3. Brings(t, l, e) => ExcusedNow(l) \/ ComingNow(l, e)
    BY <1>1, RestBrings DEF ComingNow, ExcusedNow
  <2>4. Coming(l, e) => ComingNow(l, e) \/ Brings(t, l, e)
    BY <1>1, ComingStays
  <2> QED BY <1>2, <2>1, <2>2, <2>3, <2>4
<1>4. left \in BOOLEAN
  BY Parts, Types
<1> QED BY <1>2, <1>3, <1>4, AccountedNow

-----------------------------------------------------------------------------
(* The invariant, and what follows.                                        *)

LEMMA PagesStart == PagesInit => PagesInv
<1> SUFFICES ASSUME PagesInit PROVE PagesInv
  OBVIOUS
<1>1. begun = 0 /\ clock = 0 /\ did = {} /\ \A i \in Tasks : task[i] = NoTask
  BY DEF PagesInit
<1>2. PagesTypeOK
  <2>1. NoTask \in TaskAt(0, 0)
    BY NoLoad, Loads
  <2>2. task \in [Tasks -> TaskAt(begun, clock)]
    BY <1>1, <2>1 DEF PagesInit
  <2>3. [edits |-> {}, at |-> 0] \in Known(0, 0)
    BY DEF Known
  <2>4. shown \in [Lists -> Known(begun, clock)] /\ truth \in [Lists -> SUBSET (1..begun)]
    BY <1>1, <2>3 DEF PagesInit
  <2>5. begun \in 0..MaxEdits /\ clock \in 0..begun
    BY <1>1, EditsAreCounted
  <2>6. page \in PageNames /\ left \in BOOLEAN /\ focused \in BOOLEAN /\ drawn \subseteq Lists
        /\ did \subseteq Lists \X (1..begun) /\ stale \in Why
    BY DEF PagesInit, Why
  <2> QED BY <2>2, <2>4, <2>5, <2>6 DEF PagesTypeOK, Heard, Known, HeardBy, TaskAt, Why
<1>3. EditsServed
  <2>1. Sent = {}
    BY <1>1, LoadTasks DEF Sent
  <2> QED BY <1>1, <2>1, FS_EmptySet DEF EditsServed
<1>4. \A i \in Tasks : InHand(task[i]) /\ MadeAt(i)
  BY <1>1, FreeInHand, LoadTasks DEF MadeAt
<1> QED BY <1>1, <1>2, <1>3, <1>4 DEF PagesInv, UpToDate, Accounted

LEMMA PagesSteps == PagesInv /\ [PagesNext]_pagesVars => PagesInv'
<1> SUFFICES ASSUME PagesInv, [PagesNext]_pagesVars PROVE PagesInv'
  OBVIOUS
<1>1. ASSUME NEW i \in Tasks, NEW load \in Here.opens, Load(i, load) PROVE HeardInv' /\ Accounted'
  BY <1>1, LoadHeard, QuietlyAccounted
<1>2. ASSUME NEW i \in Tasks, NEW name \in DOMAIN Here.ops, Begin(i, name) PROVE HeardInv' /\ Accounted'
  BY <1>2, BeginHeard, QuietlyAccounted
<1>3. ASSUME NEW i \in Tasks, Serve(i) PROVE HeardInv' /\ Accounted'
  BY <1>3, ServeHeard, QuietlyAccounted
<1>4. ASSUME NEW i \in Tasks, Refused(i) PROVE HeardInv' /\ Accounted'
  BY <1>4, RefusedHeard, QuietlyAccounted
<1>5. ASSUME NEW i \in Tasks, Goes(i) PROVE HeardInv' /\ Accounted'
  BY <1>5, GoesHeard, GoesAccounted
<1>6. ASSUME NEW i \in Tasks, Replaces(i) PROVE HeardInv' /\ Accounted'
  BY <1>6, ReplacesHeard, ReplacesAccounted
<1>7. ASSUME NEW i \in Tasks, Keeps(i) PROVE HeardInv' /\ Accounted'
  BY <1>7, KeepsHeard, KeepsAccounted
<1>8. ASSUME NEW i \in Tasks, GoesElsewhere(i) PROVE HeardInv' /\ Accounted'
  <2>1. left' /\ page' = page
    BY <1>8 DEF GoesElsewhere
  <2> QED BY <1>8, <2>1, GoesElsewhereHeard, AccountedNow
<1>9. ASSUME NEW i \in Tasks, NEW lists \in SUBSET Lists, Reads(i, lists) PROVE HeardInv' /\ Accounted'
  BY <1>9, ReadsHeard, ReadsAccounted
<1>10. ASSUME NEW i \in Tasks, LoadArrives(i) PROVE HeardInv' /\ Accounted'
  BY <1>10, LoadArrivesHeard, LoadArrivesAccounted
<1>11. ASSUME NEW i \in Tasks, LoadFails(i) PROVE HeardInv' /\ Accounted'
  BY <1>11, LoadFailsHeard, LoadFailsAccounted
<1>12. ASSUME Blur \/ UNCHANGED pagesVars PROVE HeardInv' /\ Accounted'
  <2>1. /\ page' = page /\ left' = left /\ task' = task /\ truth' = truth /\ clock' = clock /\ shown' = shown
        /\ drawn' = drawn /\ did' = did /\ stale' = stale /\ begun' = begun
        /\ focused' = focused \/ focused' = FALSE
    BY <1>12 DEF Blur, pagesVars
  <2>2. PagesTypeOK'
    <3>1. PagesTypeOK /\ begun \in 0..MaxEdits /\ clock \in 0..begun
      BY Parts DEF PagesTypeOK
    <3>2. focused' \in BOOLEAN
      BY <2>1, <3>1, Types
    <3> QED BY <2>1, <3>1, <3>2, Types, TypeStep
  <2>3. EditsServed' /\ UpToDate' /\ Accounted' /\ (\A j \in Tasks : MadeAt(j))'
    BY <2>1, Parts DEF EditsServed, Sent, UpToDate, Since, MadeAt, Accounted, Excused, Coming, Brings, NotLoadedAgain
  <2>4. (\A j \in Tasks : InHand(task[j]))'
    BY <2>1, Parts, Hands
  <2> QED BY <2>2, <2>3, <2>4 DEF HeardInv
<1>13. HeardInv' /\ Accounted'
  BY <1>1, <1>2, <1>3, <1>4, <1>5, <1>6, <1>7, <1>8, <1>9, <1>10, <1>11, <1>12 DEF PagesNext
<1> QED BY <1>13 DEF PagesInv, HeardInv

LEMMA NothingIsComing == PagesInv => ShowsWhatItDid
<1> SUFFICES ASSUME PagesInv, Busy = {}, ~left, NEW d \in did
             PROVE  \/ d[2] \in shown[d[1]].edits
                    \/ d[1] \in stale.missed \cup stale.crossed \cup stale.raced
                    \/ <<page, d[1]>> \in NotLoadedAgain
  BY DEF ShowsWhatItDid
<1>1. \A i \in Tasks : task[i].stage = "free"
  BY DEF Busy, Free
<1>2. ~Coming(d[1], d[2])
  BY <1>1 DEF Coming
<1> QED BY <1>2, WasDone DEF Excused

\* Whatever a page was told was done can be seen on it once nothing is under
\* way, whichever handlers ran at once and whatever was answered when.
THEOREM PagesSafe == PagesInit /\ [][PagesNext]_pagesVars => [](PagesTypeOK /\ ShowsWhatItDid)
<1>1. PagesInv => PagesTypeOK /\ ShowsWhatItDid
  BY NothingIsComing, Parts
<1> QED BY <1>1, PagesStart, PagesSteps, PTL
================================================================================
