------------------------------ MODULE Catalogue ------------------------------
(***************************************************************************)
(* The control plane of the version 1 server: accounts, streams and their  *)
(* keys, restream destinations, channels and their background images, the  *)
(* configuration file they are kept in, and the publishers MediaMTX lets   *)
(* in on their account.                                                    *)
(*                                                                         *)
(* A request is two steps.  attachUser copies the account behind the       *)
(* session cookie to req.user; the handler runs once the body was read,    *)
(* against whatever the configuration has become, but with that copy.      *)
(* Handlers have no await between a check and what they change.            *)
(***************************************************************************)
EXTENDS Naturals, FiniteSets

CONSTANTS Users, StreamIds, Channels, Dests,   \* identifiers, never used twice
          Keys,          \* stream keys
          Kinds,         \* image types, by which a background file is named
          Requests,      \* requests that may be in progress at once (a bound)
          MaxQuota,      \* bound: quotas an administrator grants
          MaxOps,        \* bound: changes
          MaxMishaps,    \* bound: crashes and failed calls
          None           \* the absence of a value

ASSUME BoundsAssumption == {MaxQuota, MaxOps, MaxMishaps} \subseteq Nat

VARIABLES mem,           \* store.js `data`: the configuration in memory
          disk,          \* the configuration file
          writeQueued,   \* a flush is due
          requests,      \* requests[r]: req.user of a request whose body is awaited
          files,         \* background images: <<channel, kind>>
          kicks,         \* keys whose publisher kickPublisher is about to look for
          publisher,     \* publisher[k]: "no", "accepted" by the hook, or "listed"
          spent,         \* identifiers of what was deleted
          best,          \* best[u]: the largest quota u ever had
          missed,        \* keys whose publisher a kick did not find, or none was made
          unsaved,       \* the last flush failed
          hurt,          \* channels whose image a crash or a failed write may have lost
          ops, mishaps   \* counted for the bounds only

catalogueVars == <<mem, disk, writeQueued, requests, files, kicks, publisher,
                   spent, best, missed, unsaved, hurt, ops, mishaps>>

Roles == {"admin", "viewer", "streamer"}

StreamRecords == [key : Keys, on : BOOLEAN, owner : Users \cup {None}, self : BOOLEAN]
ChannelRecords == [owner : Users, streams : SUBSET StreamIds, image : Kinds \cup {None}]

ASSUME NoneAssumption ==
    None \notin StreamIds \cup Channels \cup Users \cup Roles \cup Kinds
                    \cup StreamRecords \cup ChannelRecords

\* crypto.randomUUID().
ASSUME StreamIdsAssumption == IsFiniteSet(StreamIds)

\* defaults() in store.js.
Fresh == [role    |-> [u \in Users |-> None],
          quota   |-> [u \in Users |-> 0],
          stream  |-> [s \in StreamIds |-> None],
          dest    |-> [d \in Dests |-> None],
          channel |-> [c \in Channels |-> None],
          home    |-> None]

Accounts(doc) == {u \in Users : doc.role[u] # None}
Admins(doc) == {u \in Users : doc.role[u] = "admin"}
Existing(doc) == {s \in StreamIds : doc.stream[s] # None}
KeysInUse(doc) == {doc.stream[s].key : s \in Existing(doc)}
Owned(doc, u) == {s \in Existing(doc) : doc.stream[s].owner = u}

\* What main() has in memory once the file was read: the first boot, and any
\* that finds no account, makes u an administrator.
Booted(doc, u) == IF Accounts(doc) = {} THEN [doc EXCEPT !.role[u] = "admin"] ELSE doc

CatalogueInit ==
    /\ disk = Fresh
    /\ \E u \in Users : mem = Booted(Fresh, u)
    /\ writeQueued = TRUE
    /\ requests = [r \in Requests |-> None]
    /\ files = {} /\ kicks = {} /\ spent = {} /\ missed = {} /\ hurt = {}
    /\ publisher = [k \in Keys |-> "no"]
    /\ best = [u \in Users |-> 0]
    /\ unsaved = FALSE
    /\ ops = 0 /\ mishaps = 0

Mishap == mishaps < MaxMishaps /\ mishaps' = mishaps + 1

-----------------------------------------------------------------------------
(* The configuration file.                                                 *)

Save_InMemoryOnly(doc) == mem' = doc /\ UNCHANGED writeQueued

\* update(): the change, and a flush on the next turn of the event loop.
Save(doc) == mem' = doc /\ writeQueued' = TRUE

Flush ==
    /\ writeQueued
    /\ writeQueued' = FALSE
    /\ disk' = mem
    /\ unsaved' = FALSE
    /\ UNCHANGED <<mem, requests, files, kicks, publisher, spent, best, missed, hurt, ops, mishaps>>

\* persist() throws, which is logged: the change stays in memory only.
FlushFails ==
    /\ writeQueued
    /\ Mishap
    /\ writeQueued' = FALSE
    /\ unsaved' = TRUE
    /\ UNCHANGED <<mem, disk, requests, files, kicks, publisher, spent, best, missed, hurt, ops>>

\* The server dies and comes back with what the file holds; rename is atomic.
\* MediaMTX and its publishers stay up.
Crash ==
    /\ Mishap
    /\ \E u \in Users \ spent : mem' = Booted(disk, u)
    /\ writeQueued' = (Accounts(disk) = {})
    /\ requests' = [r \in Requests |-> None]
    /\ kicks' = {}
    /\ missed' = {k \in Keys : publisher[k] # "no"}
    /\ hurt' = Channels
    /\ unsaved' = FALSE
    /\ UNCHANGED <<disk, files, publisher, spent, best, ops>>

-----------------------------------------------------------------------------
(* Requests.                                                               *)

Arrive_OnAnyCookie(r, u) ==
    /\ requests[r] = None
    /\ requests' = [requests EXCEPT ![r] = [id |-> u, role |-> mem.role[u], quota |-> mem.quota[u]]]
    /\ UNCHANGED <<mem, disk, writeQueued, files, kicks, publisher, spent, best,
                   missed, unsaved, hurt, ops, mishaps>>

\* attachUser: the account behind the cookie, if there still is one.
Arrive(r, u) ==
    /\ requests[r] = None
    /\ u \in Accounts(mem)
    /\ requests' = [requests EXCEPT ![r] = [id |-> u, role |-> mem.role[u], quota |-> mem.quota[u]]]
    /\ UNCHANGED <<mem, disk, writeQueued, files, kicks, publisher, spent, best,
                   missed, unsaved, hurt, ops, mishaps>>

\* A request is refused, or only reads.
Refuse(r) ==
    /\ requests[r] # None
    /\ requests' = [requests EXCEPT ![r] = None]
    /\ UNCHANGED <<mem, disk, writeQueued, files, kicks, publisher, spent, best,
                   missed, unsaved, hurt, ops, mishaps>>

\* A request that changes something.
Handle(r) ==
    /\ requests[r] # None
    /\ requests' = [requests EXCEPT ![r] = None]
    /\ ops < MaxOps
    /\ ops' = ops + 1
    /\ UNCHANGED <<disk, publisher, missed, unsaved>>

requireAdmin(r) == requests[r].role = "admin"
requireStreamerOrAdmin(r) == requests[r].role \in {"streamer", "admin"}

\* access.requireOwner: it looks at the thing as it is and at the user as copied.
requireOwner(r, owner) == requests[r].id = owner \/ requireAdmin(r)

Content == <<files, kicks, hurt, mishaps>>

-----------------------------------------------------------------------------
(* Accounts.                                                               *)

Grant(u, q) == best' = [best EXCEPT ![u] = IF q > @ THEN q ELSE @]

createUser(r, u, role, q) ==
    /\ Handle(r) /\ requireAdmin(r)
    /\ u \notin Accounts(mem) \cup spent
    /\ Save([mem EXCEPT !.role[u] = role, !.quota[u] = q])
    /\ Grant(u, q)
    /\ UNCHANGED <<spent, Content>>

LastAdmin_OffByOne(u) == mem.role[u] = "admin" /\ Cardinality(Admins(mem)) < 1

\* Whether taking the administrator's role from u would leave none.
LastAdmin(u) == mem.role[u] = "admin" /\ Cardinality(Admins(mem)) <= 1

\* PATCH /users/:id applies the role, then the password, then the quota.  When
\* the password is not accepted it stops there, having changed the role only.
patchUser(r, u, role, q) ==
    /\ Handle(r) /\ requireAdmin(r)
    /\ u \in Accounts(mem)
    /\ role # "admin" => ~LastAdmin(u)
    /\ Save([mem EXCEPT !.role[u] = role, !.quota[u] = q])
    /\ Grant(u, q)
    /\ UNCHANGED <<spent, Content>>

\* Streams, channels and grants of the account stay as they are.
deleteUser(r, u) ==
    /\ Handle(r) /\ requireAdmin(r)
    /\ u # requests[r].id
    /\ u \in Accounts(mem)
    /\ ~LastAdmin(u)
    /\ Save([mem EXCEPT !.role[u] = None, !.quota[u] = 0])
    /\ spent' = spent \cup {u}
    /\ UNCHANGED <<best, Content>>

-----------------------------------------------------------------------------
(* Streams.                                                                *)

AddStream(s, k, owner, on, self) ==
    /\ s \notin Existing(mem) \cup spent
    /\ k \notin KeysInUse(mem)
    /\ owner \in Accounts(mem) \cup {None}
    /\ Save([mem EXCEPT !.stream[s] = [key |-> k, on |-> on, owner |-> owner, self |-> self]])
    /\ UNCHANGED <<spent, best, Content>>

createStream(r, s, k, owner, on) ==
    Handle(r) /\ requireAdmin(r) /\ AddStream(s, k, owner, on, FALSE)

\* Streams of a self-service user that count against its quota.
CountedAgainst(r) == Cardinality(Owned(mem, requests[r].id))

createOwnStream_OffByOne(r, s, k) ==
    /\ Handle(r) /\ requireStreamerOrAdmin(r)
    /\ requireAdmin(r) \/ CountedAgainst(r) <= requests[r].quota
    /\ AddStream(s, k, requests[r].id, TRUE, ~requireAdmin(r))

createOwnStream(r, s, k) ==
    /\ Handle(r) /\ requireStreamerOrAdmin(r)
    /\ requireAdmin(r) \/ CountedAgainst(r) < requests[r].quota
    /\ AddStream(s, k, requests[r].id, TRUE, ~requireAdmin(r))

Retires_OnlyRotated(old, k, on) == IF k # old.key THEN {old.key} ELSE {}

\* The keys whose publisher a patch must disconnect.
Retires(old, k, on) == IF k # old.key \/ on = FALSE THEN {old.key} ELSE {}

\* on is None when the patch does not speak of it; k is the key it has when not
\* changed, or the generated one of rotateKey.
updateStream(r, s, k, on, owner) ==
    /\ Handle(r)
    /\ s \in Existing(mem)
    /\ LET old == mem.stream[s]
       IN /\ \/ requireAdmin(r)
             \/ /\ requireStreamerOrAdmin(r) /\ requireOwner(r, old.owner)
                /\ owner = old.owner
                /\ k = old.key \/ on = None
          /\ k \in {old.key} \cup (Keys \ KeysInUse(mem))
          /\ owner \in {old.owner, None} \cup Accounts(mem)
          /\ Save([mem EXCEPT !.stream[s] =
                     [key   |-> k,
                      on    |-> IF on = None THEN old.on ELSE on,
                      owner |-> owner,
                      self  |-> old.self /\ owner = old.owner]])
          /\ kicks' = kicks \cup Retires(old, k, on)
    /\ UNCHANGED <<spent, best, files, hurt, mishaps>>

Without_KeepingRelays(doc, s) ==
    [doc EXCEPT !.stream[s] = None,
                !.channel = [c \in Channels |->
                               IF doc.channel[c] = None THEN None
                               ELSE [doc.channel[c] EXCEPT !.streams = @ \ {s}]]]

\* The configuration without stream s: its destinations go with it, and the
\* channels that showed it do not any more.
Without(doc, s) ==
    [doc EXCEPT !.stream[s] = None,
                !.dest = [d \in Dests |-> IF doc.dest[d] = s THEN None ELSE doc.dest[d]],
                !.channel = [c \in Channels |->
                               IF doc.channel[c] = None THEN None
                               ELSE [doc.channel[c] EXCEPT !.streams = @ \ {s}]]]

removeStream(r, s) ==
    /\ Handle(r)
    /\ s \in Existing(mem)
    /\ requireStreamerOrAdmin(r) /\ requireOwner(r, mem.stream[s].owner)
    /\ Save(Without(mem, s))
    /\ kicks' = kicks \cup {mem.stream[s].key}
    /\ spent' = spent \cup {s}
    /\ UNCHANGED <<best, files, hurt, mishaps>>

-----------------------------------------------------------------------------
(* Destinations.  One is managed by whoever owns the stream it forwards.    *)

MayForward(r, s) == requireStreamerOrAdmin(r) /\ requireOwner(r, mem.stream[s].owner)

\* create(), and update() with another source.
forward(r, d, s) ==
    /\ Handle(r)
    /\ d \notin spent
    /\ s \in Existing(mem)
    /\ MayForward(r, s)
    /\ mem.dest[d] # None => MayForward(r, mem.dest[d])
    /\ Save([mem EXCEPT !.dest[d] = s])
    /\ UNCHANGED <<spent, best, Content>>

removeDest(r, d) ==
    /\ Handle(r)
    /\ mem.dest[d] # None
    /\ MayForward(r, mem.dest[d])
    /\ Save([mem EXCEPT !.dest[d] = None])
    /\ spent' = spent \cup {d}
    /\ UNCHANGED <<best, Content>>

-----------------------------------------------------------------------------
(* Channels.                                                               *)

\* cleanStreamIds: of the streams a request names, those that exist.
cleanStreamIds(S) == S \cap Existing(mem)

createChannel(r, c, owner, S) ==
    /\ Handle(r)
    /\ owner = requests[r].id \/ requireAdmin(r)
    /\ owner \in Accounts(mem)
    /\ c \notin spent /\ mem.channel[c] = None
    /\ Save([mem EXCEPT !.channel[c] =
               [owner |-> owner, streams |-> cleanStreamIds(S), image |-> None]])
    /\ UNCHANGED <<spent, best, Content>>

MayEdit(r, c) == mem.channel[c] # None /\ requireOwner(r, mem.channel[c].owner)

updateChannel(r, c, S) ==
    /\ Handle(r)
    /\ MayEdit(r, c)
    /\ Save([mem EXCEPT !.channel[c].streams = cleanStreamIds(S)])
    /\ UNCHANGED <<spent, best, Content>>

\* The file a channel's background is kept in, as a set of none or one.
ImageOf(doc, c) ==
    IF doc.channel[c] = None \/ doc.channel[c].image = None THEN {}
    ELSE {<<c, doc.channel[c].image>>}

setBackgroundImage_KeepsTheOld(r, c, kind) ==
    /\ Handle(r)
    /\ MayEdit(r, c)
    /\ files' = files \cup {<<c, kind>>}
    /\ Save([mem EXCEPT !.channel[c].image = kind])
    /\ UNCHANGED <<spent, best, kicks, hurt, mishaps>>

\* The old file is removed before the new one is written, and the channel is
\* told of it last: a write that fails leaves the channel with the old name.
setBackgroundImage(r, c, kind) ==
    /\ Handle(r)
    /\ MayEdit(r, c)
    /\ files' = (files \ ImageOf(mem, c)) \cup {<<c, kind>>}
    /\ Save([mem EXCEPT !.channel[c].image = kind])
    /\ UNCHANGED <<spent, best, kicks, hurt, mishaps>>

BackgroundNotWritten(r, c, kind) ==
    /\ Handle(r)
    /\ MayEdit(r, c)
    /\ Mishap
    /\ files' \in {files \ ImageOf(mem, c), (files \ ImageOf(mem, c)) \cup {<<c, kind>>}}
    /\ hurt' = hurt \cup {c}
    /\ UNCHANGED <<mem, writeQueued, spent, best, kicks>>

removeChannel(r, c) ==
    /\ Handle(r)
    /\ MayEdit(r, c)
    /\ files' = files \ ImageOf(mem, c)
    /\ Save([mem EXCEPT !.channel[c] = None, !.home = IF @ = c THEN None ELSE @])
    /\ spent' = spent \cup {c}
    /\ UNCHANGED <<best, kicks, hurt, mishaps>>

\* PUT and DELETE /channels/:id/homepage.
setHomepage(r, c) ==
    /\ Handle(r) /\ requireAdmin(r)
    /\ c # None => mem.channel[c] # None
    /\ Save([mem EXCEPT !.home = c])
    /\ UNCHANGED <<spent, best, Content>>

-----------------------------------------------------------------------------
(* Publishers, at MediaMTX.                                                *)

\* What the authentication hook answers to one who wants to publish on k.
Accepts(doc, k) == \E s \in Existing(doc) : doc.stream[s].key = k /\ doc.stream[s].on

Publishers == <<mem, disk, writeQueued, requests, files, spent, best, unsaved, hurt, ops>>

Connects(k) ==
    /\ publisher[k] = "no"
    /\ Accepts(mem, k)
    /\ publisher' = [publisher EXCEPT ![k] = "accepted"]
    /\ missed' = missed \ {k}
    /\ UNCHANGED <<kicks, mishaps, Publishers>>

\* Only now does the connection appear with its path in MediaMTX's lists.
Listed(k) ==
    /\ publisher[k] = "accepted"
    /\ publisher' = [publisher EXCEPT ![k] = "listed"]
    /\ UNCHANGED <<kicks, missed, mishaps, Publishers>>

Leaves(k) ==
    /\ publisher[k] # "no"
    /\ publisher' = [publisher EXCEPT ![k] = "no"]
    /\ missed' = missed \ {k}
    /\ UNCHANGED <<kicks, mishaps, Publishers>>

\* kickPublisher reads the lists and kicks what it finds.
Kick(k) ==
    /\ k \in kicks
    /\ kicks' = kicks \ {k}
    /\ publisher' = [publisher EXCEPT ![k] = IF @ = "listed" THEN "no" ELSE @]
    /\ missed' = IF publisher[k] = "accepted" THEN missed \cup {k} ELSE missed \ {k}
    /\ UNCHANGED <<mishaps, Publishers>>

\* MediaMTX does not answer, which is ignored.
KickFails(k) ==
    /\ k \in kicks
    /\ Mishap
    /\ kicks' = kicks \ {k}
    /\ missed' = IF publisher[k] = "no" THEN missed ELSE missed \cup {k}
    /\ UNCHANGED <<publisher, Publishers>>

-----------------------------------------------------------------------------
StoreNext == Flush \/ FlushFails \/ Crash

RequestNext ==
    \E r \in Requests :
        \/ \E u \in Users : Arrive(r, u)
        \/ Refuse(r)

AccountNext ==
    \E r \in Requests, u \in Users :
        \/ \E role \in Roles, q \in 0 .. MaxQuota : createUser(r, u, role, q) \/ patchUser(r, u, role, q)
        \/ deleteUser(r, u)

\* Streams as the owners of accounts make them.
SelfServiceNext ==
    \E r \in Requests, s \in StreamIds, k \in Keys :
        createOwnStream(r, s, k)

StreamNext ==
    \E r \in Requests, s \in StreamIds :
        \/ \E k \in Keys, u \in Users \cup {None}, on \in BOOLEAN : createStream(r, s, k, u, on)
        \/ \E k \in Keys, u \in Users \cup {None}, on \in BOOLEAN \cup {None} : updateStream(r, s, k, on, u)
        \/ removeStream(r, s)

DestNext ==
    \E r \in Requests, d \in Dests :
        \/ \E s \in StreamIds : forward(r, d, s)
        \/ removeDest(r, d)

ChannelNext ==
    \E r \in Requests, c \in Channels :
        \/ \E u \in Users, S \in SUBSET StreamIds : createChannel(r, c, u, S)
        \/ \E S \in SUBSET StreamIds : updateChannel(r, c, S)
        \/ \E kind \in Kinds : setBackgroundImage(r, c, kind) \/ BackgroundNotWritten(r, c, kind)
        \/ removeChannel(r, c)
        \/ setHomepage(r, c) \/ setHomepage(r, None)

PublisherNext ==
    \E k \in Keys : Connects(k) \/ Listed(k) \/ Leaves(k) \/ Kick(k) \/ KickFails(k)

CatalogueNext ==
    StoreNext \/ RequestNext \/ AccountNext \/ SelfServiceNext \/ StreamNext
        \/ DestNext \/ ChannelNext \/ PublisherNext

CatalogueSpec == CatalogueInit /\ [][CatalogueNext]_catalogueVars

-----------------------------------------------------------------------------
(* Properties.                                                             *)

Documents ==
    [role    : [Users -> Roles \cup {None}],
     quota   : [Users -> 0 .. MaxQuota],
     stream  : [StreamIds -> {None} \cup StreamRecords],
     dest    : [Dests -> StreamIds \cup {None}],
     channel : [Channels -> {None} \cup ChannelRecords],
     home    : Channels \cup {None}]

CatalogueTypeOK ==
    /\ mem \in Documents /\ disk \in Documents
    /\ {writeQueued, unsaved} \subseteq BOOLEAN
    /\ requests \in [Requests -> {None} \cup [id : Users, role : Roles, quota : 0 .. MaxQuota]]
    /\ files \subseteq Channels \X Kinds
    /\ kicks \subseteq Keys /\ missed \subseteq Keys
    /\ publisher \in [Keys -> {"no", "accepted", "listed"}]
    /\ spent \subseteq Users \cup StreamIds \cup Channels \cup Dests
    /\ best \in [Users -> 0 .. MaxQuota]
    /\ hurt \subseteq Channels
    /\ ops \in 0 .. MaxOps /\ mishaps \in 0 .. MaxMishaps

\* There is always an administrator, in memory and in the file a crash falls
\* back on, even when two of them demote or delete each other at once with
\* requests that were admitted before.
AdminRemains ==
    /\ Admins(mem) # {}
    /\ Accounts(disk) # {} => Admins(disk) # {}

\* A self-service account has no more streams of its own making than it was
\* ever granted, however many requests of one account are in progress.
QuotaHolds ==
    \A u \in Users :
        Cardinality({s \in Owned(mem, u) : mem.stream[s].self}) <= best[u]

\* Nothing refers to what is not there: destinations ("leaving them behind would
\* keep forwarding a key that has just been handed to somebody else",
\* streams.js), channels ("rather than leaving a dangling id") and the homepage
\* ("must not leave / redirecting nowhere", channels.js).  The file is as
\* consistent as the memory.
Sound(doc) ==
    /\ \A d \in Dests : doc.dest[d] # None => doc.dest[d] \in Existing(doc)
    /\ \A c \in Channels : doc.channel[c] # None => doc.channel[c].streams \subseteq Existing(doc)
    /\ doc.home # None => doc.channel[doc.home] # None
NothingDangles == Sound(mem) /\ Sound(disk)

\* "Rotating a key or disabling a stream must drop whoever is publishing now"
\* (streams.js).  Whoever publishes on a key that is no longer accepted is about
\* to be kicked, unless the kick came between the hook's answer and MediaMTX's
\* list, or could not be made.
RetiredPublishersDropped ==
    \A k \in Keys :
        publisher[k] # "no" /\ ~Accepts(mem, k) => k \in kicks \cup missed

\* The image files are those the channels name, as long as no write failed and
\* the server did not die between the file and the configuration.
ImagesMatch ==
    \A c \in Channels \ hurt : {f \in files : f[1] = c} = ImageOf(mem, c)

\* What is in memory and not in the file is about to be written, unless writing
\* it failed: no change is left out by the flush that several share.
NothingUnsaved == mem # disk => writeQueued \/ unsaved
=============================================================================
