------------------------- MODULE Catalogue_proofs --------------------------
(***************************************************************************)
(* Theorems about the control plane, for any number of accounts, streams,  *)
(* channels, destinations and requests, all of them changing at once: the  *)
(* runs look at a third of the operations at a time.                       *)
(*                                                                         *)
(* A document is good when it is well formed and nothing in it dangles.    *)
(* The argument is that every document a handler saves is good and has an  *)
(* administrator, whatever req.user says, and that the file only ever      *)
(* receives what was in memory.                                            *)
(*                                                                         *)
(* Publishers, images and quotas have invariants of their own: a key that  *)
(* is retired leaves a kick behind, a handler of one channel leaves the    *)
(* images of the others alone, and no document or copy of an account goes  *)
(* beyond the best quota it ever had.                                      *)
(***************************************************************************)
EXTENDS Catalogue, FiniteSetTheorems, TLAPS

USE DEF catalogueVars

Good(doc) == doc \in Documents /\ Sound(doc)

Copies == [id : Users, role : Roles, quota : 0 .. MaxQuota]

CatalogueInv ==
    /\ Good(mem) /\ Good(disk)
    /\ requests \in [Requests -> {None} \cup Copies]
    /\ AdminRemains
    /\ NothingUnsaved

----------------------------------------------------------------------------
(* Documents. *)

LEMMA FreshIsGood == Good(Fresh)
  <1>1. Fresh \in Documents
    BY BoundsAssumption DEF Fresh, Documents
  <1>2. Sound(Fresh)
    BY DEF Fresh, Sound, Existing
  <1>. QED  BY <1>1, <1>2 DEF Good

\* main() gives a configuration without accounts an administrator, and leaves
\* any other as it is.
LEMMA BootedIsGood ==
    ASSUME NEW doc, Good(doc), NEW u \in Users
    PROVE  /\ Good(Booted(doc, u))
           /\ Accounts(doc) = {} => Admins(Booted(doc, u)) # {}
           /\ Accounts(doc) # {} => Booted(doc, u) = doc
  <1>1. CASE Accounts(doc) = {}
    <2>. DEFINE new == [doc EXCEPT !.role[u] = "admin"]
    <2>1. Booted(doc, u) = new
      BY <1>1 DEF Booted
    <2>2. /\ new.role = [doc.role EXCEPT ![u] = "admin"]
          /\ new.quota = doc.quota /\ new.stream = doc.stream /\ new.dest = doc.dest
          /\ new.channel = doc.channel /\ new.home = doc.home
      BY DEF Good, Documents
    <2>3. new \in Documents
      BY DEF Good, Documents, Roles
    <2>4. Sound(new)
      BY <2>2 DEF Good, Sound, Existing
    <2>5. u \in Admins(new)
      BY <2>2 DEF Good, Documents, Admins
    <2>. QED  BY <1>1, <2>1, <2>3, <2>4, <2>5 DEF Good
  <1>2. CASE Accounts(doc) # {}
    BY <1>2 DEF Booted
  <1>. QED  BY <1>1, <1>2

\* A change of roles and quotas leaves the rest sound.
Regranted(doc, u, role, q) == [doc EXCEPT !.role[u] = role, !.quota[u] = q]

LEMMA RolesAreApart ==
    ASSUME NEW doc, Good(doc), NEW u \in Users, NEW role \in Roles \cup {None}, NEW q \in 0 .. MaxQuota
    PROVE  /\ Good(Regranted(doc, u, role, q))
           /\ Regranted(doc, u, role, q).role = [doc.role EXCEPT ![u] = role]
  <1>. DEFINE new == Regranted(doc, u, role, q)
  <1>1. /\ new.role = [doc.role EXCEPT ![u] = role]
        /\ new.stream = doc.stream /\ new.dest = doc.dest
        /\ new.channel = doc.channel /\ new.home = doc.home
    BY DEF Good, Documents, Regranted
  <1>2. new \in Documents
    BY DEF Good, Documents, Regranted
  <1>3. Sound(new)
    BY <1>1 DEF Good, Sound, Existing
  <1>. QED  BY <1>1, <1>2, <1>3 DEF Good

\* A stream that is added or changed takes nothing away.
LEMMA StreamIsPut ==
    ASSUME NEW doc, Good(doc), NEW s \in StreamIds, NEW rec \in StreamRecords
    PROVE  /\ Good([doc EXCEPT !.stream[s] = rec])
           /\ [doc EXCEPT !.stream[s] = rec].role = doc.role
  <1>. DEFINE new == [doc EXCEPT !.stream[s] = rec]
  <1>1. /\ new.stream = [doc.stream EXCEPT ![s] = rec]
        /\ new.role = doc.role /\ new.dest = doc.dest
        /\ new.channel = doc.channel /\ new.home = doc.home
    BY DEF Good, Documents
  <1>2. new \in Documents
    BY DEF Good, Documents
  <1>3. Existing(doc) \subseteq Existing(new)
    BY <1>1, NoneAssumption DEF Good, Documents, Existing
  <1>4. Sound(new)
    BY <1>1, <1>3 DEF Good, Sound
  <1>. QED  BY <1>1, <1>2, <1>4 DEF Good

\* What is removed with a stream is everything that refers to it.
LEMMA StreamIsRemoved ==
    ASSUME NEW doc, Good(doc), NEW s \in StreamIds
    PROVE  Good(Without(doc, s)) /\ Without(doc, s).role = doc.role
  <1>. DEFINE new == Without(doc, s)
              Kept(c) == IF doc.channel[c] = None THEN None
                         ELSE [doc.channel[c] EXCEPT !.streams = @ \ {s}]
  <1>1. /\ new.stream = [doc.stream EXCEPT ![s] = None]
        /\ new.dest = [d \in Dests |-> IF doc.dest[d] = s THEN None ELSE doc.dest[d]]
        /\ new.channel = [c \in Channels |-> Kept(c)]
        /\ new.role = doc.role /\ new.quota = doc.quota /\ new.home = doc.home
    BY DEF Good, Documents, Without
  <1>2. \A c \in Channels :
          /\ doc.channel[c] = None => Kept(c) = None
          /\ doc.channel[c] # None => /\ Kept(c) \in ChannelRecords
                                      /\ Kept(c).streams = doc.channel[c].streams \ {s}
    BY DEF Good, Documents, ChannelRecords
  <1>3. new \in Documents
    <2>1. new.channel \in [Channels -> {None} \cup ChannelRecords]
      BY <1>1, <1>2
    <2>2. new.dest \in [Dests -> StreamIds \cup {None}] /\ new.stream \in [StreamIds -> {None} \cup StreamRecords]
      BY <1>1 DEF Good, Documents
    <2>3. \A st \in [StreamIds -> {None} \cup StreamRecords], de \in [Dests -> StreamIds \cup {None}],
             ch \in [Channels -> {None} \cup ChannelRecords] :
             [doc EXCEPT !.stream = st, !.dest = de, !.channel = ch] \in Documents
      BY DEF Good, Documents
    <2>4. new = [doc EXCEPT !.stream = new.stream, !.dest = new.dest, !.channel = new.channel]
      BY <1>1 DEF Good, Documents, Without
    <2>. HIDE DEF new
    <2>5. [doc EXCEPT !.stream = new.stream, !.dest = new.dest, !.channel = new.channel] \in Documents
      BY <2>1, <2>2, <2>3
    <2>. QED  BY <2>4, <2>5
  <1>4. Existing(new) = Existing(doc) \ {s}
    BY <1>1 DEF Good, Documents, Existing
  <1>5. \A d \in Dests : new.dest[d] # None => new.dest[d] \in Existing(new)
    BY <1>1, <1>4 DEF Good, Sound
  <1>6. \A c \in Channels : new.channel[c] # None => new.channel[c].streams \subseteq Existing(new)
    BY <1>1, <1>2, <1>4 DEF Good, Sound
  <1>7. new.home # None => new.channel[new.home] # None
    <2>1. new.home # None => new.home \in Channels /\ doc.channel[new.home] # None
      BY <1>1 DEF Good, Documents, Sound
    <2>. QED  BY <1>1, <1>2, <2>1, NoneAssumption
  <1>. QED  BY <1>1, <1>3, <1>5, <1>6, <1>7 DEF Good, Sound

LEMMA DestinationIsSet ==
    ASSUME NEW doc, Good(doc), NEW d \in Dests, NEW s \in StreamIds \cup {None},
           s # None => s \in Existing(doc)
    PROVE  Good([doc EXCEPT !.dest[d] = s]) /\ [doc EXCEPT !.dest[d] = s].role = doc.role
  <1>. DEFINE new == [doc EXCEPT !.dest[d] = s]
  <1>1. /\ new.dest = [doc.dest EXCEPT ![d] = s]
        /\ new.role = doc.role /\ new.stream = doc.stream
        /\ new.channel = doc.channel /\ new.home = doc.home
    BY DEF Good, Documents
  <1>2. new \in Documents
    BY DEF Good, Documents
  <1>3. Existing(new) = Existing(doc)
    BY <1>1 DEF Existing
  <1>4. Sound(new)
    BY <1>1, <1>3 DEF Good, Documents, Sound
  <1>. QED  BY <1>1, <1>2, <1>4 DEF Good

LEMMA ChannelIsPut ==
    ASSUME NEW doc, Good(doc), NEW c \in Channels, NEW rec \in ChannelRecords,
           rec.streams \subseteq Existing(doc)
    PROVE  Good([doc EXCEPT !.channel[c] = rec]) /\ [doc EXCEPT !.channel[c] = rec].role = doc.role
  <1>. DEFINE new == [doc EXCEPT !.channel[c] = rec]
  <1>1. /\ new.channel = [doc.channel EXCEPT ![c] = rec]
        /\ new.role = doc.role /\ new.stream = doc.stream
        /\ new.dest = doc.dest /\ new.home = doc.home
    BY DEF Good, Documents
  <1>2. new \in Documents
    BY DEF Good, Documents
  <1>3. Existing(new) = Existing(doc)
    BY <1>1 DEF Existing
  <1>4. \A b \in Channels : new.channel[b] = IF b = c THEN rec ELSE doc.channel[b]
    BY <1>1 DEF Good, Documents
  <1>5. doc.home # None => doc.home \in Channels
    BY DEF Good, Documents
  <1>6. Sound(new)
    BY <1>1, <1>3, <1>4, <1>5, NoneAssumption DEF Good, Sound
  <1>. QED  BY <1>1, <1>2, <1>6 DEF Good

\* The homepage goes with its channel.
LEMMA ChannelIsRemoved ==
    ASSUME NEW doc, Good(doc), NEW c \in Channels
    PROVE  LET new == [doc EXCEPT !.channel[c] = None, !.home = IF @ = c THEN None ELSE @]
           IN  Good(new) /\ new.role = doc.role
  <1>. DEFINE new == [doc EXCEPT !.channel[c] = None, !.home = IF @ = c THEN None ELSE @]
  <1>1. /\ new.channel = [doc.channel EXCEPT ![c] = None]
        /\ new.home = IF doc.home = c THEN None ELSE doc.home
        /\ new.role = doc.role /\ new.stream = doc.stream /\ new.dest = doc.dest
    BY DEF Good, Documents
  <1>2. new \in Documents
    BY DEF Good, Documents
  <1>3. Existing(new) = Existing(doc)
    BY <1>1 DEF Existing
  <1>4. \A b \in Channels : new.channel[b] = IF b = c THEN None ELSE doc.channel[b]
    BY <1>1 DEF Good, Documents
  <1>5. doc.home # None => doc.home \in Channels
    BY DEF Good, Documents
  <1>6. Sound(new)
    BY <1>1, <1>3, <1>4, <1>5 DEF Good, Sound
  <1>. QED  BY <1>1, <1>2, <1>6 DEF Good

LEMMA HomepageIsSet ==
    ASSUME NEW doc, Good(doc), NEW c \in Channels \cup {None}, c # None => doc.channel[c] # None
    PROVE  Good([doc EXCEPT !.home = c]) /\ [doc EXCEPT !.home = c].role = doc.role
  <1>. DEFINE new == [doc EXCEPT !.home = c]
  <1>1. /\ new.home = c /\ new.channel = doc.channel
        /\ new.role = doc.role /\ new.stream = doc.stream /\ new.dest = doc.dest
    BY DEF Good, Documents
  <1>2. new \in Documents
    BY DEF Good, Documents
  <1>3. Existing(new) = Existing(doc)
    BY <1>1 DEF Existing
  <1>4. Sound(new)
    BY <1>1, <1>3 DEF Good, Sound
  <1>. QED  BY <1>1, <1>2, <1>4 DEF Good

----------------------------------------------------------------------------
(* Handlers. *)

\* A handler that saves a good document with an administrator.
LEMMA HandledKeeps ==
    ASSUME CatalogueInv, NEW r \in Requests, Handle(r), NEW doc, Save(doc),
           Good(doc), Admins(doc) # {}
    PROVE  CatalogueInv'
  <1>1. mem' = doc /\ disk' = disk /\ writeQueued'
    BY DEF Handle, Save
  <1>2. Good(mem)' /\ Good(disk)'
    BY <1>1 DEF CatalogueInv, Good, Documents, Sound, Existing
  <1>3. AdminRemains'
    BY <1>1 DEF CatalogueInv, AdminRemains, Admins, Accounts
  <1>4. requests' \in [Requests -> {None} \cup Copies]
    BY DEF CatalogueInv, Handle
  <1>. QED  BY <1>1, <1>2, <1>3, <1>4 DEF CatalogueInv, NothingUnsaved

\* Most handlers leave the accounts alone.
LEMMA ContentKeeps ==
    ASSUME CatalogueInv, NEW r \in Requests, Handle(r), NEW doc, Save(doc),
           Good(doc), doc.role = mem.role
    PROVE  CatalogueInv'
  <1>1. Admins(doc) = Admins(mem)
    BY DEF Admins
  <1>. QED  BY <1>1, HandledKeeps DEF CatalogueInv, AdminRemains

LEMMA CreateUserKeeps ==
    ASSUME CatalogueInv, NEW r \in Requests, NEW u \in Users, NEW role \in Roles,
           NEW q \in 0 .. MaxQuota, createUser(r, u, role, q)
    PROVE  CatalogueInv'
  <1>. DEFINE new == Regranted(mem, u, role, q)
  <1>1. Good(new) /\ new.role = [mem.role EXCEPT ![u] = role]
    <2>1. Good(mem) /\ role \in Roles \cup {None}
      BY DEF CatalogueInv
    <2>. QED  BY <2>1, RolesAreApart
  <1>2. PICK a \in Users : mem.role[a] = "admin"
    BY DEF CatalogueInv, AdminRemains, Admins
  <1>3. a # u
    BY <1>2, NoneAssumption DEF createUser, Accounts, Roles
  <1>4. a \in Admins(new)
    BY <1>1, <1>2, <1>3 DEF Admins, CatalogueInv, Good, Documents
  <1>. QED  BY <1>1, <1>4, HandledKeeps DEF createUser, Regranted

\* A change that is not of the last administrator leaves one.
LEMMA AnotherAdmin ==
    ASSUME CatalogueInv, NEW u \in Users, ~LastAdmin(u)
    PROVE  \E a \in Users \ {u} : mem.role[a] = "admin"
  <1>1. PICK a \in Users : mem.role[a] = "admin"
    BY DEF CatalogueInv, AdminRemains, Admins
  <1>. SUFFICES ASSUME \A b \in Users \ {u} : mem.role[b] # "admin" PROVE FALSE
    OBVIOUS
  <1>2. a = u /\ Admins(mem) = {u}
    BY <1>1 DEF Admins
  <1>3. Cardinality(Admins(mem)) = 1
    BY <1>2, FS_Singleton
  <1>. QED  BY <1>1, <1>2, <1>3 DEF LastAdmin

LEMMA PatchUserKeeps ==
    ASSUME CatalogueInv, NEW r \in Requests, NEW u \in Users, NEW role \in Roles,
           NEW q \in 0 .. MaxQuota, patchUser(r, u, role, q)
    PROVE  CatalogueInv'
  <1>. DEFINE new == Regranted(mem, u, role, q)
  <1>1. Good(new) /\ new.role = [mem.role EXCEPT ![u] = role]
    <2>1. Good(mem) /\ role \in Roles \cup {None}
      BY DEF CatalogueInv
    <2>. QED  BY <2>1, RolesAreApart
  <1>2. Admins(new) # {}
    <2>1. CASE role = "admin"
      BY <2>1, <1>1 DEF Admins, CatalogueInv, Good, Documents
    <2>2. CASE role # "admin"
      BY <2>2, <1>1, AnotherAdmin DEF patchUser, Admins, CatalogueInv, Good, Documents
    <2>. QED  BY <2>1, <2>2
  <1>. QED  BY <1>1, <1>2, HandledKeeps DEF patchUser, Regranted

LEMMA DeleteUserKeeps ==
    ASSUME CatalogueInv, NEW r \in Requests, NEW u \in Users, deleteUser(r, u)
    PROVE  CatalogueInv'
  <1>. DEFINE new == Regranted(mem, u, None, 0)
  <1>1. Good(new) /\ new.role = [mem.role EXCEPT ![u] = None]
    <2>1. Good(mem) /\ 0 \in 0 .. MaxQuota /\ None \in Roles \cup {None}
      BY BoundsAssumption DEF CatalogueInv
    <2>. QED  BY <2>1, RolesAreApart
  <1>2. Admins(new) # {}
    BY <1>1, AnotherAdmin DEF deleteUser, Admins, CatalogueInv, Good, Documents
  <1>. QED  BY <1>1, <1>2, HandledKeeps DEF deleteUser, Regranted

LEMMA AddStreamKeeps ==
    ASSUME CatalogueInv, NEW r \in Requests, Handle(r), NEW s \in StreamIds, NEW k \in Keys,
           NEW owner \in Users \cup {None}, NEW on \in BOOLEAN, NEW self \in BOOLEAN,
           AddStream(s, k, owner, on, self)
    PROVE  CatalogueInv'
  <1>. DEFINE rec == [key |-> k, on |-> on, owner |-> owner, self |-> self]
  <1>1. rec \in StreamRecords
    BY DEF StreamRecords
  <1>. QED  BY <1>1, StreamIsPut, ContentKeeps DEF AddStream, CatalogueInv

LEMMA UpdateStreamKeeps ==
    ASSUME CatalogueInv, NEW r \in Requests, NEW s \in StreamIds, NEW k \in Keys,
           NEW on \in BOOLEAN \cup {None}, NEW owner \in Users \cup {None},
           updateStream(r, s, k, on, owner)
    PROVE  CatalogueInv'
  <1>. DEFINE old == mem.stream[s]
              open == IF on = None THEN old.on ELSE on
              self == old.self /\ owner = old.owner
              rec == [key |-> k, on |-> open, owner |-> owner, self |-> self]
  <1>1. old \in StreamRecords
    BY DEF updateStream, Existing, CatalogueInv, Good, Documents
  <1>2. open \in BOOLEAN /\ self \in BOOLEAN
    BY <1>1 DEF StreamRecords
  <1>3. rec \in StreamRecords
    BY <1>2 DEF StreamRecords
  <1>4. Handle(r) /\ Save([mem EXCEPT !.stream[s] = rec])
    BY DEF updateStream
  <1>. QED  BY <1>3, <1>4, StreamIsPut, ContentKeeps DEF CatalogueInv

\* The account that is copied is one that exists.
LEMMA ArriveKeeps ==
    ASSUME CatalogueInv, NEW r \in Requests, NEW u \in Users, Arrive(r, u)
    PROVE  requests' \in [Requests -> {None} \cup Copies]
  <1>1. mem.role[u] \in Roles /\ mem.quota[u] \in 0 .. MaxQuota
    BY DEF Arrive, Accounts, CatalogueInv, Good, Documents
  <1>2. [id |-> u, role |-> mem.role[u], quota |-> mem.quota[u]] \in Copies
    BY <1>1 DEF Copies
  <1>. QED  BY <1>2 DEF Arrive, CatalogueInv

\* What neither the configuration nor its file is touched by.
LEMMA DocumentsRest ==
    ASSUME CatalogueInv, UNCHANGED <<mem, disk, writeQueued, unsaved>>,
           requests' \in [Requests -> {None} \cup Copies]
    PROVE  CatalogueInv'
  <1>1. Good(mem)' /\ Good(disk)'
    BY DEF CatalogueInv, Good, Documents, Sound, Existing
  <1>2. AdminRemains' /\ NothingUnsaved'
    BY DEF CatalogueInv, AdminRemains, NothingUnsaved, Admins, Accounts
  <1>. QED  BY <1>1, <1>2 DEF CatalogueInv

LEMMA StoreKeeps == ASSUME CatalogueInv, StoreNext PROVE CatalogueInv'
  <1>1. CASE Flush
    <2>1. disk' = mem /\ mem' = mem /\ requests' = requests
      BY <1>1 DEF Flush
    <2>2. Good(mem)' /\ Good(disk)'
      BY <2>1 DEF CatalogueInv, Good, Documents, Sound, Existing
    <2>3. AdminRemains'
      BY <2>1 DEF CatalogueInv, AdminRemains, Admins, Accounts
    <2>. QED  BY <2>1, <2>2, <2>3 DEF CatalogueInv, NothingUnsaved
  <1>2. CASE FlushFails
    <2>1. UNCHANGED <<mem, disk, requests>> /\ unsaved'
      BY <1>2 DEF FlushFails
    <2>2. Good(mem)' /\ Good(disk)'
      BY <2>1 DEF CatalogueInv, Good, Documents, Sound, Existing
    <2>3. AdminRemains'
      BY <2>1 DEF CatalogueInv, AdminRemains, Admins, Accounts
    <2>. QED  BY <2>1, <2>2, <2>3 DEF CatalogueInv, NothingUnsaved
  <1>3. CASE Crash
    <2>1. PICK u \in Users : mem' = Booted(disk, u)
      BY <1>3 DEF Crash
    <2>2. /\ Good(Booted(disk, u))
          /\ Accounts(disk) = {} => Admins(Booted(disk, u)) # {}
          /\ Accounts(disk) # {} => Booted(disk, u) = disk
      BY BootedIsGood DEF CatalogueInv
    <2>3. disk' = disk /\ (Accounts(disk) = {} => writeQueued')
          /\ requests' = [r \in Requests |-> None]
      BY <1>3 DEF Crash
    <2>4. Admins(Booted(disk, u)) # {}
      BY <2>2 DEF CatalogueInv, AdminRemains
    <2>5. Good(mem)' /\ Good(disk)'
      BY <2>1, <2>2, <2>3 DEF CatalogueInv, Good, Documents, Sound, Existing
    <2>6. AdminRemains'
      BY <2>1, <2>3, <2>4 DEF CatalogueInv, AdminRemains, Admins, Accounts
    <2>7. NothingUnsaved'
      BY <2>1, <2>2, <2>3 DEF NothingUnsaved
    <2>. QED  BY <2>3, <2>5, <2>6, <2>7 DEF CatalogueInv
  <1>. QED  BY <1>1, <1>2, <1>3 DEF StoreNext

LEMMA StreamsKeep ==
    ASSUME CatalogueInv, NEW r \in Requests, NEW s \in StreamIds, NEW k \in Keys
    PROVE  /\ createOwnStream(r, s, k) => CatalogueInv'
           /\ \A u \in Users \cup {None}, on \in BOOLEAN : createStream(r, s, k, u, on) => CatalogueInv'
           /\ removeStream(r, s) => CatalogueInv'
  <1>1. ASSUME createOwnStream(r, s, k) PROVE CatalogueInv'
    <2>1. requests[r] \in Copies
      BY <1>1 DEF createOwnStream, Handle, CatalogueInv
    <2>2. requests[r].id \in Users \cup {None} /\ (~requireAdmin(r)) \in BOOLEAN
      BY <2>1 DEF Copies, requireAdmin
    <2>. QED  BY <1>1, <2>2, AddStreamKeeps DEF createOwnStream
  <1>2. ASSUME NEW u \in Users \cup {None}, NEW on \in BOOLEAN, createStream(r, s, k, u, on)
        PROVE  CatalogueInv'
    BY <1>2, AddStreamKeeps DEF createStream
  <1>3. ASSUME removeStream(r, s) PROVE CatalogueInv'
    <2>1. Good(mem)
      BY DEF CatalogueInv
    <2>. QED  BY <1>3, <2>1, StreamIsRemoved, ContentKeeps DEF removeStream
  <1>. QED  BY <1>1, <1>2, <1>3

LEMMA DestinationsKeep ==
    ASSUME CatalogueInv, NEW r \in Requests, NEW d \in Dests
    PROVE  /\ \A s \in StreamIds : forward(r, d, s) => CatalogueInv'
           /\ removeDest(r, d) => CatalogueInv'
  <1>0. Good(mem)
    BY DEF CatalogueInv
  <1>1. ASSUME NEW s \in StreamIds, forward(r, d, s) PROVE CatalogueInv'
    <2>1. Good([mem EXCEPT !.dest[d] = s]) /\ [mem EXCEPT !.dest[d] = s].role = mem.role
      BY <1>0, <1>1, DestinationIsSet DEF forward
    <2>. QED  BY <1>1, <2>1, ContentKeeps DEF forward
  <1>2. ASSUME removeDest(r, d) PROVE CatalogueInv'
    <2>1. Good([mem EXCEPT !.dest[d] = None]) /\ [mem EXCEPT !.dest[d] = None].role = mem.role
      BY <1>0, DestinationIsSet
    <2>. QED  BY <1>2, <2>1, ContentKeeps DEF removeDest
  <1>. QED  BY <1>1, <1>2

LEMMA ChannelsKeep ==
    ASSUME CatalogueInv, NEW r \in Requests, NEW c \in Channels
    PROVE  /\ \A u \in Users, S \in SUBSET StreamIds : createChannel(r, c, u, S) => CatalogueInv'
           /\ \A S \in SUBSET StreamIds : updateChannel(r, c, S) => CatalogueInv'
           /\ \A kind \in Kinds : setBackgroundImage(r, c, kind) \/ BackgroundNotWritten(r, c, kind)
                                    => CatalogueInv'
           /\ removeChannel(r, c) => CatalogueInv'
           /\ \A h \in {c, None} : setHomepage(r, h) => CatalogueInv'
  <1>0. Good(mem) /\ \A S : cleanStreamIds(S) \subseteq Existing(mem)
    BY DEF CatalogueInv, cleanStreamIds
  <1>a. MayEdit(r, c) => /\ mem.channel[c] \in ChannelRecords
                         /\ mem.channel[c].streams \subseteq Existing(mem)
    BY <1>0 DEF MayEdit, Good, Documents, Sound
  <1>b. Existing(mem) \subseteq StreamIds
    BY DEF Existing
  <1>1. ASSUME NEW u \in Users, NEW S \in SUBSET StreamIds, createChannel(r, c, u, S)
        PROVE  CatalogueInv'
    <2>. DEFINE rec == [owner |-> u, streams |-> cleanStreamIds(S), image |-> None]
    <2>1. rec \in ChannelRecords /\ rec.streams \subseteq Existing(mem)
      BY <1>0, <1>b DEF ChannelRecords
    <2>2. Handle(r) /\ Save([mem EXCEPT !.channel[c] = rec])
      BY <1>1 DEF createChannel
    <2>. HIDE DEF rec
    <2>. QED  BY <1>0, <2>1, <2>2, ChannelIsPut, ContentKeeps
  <1>2. ASSUME NEW S \in SUBSET StreamIds, updateChannel(r, c, S) PROVE CatalogueInv'
    <2>. DEFINE rec == [mem.channel[c] EXCEPT !.streams = cleanStreamIds(S)]
    <2>1. rec \in ChannelRecords /\ rec.streams \subseteq Existing(mem)
      BY <1>0, <1>2, <1>a, <1>b DEF updateChannel, ChannelRecords
    <2>2. Handle(r) /\ Save([mem EXCEPT !.channel[c] = rec])
      BY <1>2 DEF updateChannel
    <2>. HIDE DEF rec
    <2>. QED  BY <1>0, <2>1, <2>2, ChannelIsPut, ContentKeeps
  <1>3. ASSUME NEW kind \in Kinds, setBackgroundImage(r, c, kind) PROVE CatalogueInv'
    <2>. DEFINE rec == [mem.channel[c] EXCEPT !.image = kind]
    <2>1. rec \in ChannelRecords /\ rec.streams \subseteq Existing(mem)
      BY <1>3, <1>a DEF setBackgroundImage, ChannelRecords
    <2>2. Handle(r) /\ Save([mem EXCEPT !.channel[c] = rec])
      BY <1>3 DEF setBackgroundImage
    <2>. HIDE DEF rec
    <2>. QED  BY <1>0, <2>1, <2>2, ChannelIsPut, ContentKeeps
  <1>4. ASSUME NEW kind \in Kinds, BackgroundNotWritten(r, c, kind) PROVE CatalogueInv'
    <2>1. requests' \in [Requests -> {None} \cup Copies]
      BY <1>4 DEF BackgroundNotWritten, Handle, CatalogueInv
    <2>. QED  BY <1>4, <2>1, DocumentsRest DEF BackgroundNotWritten, Handle
  <1>5. ASSUME removeChannel(r, c) PROVE CatalogueInv'
    <2>. DEFINE new == [mem EXCEPT !.channel[c] = None, !.home = IF @ = c THEN None ELSE @]
    <2>1. Good(new) /\ new.role = mem.role
      BY <1>0, ChannelIsRemoved
    <2>2. Handle(r) /\ Save(new)
      BY <1>5 DEF removeChannel
    <2>. HIDE DEF new
    <2>. QED  BY <2>1, <2>2, ContentKeeps
  <1>6. ASSUME NEW h \in {c, None}, setHomepage(r, h) PROVE CatalogueInv'
    <2>1. Good([mem EXCEPT !.home = h]) /\ [mem EXCEPT !.home = h].role = mem.role
      BY <1>0, <1>6, HomepageIsSet DEF setHomepage
    <2>. QED  BY <1>6, <2>1, ContentKeeps DEF setHomepage
  <1>. QED  BY <1>1, <1>2, <1>3, <1>4, <1>5, <1>6

LEMMA PublishersRest == ASSUME CatalogueInv, PublisherNext PROVE CatalogueInv'
  <1>1. UNCHANGED <<mem, disk, writeQueued, unsaved, requests>>
    BY DEF PublisherNext, Connects, Listed, Leaves, Kick, KickFails, Publishers
  <1>. QED  BY <1>1, DocumentsRest DEF CatalogueInv

----------------------------------------------------------------------------
LEMMA CatalogueInitially == CatalogueInit => CatalogueInv
  <1>. SUFFICES ASSUME CatalogueInit PROVE CatalogueInv
    OBVIOUS
  <1>1. PICK u \in Users : mem = Booted(Fresh, u)
    BY DEF CatalogueInit
  <1>2. Accounts(Fresh) = {}
    BY DEF Accounts, Fresh
  <1>3. Good(mem) /\ Admins(mem) # {}
    BY <1>1, <1>2, BootedIsGood, FreshIsGood
  <1>4. Good(disk) /\ Accounts(disk) = {}
    BY <1>2, FreshIsGood DEF CatalogueInit
  <1>. QED  BY <1>3, <1>4 DEF CatalogueInit, CatalogueInv, AdminRemains, NothingUnsaved

LEMMA CatalogueSteps == CatalogueInv /\ [CatalogueNext]_catalogueVars => CatalogueInv'
  <1>. SUFFICES ASSUME CatalogueInv, [CatalogueNext]_catalogueVars PROVE CatalogueInv'
    OBVIOUS
  <1>1. CASE StoreNext
    BY <1>1, StoreKeeps
  <1>2. CASE RequestNext
    <2>1. requests' \in [Requests -> {None} \cup Copies]
      BY <1>2, ArriveKeeps DEF RequestNext, Refuse, CatalogueInv
    <2>. QED  BY <1>2, <2>1, DocumentsRest DEF RequestNext, Arrive, Refuse
  <1>3. CASE AccountNext
    BY <1>3, CreateUserKeeps, PatchUserKeeps, DeleteUserKeeps DEF AccountNext
  <1>4. CASE SelfServiceNext
    BY <1>4, StreamsKeep DEF SelfServiceNext
  <1>5. CASE StreamNext
    <2>1. PICK r \in Requests, s \in StreamIds :
            \/ \E k \in Keys, u \in Users \cup {None}, on \in BOOLEAN : createStream(r, s, k, u, on)
            \/ \E k \in Keys, u \in Users \cup {None}, on \in BOOLEAN \cup {None} :
                  updateStream(r, s, k, on, u)
            \/ removeStream(r, s)
      BY <1>5 DEF StreamNext
    <2>2. ASSUME NEW k \in Keys, NEW u \in Users \cup {None}, NEW on \in BOOLEAN,
                 createStream(r, s, k, u, on)
          PROVE  CatalogueInv'
      BY <2>2, StreamsKeep
    <2>3. ASSUME removeStream(r, s) PROVE CatalogueInv'
      <3>1. Good(mem)
        BY DEF CatalogueInv
      <3>. QED  BY <2>3, <3>1, StreamIsRemoved, ContentKeeps DEF removeStream
    <2>. QED  BY <2>1, <2>2, <2>3, UpdateStreamKeeps
  <1>6. CASE DestNext
    BY <1>6, DestinationsKeep DEF DestNext
  <1>7. CASE ChannelNext
    BY <1>7, ChannelsKeep DEF ChannelNext
  <1>8. CASE PublisherNext
    BY <1>8, PublishersRest
  <1>9. CASE UNCHANGED catalogueVars
    BY <1>9, DocumentsRest DEF CatalogueInv
  <1>. QED
    BY <1>1, <1>2, <1>3, <1>4, <1>5, <1>6, <1>7, <1>8, <1>9 DEF CatalogueNext

THEOREM CatalogueInvariant == CatalogueSpec => []CatalogueInv
  BY CatalogueInitially, CatalogueSteps, PTL DEF CatalogueSpec

\* routes/admin.js: there is always an administrator, also in the file, although
\* every check is made for a user copied to the request before its body was read.
THEOREM AnAdminRemains == CatalogueSpec => []AdminRemains
  <1>1. CatalogueInv => AdminRemains
    BY DEF CatalogueInv
  <1>. QED  BY <1>1, CatalogueInvariant, PTL

\* streams.js, channels.js: neither in memory nor in the file does a destination,
\* a channel or the homepage refer to what is not there.
THEOREM NothingIsDangling == CatalogueSpec => []NothingDangles
  <1>1. CatalogueInv => NothingDangles
    BY DEF CatalogueInv, Good, NothingDangles
  <1>. QED  BY <1>1, CatalogueInvariant, PTL

\* store.js: one flush for several changes leaves none of them out of the file.
THEOREM EveryChangeIsWritten == CatalogueSpec => []NothingUnsaved
  <1>1. CatalogueInv => NothingUnsaved
    BY DEF CatalogueInv
  <1>. QED  BY <1>1, CatalogueInvariant, PTL

----------------------------------------------------------------------------
(* What each group of handlers leaves alone. *)

LEMMA AccountsOnly ==
    ASSUME CatalogueInv, AccountNext
    PROVE  /\ mem'.stream = mem.stream /\ mem'.channel = mem.channel
           /\ UNCHANGED <<files, hurt, kicks, publisher, missed>>
  <1>1. PICK r \in Requests, u \in Users :
          \/ \E role \in Roles, q \in 0 .. MaxQuota : createUser(r, u, role, q) \/ patchUser(r, u, role, q)
          \/ deleteUser(r, u)
    BY DEF AccountNext
  <1>2. Handle(r) /\ UNCHANGED Content
    BY <1>1 DEF createUser, patchUser, deleteUser
  <1>3. mem'.stream = mem.stream /\ mem'.channel = mem.channel
    BY <1>1 DEF CatalogueInv, Good, Documents, createUser, patchUser, deleteUser, Save
  <1>. QED  BY <1>2, <1>3 DEF Handle, Content

LEMMA DestinationsOnly ==
    ASSUME CatalogueInv, DestNext
    PROVE  /\ mem'.stream = mem.stream /\ mem'.channel = mem.channel /\ mem'.quota = mem.quota
           /\ UNCHANGED <<files, hurt, kicks, publisher, missed, best, disk>>
           /\ \E r \in Requests : requests' = [requests EXCEPT ![r] = None]
  BY DEF CatalogueInv, Good, Documents, DestNext, forward, removeDest, Handle, Save, Content

LEMMA ChannelsOnly ==
    ASSUME CatalogueInv, ChannelNext
    PROVE  /\ mem'.stream = mem.stream /\ mem'.quota = mem.quota
           /\ UNCHANGED <<kicks, publisher, missed, best, disk>>
           /\ \E r \in Requests : requests' = [requests EXCEPT ![r] = None]
  <1>1. PICK r \in Requests, c \in Channels :
          \/ \E u \in Users, S \in SUBSET StreamIds : createChannel(r, c, u, S)
          \/ \E S \in SUBSET StreamIds : updateChannel(r, c, S)
          \/ \E kind \in Kinds : setBackgroundImage(r, c, kind) \/ BackgroundNotWritten(r, c, kind)
          \/ removeChannel(r, c)
          \/ setHomepage(r, c) \/ setHomepage(r, None)
    BY DEF ChannelNext
  <1>2. Handle(r) /\ UNCHANGED <<kicks, best>>
    BY <1>1 DEF createChannel, updateChannel, setBackgroundImage, BackgroundNotWritten,
                removeChannel, setHomepage, Content
  <1>3. mem'.stream = mem.stream /\ mem'.quota = mem.quota
    BY <1>1 DEF CatalogueInv, Good, Documents, createChannel, updateChannel, setBackgroundImage,
                BackgroundNotWritten, removeChannel, setHomepage, Save
  <1>. QED  BY <1>2, <1>3 DEF Handle

\* The handlers of streams, told apart by what becomes of the stream.
StreamChange(r, s) ==
    \/ \E k \in Keys, owner \in Users \cup {None}, on \in BOOLEAN, self \in BOOLEAN :
          /\ AddStream(s, k, owner, on, self)
          /\ self => ~requireAdmin(r) /\ owner = requests[r].id /\ CountedAgainst(r) < requests[r].quota
    \/ \E k \in Keys, owner \in Users \cup {None}, on \in BOOLEAN \cup {None} :
          updateStream(r, s, k, on, owner)
    \/ removeStream(r, s)

LEMMA StreamsOnly ==
    ASSUME CatalogueInv, SelfServiceNext \/ StreamNext
    PROVE  \E r \in Requests, s \in StreamIds :
             /\ Handle(r) /\ UNCHANGED <<files, hurt, best>>
             /\ StreamChange(r, s)
  <1>1. ASSUME NEW r \in Requests, NEW s \in StreamIds, NEW k \in Keys, createOwnStream(r, s, k)
        PROVE  Handle(r) /\ UNCHANGED <<files, hurt, best>> /\ StreamChange(r, s)
    <2>1. requests[r] \in Copies
      BY <1>1 DEF createOwnStream, Handle, CatalogueInv
    <2>2. requests[r].id \in Users \cup {None} /\ (~requireAdmin(r)) \in BOOLEAN
      BY <2>1 DEF Copies, requireAdmin
    <2>3. AddStream(s, k, requests[r].id, TRUE, ~requireAdmin(r))
      BY <1>1 DEF createOwnStream
    <2>. QED  BY <1>1, <2>2, <2>3 DEF createOwnStream, AddStream, Content, StreamChange
  <1>2. ASSUME NEW r \in Requests, NEW s \in StreamIds, NEW k \in Keys,
               NEW owner \in Users \cup {None}, NEW on \in BOOLEAN, createStream(r, s, k, owner, on)
        PROVE  Handle(r) /\ UNCHANGED <<files, hurt, best>> /\ StreamChange(r, s)
    BY <1>2 DEF createStream, AddStream, Content, StreamChange
  <1>3. ASSUME NEW r \in Requests, NEW s \in StreamIds, NEW k \in Keys,
               NEW owner \in Users \cup {None}, NEW on \in BOOLEAN \cup {None},
               updateStream(r, s, k, on, owner)
        PROVE  Handle(r) /\ UNCHANGED <<files, hurt, best>> /\ StreamChange(r, s)
    BY <1>3 DEF updateStream, StreamChange
  <1>4. ASSUME NEW r \in Requests, NEW s \in StreamIds, removeStream(r, s)
        PROVE  Handle(r) /\ UNCHANGED <<files, hurt, best>> /\ StreamChange(r, s)
    BY <1>4 DEF removeStream, StreamChange
  <1>5. CASE SelfServiceNext
    BY <1>5, <1>1 DEF SelfServiceNext
  <1>6. CASE StreamNext
    <2>1. PICK r \in Requests, s \in StreamIds :
            \/ \E k \in Keys, u \in Users \cup {None}, on \in BOOLEAN : createStream(r, s, k, u, on)
            \/ \E k \in Keys, u \in Users \cup {None}, on \in BOOLEAN \cup {None} :
                  updateStream(r, s, k, on, u)
            \/ removeStream(r, s)
      BY <1>6 DEF StreamNext
    <2>2. CASE \E k \in Keys, u \in Users \cup {None}, on \in BOOLEAN : createStream(r, s, k, u, on)
      <3>1. PICK k \in Keys, u \in Users \cup {None}, on \in BOOLEAN : createStream(r, s, k, u, on)
        BY <2>2
      <3>2. Handle(r) /\ UNCHANGED <<files, hurt, best>> /\ StreamChange(r, s)
        BY <3>1, <1>2
      <3>. QED  BY <3>2
    <2>. QED  BY <2>1, <2>2, <1>3, <1>4
  <1>. QED  BY <1>5, <1>6

----------------------------------------------------------------------------
(* Publishers of retired keys. *)

PublishersInv ==
    publisher \in [Keys -> {"no", "accepted", "listed"}] /\ RetiredPublishersDropped

\* A handler whose kicks make up for the keys it retires.
LEMMA RetiringKeeps ==
    ASSUME PublishersInv, UNCHANGED <<publisher, missed>>, kicks \subseteq kicks',
           \A k \in Keys : Accepts(mem, k) => Accepts(mem', k) \/ k \in kicks'
    PROVE  PublishersInv'
  BY DEF PublishersInv, RetiredPublishersDropped

LEMMA SameStreamsKeep ==
    ASSUME PublishersInv, UNCHANGED <<publisher, missed, kicks>>, mem'.stream = mem.stream
    PROVE  PublishersInv'
  <1>1. \A k \in Keys : Accepts(mem, k) => Accepts(mem', k)
    BY DEF Accepts, Existing
  <1>. QED  BY <1>1, RetiringKeeps

LEMMA RetiredByStreams ==
    ASSUME CatalogueInv, PublishersInv, SelfServiceNext \/ StreamNext PROVE PublishersInv'
  <1>1. PICK r \in Requests, s \in StreamIds : Handle(r) /\ StreamChange(r, s)
    BY StreamsOnly
  <1>2. mem \in Documents /\ UNCHANGED <<publisher, missed>>
    BY <1>1 DEF CatalogueInv, Good, Handle
  <1>3. ASSUME NEW k \in Keys, NEW owner \in Users \cup {None}, NEW on \in BOOLEAN, NEW self \in BOOLEAN,
               AddStream(s, k, owner, on, self)
        PROVE  PublishersInv'
    <2>1. \A t \in StreamIds : t # s => mem'.stream[t] = mem.stream[t]
      BY <1>2, <1>3 DEF AddStream, Save, Documents
    <2>2. s \notin Existing(mem) /\ kicks' = kicks
      BY <1>3 DEF AddStream, Content
    <2>3. \A j \in Keys : Accepts(mem, j) => Accepts(mem', j)
      BY <2>1, <2>2 DEF Accepts, Existing
    <2>. QED  BY <1>2, <2>2, <2>3, RetiringKeeps
  <1>4. ASSUME NEW k \in Keys, NEW owner \in Users \cup {None}, NEW on \in BOOLEAN \cup {None},
               updateStream(r, s, k, on, owner)
        PROVE  PublishersInv'
    <2>. DEFINE old == mem.stream[s]
                rec == [key |-> k, on |-> IF on = None THEN old.on ELSE on, owner |-> owner,
                        self |-> old.self /\ owner = old.owner]
    <2>1. /\ s \in Existing(mem) /\ kicks' = kicks \cup Retires(old, k, on)
          /\ mem' = [mem EXCEPT !.stream[s] = rec]
      BY <1>4 DEF updateStream, Save
    <2>2. \A t \in StreamIds : mem'.stream[t] = IF t = s THEN rec ELSE mem.stream[t]
      BY <1>2, <2>1 DEF Documents
    <2>3. rec # None
      <3>1. old \in StreamRecords
        BY <1>2, <2>1 DEF Existing, Documents
      <3>2. rec \in StreamRecords
        BY <3>1 DEF StreamRecords
      <3>. QED  BY <3>2, NoneAssumption
    <2>4. Existing(mem') = Existing(mem)
      BY <2>1, <2>2, <2>3 DEF Existing
    <2>5. old.key \notin Retires(old, k, on) => rec.key = old.key /\ (old.on => rec.on)
      BY DEF Retires
    <2>6. \A j \in Keys : Accepts(mem, j) => Accepts(mem', j) \/ j \in kicks'
      <3>1. SUFFICES ASSUME NEW j \in Keys, NEW t \in Existing(mem),
                            mem.stream[t].key = j, mem.stream[t].on
                     PROVE  Accepts(mem', j) \/ j \in kicks'
        BY DEF Accepts
      <3>2. CASE t # s
        BY <3>1, <3>2, <2>2, <2>4 DEF Accepts, Existing
      <3>3. CASE t = s /\ old.key \in Retires(old, k, on)
        BY <3>1, <3>3, <2>1
      <3>4. CASE t = s /\ old.key \notin Retires(old, k, on)
        <4>1. mem'.stream[s] = rec /\ s \in Existing(mem') /\ s \in StreamIds
          BY <2>1, <2>2, <2>4
        <4>2. rec.key = j /\ rec.on
          BY <3>1, <3>4, <2>5
        <4>. HIDE DEF rec, old
        <4>. QED  BY <4>1, <4>2 DEF Accepts
      <3>. QED  BY <3>2, <3>3, <3>4
    <2>. QED  BY <1>2, <2>1, <2>6, RetiringKeeps
  <1>5. CASE removeStream(r, s)
    <2>1. /\ \A t \in StreamIds : t # s => mem'.stream[t] = mem.stream[t]
          /\ kicks' = kicks \cup {mem.stream[s].key}
      BY <1>2, <1>5 DEF removeStream, Save, Without, Documents
    <2>2. \A j \in Keys : Accepts(mem, j) => Accepts(mem', j) \/ j \in kicks'
      BY <2>1 DEF Accepts, Existing
    <2>. QED  BY <1>2, <2>1, <2>2, RetiringKeeps
  <1>. QED  BY <1>1, <1>3, <1>4, <1>5 DEF StreamChange

LEMMA RetiredByPublishers ==
    ASSUME PublishersInv, PublisherNext PROVE PublishersInv'
  <1>1. PICK k \in Keys : Connects(k) \/ Listed(k) \/ Leaves(k) \/ Kick(k) \/ KickFails(k)
    BY DEF PublisherNext
  <1>2. mem' = mem /\ \A j \in Keys : Accepts(mem', j) <=> Accepts(mem, j)
    BY <1>1 DEF Connects, Listed, Leaves, Kick, KickFails, Publishers
  <1>3. publisher' \in [Keys -> {"no", "accepted", "listed"}]
    BY <1>1 DEF PublishersInv, Connects, Listed, Leaves, Kick, KickFails
  <1>4. ASSUME NEW j \in Keys, publisher'[j] # "no", ~Accepts(mem, j)
        PROVE  j \in kicks' \cup missed'
    <2>. USE <1>4 DEF PublishersInv, RetiredPublishersDropped
    <2>1. CASE Connects(k)
      BY <2>1 DEF Connects
    <2>2. CASE Listed(k)
      BY <2>2 DEF Listed
    <2>3. CASE Leaves(k)
      BY <2>3 DEF Leaves
    <2>4. CASE Kick(k)
      BY <2>4 DEF Kick
    <2>5. CASE KickFails(k)
      BY <2>5 DEF KickFails
    <2>. QED  BY <1>1, <2>1, <2>2, <2>3, <2>4, <2>5
  <1>. QED  BY <1>2, <1>3, <1>4 DEF PublishersInv, RetiredPublishersDropped

LEMMA RetiredSteps ==
    CatalogueInv /\ PublishersInv /\ [CatalogueNext]_catalogueVars => PublishersInv'
  <1>. SUFFICES ASSUME CatalogueInv, PublishersInv, [CatalogueNext]_catalogueVars PROVE PublishersInv'
    OBVIOUS
  <1>1. CASE StoreNext
    <2>1. CASE Flush \/ FlushFails
      BY <2>1, SameStreamsKeep DEF Flush, FlushFails
    <2>2. CASE Crash
      BY <2>2 DEF Crash, PublishersInv, RetiredPublishersDropped
    <2>. QED  BY <1>1, <2>1, <2>2 DEF StoreNext
  <1>2. CASE RequestNext
    BY <1>2, SameStreamsKeep DEF RequestNext, Arrive, Refuse
  <1>3. CASE AccountNext
    BY <1>3, AccountsOnly, SameStreamsKeep
  <1>4. CASE DestNext
    BY <1>4, DestinationsOnly, SameStreamsKeep
  <1>5. CASE ChannelNext
    BY <1>5, ChannelsOnly, SameStreamsKeep
  <1>6. CASE UNCHANGED catalogueVars
    BY <1>6, SameStreamsKeep
  <1>. QED
    BY <1>1, <1>2, <1>3, <1>4, <1>5, <1>6, RetiredByStreams, RetiredByPublishers DEF CatalogueNext

LEMMA PublishersInvariant == CatalogueSpec => []PublishersInv
  <1>1. CatalogueInit => PublishersInv
    BY DEF CatalogueInit, PublishersInv, RetiredPublishersDropped
  <1>. QED  BY <1>1, RetiredSteps, CatalogueInvariant, PTL DEF CatalogueSpec

\* streams.js: whoever publishes on a key that was rotated, disabled or removed
\* is about to be kicked, unless the kick failed or came before MediaMTX had them
\* in its lists, whatever else happens in between.
THEOREM RetiredAreDropped == CatalogueSpec => []RetiredPublishersDropped
  <1>1. PublishersInv => RetiredPublishersDropped
    BY DEF PublishersInv
  <1>. QED  BY <1>1, PublishersInvariant, PTL

----------------------------------------------------------------------------
(* Background images. *)

ImagesInv == files \subseteq Channels \X Kinds /\ ImagesMatch

LEMMA SameImagesKeep ==
    ASSUME ImagesInv, files' = files, hurt \subseteq hurt',
           \A c \in Channels : ImageOf(mem', c) = ImageOf(mem, c)
    PROVE  ImagesInv'
  BY DEF ImagesInv, ImagesMatch

\* A stream takes its place in channels with it, and nothing else.
LEMMA StreamsKeepImages ==
    ASSUME CatalogueInv, SelfServiceNext \/ StreamNext, NEW c \in Channels
    PROVE  ImageOf(mem', c) = ImageOf(mem, c)
  <1>1. PICK r \in Requests, s \in StreamIds : Handle(r) /\ StreamChange(r, s)
    BY StreamsOnly
  <1>2. mem \in Documents
    BY DEF CatalogueInv, Good
  <1>3. CASE removeStream(r, s)
    <2>1. mem'.channel[c] = IF mem.channel[c] = None THEN None
                            ELSE [mem.channel[c] EXCEPT !.streams = @ \ {s}]
      BY <1>2, <1>3 DEF removeStream, Save, Without, Documents
    <2>2. mem.channel[c] # None =>
            /\ [mem.channel[c] EXCEPT !.streams = @ \ {s}] \in ChannelRecords
            /\ [mem.channel[c] EXCEPT !.streams = @ \ {s}].image = mem.channel[c].image
      BY <1>2 DEF Documents, ChannelRecords
    <2>. QED  BY <2>1, <2>2, NoneAssumption DEF ImageOf
  <1>4. CASE ~removeStream(r, s)
    <2>1. mem'.channel = mem.channel
      BY <1>1, <1>2, <1>4 DEF StreamChange, AddStream, updateStream, Save, Documents
    <2>. QED  BY <2>1 DEF ImageOf
  <1>. QED  BY <1>3, <1>4

\* A handler of channel c leaves the images of the others alone.
LEMMA OneImageKeeps ==
    ASSUME ImagesInv, NEW c \in Channels, files' \subseteq Channels \X Kinds, hurt \subseteq hurt',
           \A b \in Channels \ {c} : ImageOf(mem', b) = ImageOf(mem, b),
           \A f \in Channels \X Kinds : f[1] # c => (f \in files' <=> f \in files),
           c \in hurt' \/ {f \in files' : f[1] = c} = ImageOf(mem', c)
    PROVE  ImagesInv'
  <1>1. ASSUME NEW b \in Channels \ hurt', b # c
        PROVE  {f \in files' : f[1] = b} = ImageOf(mem', b)
    <2>1. {f \in files' : f[1] = b} = {f \in files : f[1] = b}
      BY <1>1 DEF ImagesInv
    <2>. QED  BY <2>1, <1>1 DEF ImagesInv, ImagesMatch
  <1>. QED  BY <1>1 DEF ImagesInv, ImagesMatch

LEMMA ChannelsKeepImages == ASSUME CatalogueInv, ImagesInv, ChannelNext PROVE ImagesInv'
  <1>1. PICK r \in Requests, c \in Channels :
          \/ \E u \in Users, S \in SUBSET StreamIds : createChannel(r, c, u, S)
          \/ \E S \in SUBSET StreamIds : updateChannel(r, c, S)
          \/ \E kind \in Kinds : setBackgroundImage(r, c, kind) \/ BackgroundNotWritten(r, c, kind)
          \/ removeChannel(r, c)
          \/ setHomepage(r, c) \/ setHomepage(r, None)
    BY DEF ChannelNext
  <1>2. mem \in Documents
    BY DEF CatalogueInv, Good
  <1>3. ASSUME NEW rec, mem' = [mem EXCEPT !.channel[c] = rec]
        PROVE  \A b \in Channels : mem'.channel[b] = IF b = c THEN rec ELSE mem.channel[b]
    BY <1>2, <1>3 DEF Documents
  <1>4. ImageOf(mem, c) \subseteq Channels \X Kinds /\ \A f \in ImageOf(mem, c) : f[1] = c
    BY <1>2 DEF ImageOf, Documents, ChannelRecords
  <1>5. ASSUME NEW u \in Users, NEW S \in SUBSET StreamIds, createChannel(r, c, u, S) PROVE ImagesInv'
    <2>. DEFINE rec == [owner |-> u, streams |-> cleanStreamIds(S), image |-> None]
    <2>1. mem' = [mem EXCEPT !.channel[c] = rec] /\ UNCHANGED <<files, hurt>> /\ mem.channel[c] = None
      BY <1>5 DEF createChannel, Save, Content
    <2>2. \A b \in Channels : mem'.channel[b] = IF b = c THEN rec ELSE mem.channel[b]
      BY <1>3, <2>1
    <2>3. \A b \in Channels : ImageOf(mem', b) = ImageOf(mem, b)
      BY <2>1, <2>2 DEF ImageOf
    <2>. QED  BY <2>1, <2>3, SameImagesKeep
  <1>6. ASSUME NEW S \in SUBSET StreamIds, updateChannel(r, c, S) PROVE ImagesInv'
    <2>. DEFINE rec == [mem.channel[c] EXCEPT !.streams = cleanStreamIds(S)]
    <2>1. mem' = [mem EXCEPT !.channel[c] = rec] /\ UNCHANGED <<files, hurt>> /\ mem.channel[c] # None
      BY <1>6 DEF updateChannel, MayEdit, Save, Content
    <2>2. \A b \in Channels : mem'.channel[b] = IF b = c THEN rec ELSE mem.channel[b]
      BY <1>3, <2>1
    <2>3. rec \in ChannelRecords /\ rec.image = mem.channel[c].image
      <3>1. cleanStreamIds(S) \in SUBSET StreamIds
        BY DEF cleanStreamIds
      <3>. QED  BY <1>2, <2>1, <3>1 DEF Documents, ChannelRecords
    <2>. HIDE DEF rec
    <2>4. \A b \in Channels : ImageOf(mem', b) = ImageOf(mem, b)
      BY <2>1, <2>2, <2>3, NoneAssumption DEF ImageOf
    <2>. QED  BY <2>1, <2>4, SameImagesKeep
  <1>7. ASSUME NEW kind \in Kinds, setBackgroundImage(r, c, kind) PROVE ImagesInv'
    <2>. DEFINE rec == [mem.channel[c] EXCEPT !.image = kind]
    <2>1. /\ mem' = [mem EXCEPT !.channel[c] = rec] /\ hurt' = hurt /\ mem.channel[c] # None
          /\ files' = (files \ ImageOf(mem, c)) \cup {<<c, kind>>}
      BY <1>7 DEF setBackgroundImage, MayEdit, Save
    <2>2. \A b \in Channels : mem'.channel[b] = IF b = c THEN rec ELSE mem.channel[b]
      BY <1>3, <2>1
    <2>3. rec # None /\ rec.image = kind
      BY <1>2, <2>1, NoneAssumption DEF Documents, ChannelRecords
    <2>. HIDE DEF rec
    <2>4. ImageOf(mem', c) = {<<c, kind>>}
      BY <2>2, <2>3, NoneAssumption DEF ImageOf
    <2>5. files' \subseteq Channels \X Kinds
      BY <2>1 DEF ImagesInv
    <2>6. \A b \in Channels \ {c} : ImageOf(mem', b) = ImageOf(mem, b)
      BY <2>2 DEF ImageOf
    <2>7. \A f \in Channels \X Kinds : f[1] # c => (f \in files' <=> f \in files)
      BY <2>1, <1>4
    <2>8. c \in hurt' \/ {f \in files' : f[1] = c} = ImageOf(mem', c)
      BY <2>1, <2>4, <1>4 DEF ImagesInv, ImagesMatch
    <2>. QED  BY <2>1, <2>5, <2>6, <2>7, <2>8, OneImageKeeps
  <1>8. ASSUME NEW kind \in Kinds, BackgroundNotWritten(r, c, kind) PROVE ImagesInv'
    <2>1. /\ mem' = mem /\ hurt' = hurt \cup {c}
          /\ files' \in {files \ ImageOf(mem, c), (files \ ImageOf(mem, c)) \cup {<<c, kind>>}}
      BY <1>8 DEF BackgroundNotWritten
    <2>2. files' \subseteq Channels \X Kinds
      BY <2>1 DEF ImagesInv
    <2>3. \A f \in Channels \X Kinds : f[1] # c => (f \in files' <=> f \in files)
      BY <2>1, <1>4
    <2>. QED  BY <2>1, <2>2, <2>3, OneImageKeeps
  <1>9. CASE removeChannel(r, c)
    <2>1. /\ mem' = [mem EXCEPT !.channel[c] = None, !.home = IF @ = c THEN None ELSE @]
          /\ hurt' = hurt /\ files' = files \ ImageOf(mem, c)
      BY <1>9 DEF removeChannel, Save
    <2>2. \A b \in Channels : mem'.channel[b] = IF b = c THEN None ELSE mem.channel[b]
      BY <1>2, <2>1 DEF Documents
    <2>3. files' \subseteq Channels \X Kinds
      BY <2>1 DEF ImagesInv
    <2>4. \A b \in Channels \ {c} : ImageOf(mem', b) = ImageOf(mem, b)
      BY <2>2 DEF ImageOf
    <2>5. \A f \in Channels \X Kinds : f[1] # c => (f \in files' <=> f \in files)
      BY <2>1, <1>4
    <2>6. ImageOf(mem', c) = {}
      BY <2>2 DEF ImageOf
    <2>7. c \in hurt' \/ {f \in files' : f[1] = c} = ImageOf(mem', c)
      BY <2>1, <2>6 DEF ImagesInv, ImagesMatch
    <2>. QED  BY <2>1, <2>3, <2>4, <2>5, <2>7, OneImageKeeps
  <1>10. ASSUME NEW h \in {c, None}, setHomepage(r, h) PROVE ImagesInv'
    <2>1. mem'.channel = mem.channel /\ UNCHANGED <<files, hurt>>
      BY <1>2, <1>10 DEF setHomepage, Save, Content, Documents
    <2>. QED  BY <2>1, SameImagesKeep DEF ImageOf
  <1>. QED  BY <1>1, <1>5, <1>6, <1>7, <1>8, <1>9, <1>10

LEMMA ImagesSteps == CatalogueInv /\ ImagesInv /\ [CatalogueNext]_catalogueVars => ImagesInv'
  <1>. SUFFICES ASSUME CatalogueInv, ImagesInv, [CatalogueNext]_catalogueVars PROVE ImagesInv'
    OBVIOUS
  <1>. USE SameImagesKeep
  <1>1. CASE StoreNext
    <2>1. CASE Flush \/ FlushFails
      BY <2>1 DEF Flush, FlushFails
    <2>2. CASE Crash
      BY <2>2 DEF Crash, ImagesInv, ImagesMatch
    <2>. QED  BY <1>1, <2>1, <2>2 DEF StoreNext
  <1>2. CASE RequestNext
    BY <1>2 DEF RequestNext, Arrive, Refuse
  <1>3. CASE AccountNext
    BY <1>3, AccountsOnly DEF ImageOf
  <1>4. CASE SelfServiceNext \/ StreamNext
    <2>1. UNCHANGED <<files, hurt>>
      BY <1>4, StreamsOnly
    <2>. QED  BY <1>4, <2>1, StreamsKeepImages
  <1>5. CASE DestNext
    BY <1>5, DestinationsOnly DEF ImageOf
  <1>6. CASE ChannelNext
    BY <1>6, ChannelsKeepImages
  <1>7. CASE PublisherNext
    BY <1>7 DEF PublisherNext, Connects, Listed, Leaves, Kick, KickFails, Publishers
  <1>8. CASE UNCHANGED catalogueVars
    BY <1>8
  <1>. QED
    BY <1>1, <1>2, <1>3, <1>4, <1>5, <1>6, <1>7, <1>8 DEF CatalogueNext

LEMMA ImagesInvariant == CatalogueSpec => []ImagesInv
  <1>1. CatalogueInit => ImagesInv
    <2>. SUFFICES ASSUME CatalogueInit PROVE ImagesInv
      OBVIOUS
    <2>1. PICK u \in Users : mem = Booted(Fresh, u)
      BY DEF CatalogueInit
    <2>2. mem.channel = [c \in Channels |-> None] /\ files = {}
      BY <2>1 DEF CatalogueInit, Booted, Fresh
    <2>. QED  BY <2>2 DEF ImagesInv, ImagesMatch, ImageOf
  <1>. QED  BY <1>1, ImagesSteps, CatalogueInvariant, PTL DEF CatalogueSpec

\* channels.js: the image files are those the channels name, however uploads and
\* removals of the same channel cross, unless a write failed or the server died.
THEOREM ImagesAreThere == CatalogueSpec => []ImagesMatch
  <1>1. ImagesInv => ImagesMatch
    BY DEF ImagesInv
  <1>. QED  BY <1>1, ImagesInvariant, PTL

----------------------------------------------------------------------------
(* Quotas. *)

SelfMade(doc, u) == {s \in Owned(doc, u) : doc.stream[s].self}

Within(doc, b) == \A u \in Users : doc.quota[u] <= b[u] /\ Cardinality(SelfMade(doc, u)) <= b[u]

CopiesWithin(b) == \A r \in Requests : requests[r] # None => requests[r].quota <= b[requests[r].id]

QuotaInv ==
    /\ best \in [Users -> 0 .. MaxQuota]
    /\ Within(mem, best) /\ Within(disk, best) /\ CopiesWithin(best)

LEMMA SelfMadeIsFinite ==
    \A doc, u : /\ IsFiniteSet(Owned(doc, u)) /\ IsFiniteSet(SelfMade(doc, u))
                /\ Cardinality(Owned(doc, u)) \in Nat /\ Cardinality(SelfMade(doc, u)) \in Nat
                /\ Cardinality(SelfMade(doc, u)) <= Cardinality(Owned(doc, u))
  <1>. SUFFICES ASSUME NEW doc, NEW u
                PROVE  /\ IsFiniteSet(Owned(doc, u)) /\ IsFiniteSet(SelfMade(doc, u))
                       /\ Cardinality(Owned(doc, u)) \in Nat /\ Cardinality(SelfMade(doc, u)) \in Nat
                       /\ Cardinality(SelfMade(doc, u)) <= Cardinality(Owned(doc, u))
    OBVIOUS
  <1>1. Owned(doc, u) \subseteq StreamIds /\ SelfMade(doc, u) \subseteq Owned(doc, u)
    BY DEF Owned, Existing, SelfMade
  <1>2. IsFiniteSet(Owned(doc, u))
    BY <1>1, StreamIdsAssumption, FS_Subset
  <1>3. IsFiniteSet(SelfMade(doc, u)) /\ Cardinality(SelfMade(doc, u)) <= Cardinality(Owned(doc, u))
    BY <1>1, <1>2, FS_Subset
  <1>. QED  BY <1>2, <1>3, FS_CardinalityType

\* No more is self-made than was, and no more granted by it.
LEMMA FewerKeep ==
    ASSUME NEW doc, NEW new, NEW b, Within(doc, b), b \in [Users -> 0 .. MaxQuota],
           \A u \in Users : SelfMade(new, u) \subseteq SelfMade(doc, u), new.quota = doc.quota
    PROVE  Within(new, b)
  <1>. SUFFICES ASSUME NEW u \in Users PROVE new.quota[u] <= b[u] /\ Cardinality(SelfMade(new, u)) <= b[u]
    BY DEF Within
  <1>1. /\ Cardinality(SelfMade(new, u)) <= Cardinality(SelfMade(doc, u))
        /\ Cardinality(SelfMade(new, u)) \in Nat /\ Cardinality(SelfMade(doc, u)) \in Nat
    BY SelfMadeIsFinite, FS_Subset
  <1>2. Cardinality(SelfMade(doc, u)) <= b[u] /\ doc.quota[u] <= b[u] /\ b[u] \in Nat
    BY DEF Within
  <1>. QED  BY <1>1, <1>2

\* A larger grant takes nothing away.
LEMMA GrantKeeps ==
    ASSUME CatalogueInv, QuotaInv, NEW u \in Users, NEW q \in 0 .. MaxQuota, Grant(u, q)
    PROVE  /\ best' \in [Users -> 0 .. MaxQuota]
           /\ q <= best'[u] /\ \A v \in Users : best[v] <= best'[v]
           /\ \A doc \in Documents : Within(doc, best) => Within(doc, best')
           /\ CopiesWithin(best')
  <1>1. /\ best' \in [Users -> 0 .. MaxQuota]
        /\ q <= best'[u] /\ \A v \in Users : best[v] <= best'[v]
    BY BoundsAssumption DEF QuotaInv, Grant
  <1>2. ASSUME NEW doc \in Documents, Within(doc, best) PROVE Within(doc, best')
    <2>. SUFFICES ASSUME NEW v \in Users
                  PROVE  doc.quota[v] <= best'[v] /\ Cardinality(SelfMade(doc, v)) <= best'[v]
      BY DEF Within
    <2>1. doc.quota[v] \in Nat /\ Cardinality(SelfMade(doc, v)) \in Nat
      BY SelfMadeIsFinite DEF Documents
    <2>2. best[v] \in Nat /\ best'[v] \in Nat /\ best[v] <= best'[v]
      BY <1>1 DEF QuotaInv
    <2>3. doc.quota[v] <= best[v] /\ Cardinality(SelfMade(doc, v)) <= best[v]
      BY <1>2 DEF Within
    <2>. QED  BY <2>1, <2>2, <2>3
  <1>3. CopiesWithin(best')
    <2>. SUFFICES ASSUME NEW r \in Requests, requests[r] # None
                  PROVE  requests[r].quota <= best'[requests[r].id]
      BY DEF CopiesWithin
    <2>1. requests[r].id \in Users /\ requests[r].quota \in Nat
      BY DEF CatalogueInv, Copies
    <2>2. requests[r].quota <= best[requests[r].id] /\ best[requests[r].id] <= best'[requests[r].id]
      BY <1>1, <2>1 DEF QuotaInv, CopiesWithin
    <2>3. best[requests[r].id] \in Nat /\ best'[requests[r].id] \in Nat
      BY <1>1, <2>1 DEF QuotaInv
    <2>. QED  BY <2>1, <2>2, <2>3
  <1>. QED  BY <1>1, <1>2, <1>3

LEMMA HandledCopies ==
    ASSUME CatalogueInv, NEW r \in Requests, requests' = [requests EXCEPT ![r] = None],
           NEW b, CopiesWithin(b), best' = b
    PROVE  CopiesWithin(best)'
  BY DEF CopiesWithin, CatalogueInv

LEMMA QuotaOfAccounts == ASSUME CatalogueInv, QuotaInv, AccountNext PROVE QuotaInv'
  <1>1. PICK r \in Requests, u \in Users :
          \/ \E role \in Roles, q \in 0 .. MaxQuota : createUser(r, u, role, q) \/ patchUser(r, u, role, q)
          \/ deleteUser(r, u)
    BY DEF AccountNext
  <1>2. mem \in Documents /\ disk \in Documents /\ mem'.stream = mem.stream
    BY AccountsOnly DEF CatalogueInv, Good
  <1>3. \A v \in Users : SelfMade(mem', v) = SelfMade(mem, v)
    BY <1>2 DEF SelfMade, Owned, Existing
  <1>4. ASSUME NEW role \in Roles, NEW q \in 0 .. MaxQuota,
               createUser(r, u, role, q) \/ patchUser(r, u, role, q)
        PROVE  QuotaInv'
    <2>1. /\ Grant(u, q) /\ disk' = disk /\ requests' = [requests EXCEPT ![r] = None]
          /\ mem' = [mem EXCEPT !.role[u] = role, !.quota[u] = q]
      BY <1>4 DEF createUser, patchUser, Handle, Save
    <2>2. mem'.quota = [mem.quota EXCEPT ![u] = q]
      BY <1>2, <2>1 DEF Documents
    <2>3. Within(mem, best') /\ Within(disk, best')
      BY <1>2, <2>1, GrantKeeps DEF QuotaInv
    <2>4. Within(mem', best')
      <3>. SUFFICES ASSUME NEW v \in Users
                    PROVE  mem'.quota[v] <= best'[v] /\ Cardinality(SelfMade(mem', v)) <= best'[v]
        BY DEF Within
      <3>1. mem'.quota[v] <= best'[v]
        BY <1>2, <2>1, <2>2, <2>3, GrantKeeps DEF Within, Documents
      <3>2. Cardinality(SelfMade(mem', v)) <= best'[v]
        BY <1>3, <2>3 DEF Within
      <3>. QED  BY <3>1, <3>2
    <2>5. CopiesWithin(best)' /\ best' \in [Users -> 0 .. MaxQuota]
      BY <2>1, GrantKeeps, HandledCopies
    <2>. QED  BY <2>1, <2>3, <2>4, <2>5 DEF QuotaInv, Within, SelfMade, Owned, Existing
  <1>5. CASE deleteUser(r, u)
    <2>1. /\ best' = best /\ disk' = disk /\ requests' = [requests EXCEPT ![r] = None]
          /\ mem' = [mem EXCEPT !.role[u] = None, !.quota[u] = 0]
      BY <1>5 DEF deleteUser, Handle, Save
    <2>2. mem'.quota = [mem.quota EXCEPT ![u] = 0]
      BY <1>2, <2>1 DEF Documents
    <2>3. Within(mem', best)
      <3>. SUFFICES ASSUME NEW v \in Users
                    PROVE  mem'.quota[v] <= best[v] /\ Cardinality(SelfMade(mem', v)) <= best[v]
        BY DEF Within
      <3>1. mem'.quota[v] <= best[v]
        BY <1>2, <2>2 DEF QuotaInv, Within, Documents
      <3>2. Cardinality(SelfMade(mem', v)) <= best[v]
        BY <1>3 DEF QuotaInv, Within
      <3>. QED  BY <3>1, <3>2
    <2>4. CopiesWithin(best)'
      BY <2>1, HandledCopies DEF QuotaInv
    <2>. QED  BY <2>1, <2>3, <2>4 DEF QuotaInv, Within, SelfMade, Owned, Existing
  <1>. QED  BY <1>1, <1>4, <1>5

\* The count and the quota it is compared with are of the same account.
LEMMA AddingKeepsQuota ==
    ASSUME CatalogueInv, QuotaInv, NEW r \in Requests, Handle(r), NEW s \in StreamIds, NEW k \in Keys,
           NEW owner \in Users \cup {None}, NEW on \in BOOLEAN, NEW self \in BOOLEAN,
           AddStream(s, k, owner, on, self),
           self => owner = requests[r].id /\ CountedAgainst(r) < requests[r].quota
    PROVE  Within(mem', best) /\ mem'.quota = mem.quota
  <1>1. mem \in Documents /\ s \notin Existing(mem)
    BY DEF CatalogueInv, Good, AddStream
  <1>. DEFINE rec == [key |-> k, on |-> on, owner |-> owner, self |-> self]
  <1>2. /\ \A t \in StreamIds : mem'.stream[t] = IF t = s THEN rec ELSE mem.stream[t]
        /\ mem'.quota = mem.quota
    BY <1>1 DEF AddStream, Save, Documents
  <1>3. rec \in StreamRecords /\ rec # None
    BY NoneAssumption DEF StreamRecords
  <1>4. \A u \in Users : SelfMade(mem', u) = IF self /\ owner = u THEN SelfMade(mem, u) \cup {s}
                                             ELSE SelfMade(mem, u)
    <2>. SUFFICES ASSUME NEW u \in Users
                  PROVE  SelfMade(mem', u) = IF self /\ owner = u THEN SelfMade(mem, u) \cup {s}
                                             ELSE SelfMade(mem, u)
      OBVIOUS
    <2>1. rec.owner = owner /\ rec.self = self
      OBVIOUS
    <2>. HIDE DEF rec
    <2>. QED  BY <1>1, <1>2, <1>3, <2>1 DEF SelfMade, Owned, Existing
  <1>5. ASSUME NEW u \in Users PROVE Cardinality(SelfMade(mem', u)) <= best[u]
    <2>1. CASE self /\ owner = u
      <3>1. Cardinality(SelfMade(mem, u)) < requests[r].quota
        <4>1. requests[r].quota \in Nat
          BY DEF Handle, CatalogueInv, Copies
        <4>2. Cardinality(Owned(mem, u)) < requests[r].quota
          BY <2>1 DEF CountedAgainst
        <4>. QED  BY <4>1, <4>2, SelfMadeIsFinite
      <3>2. requests[r].quota <= best[u] /\ requests[r].quota \in Nat /\ best[u] \in Nat
        BY <2>1 DEF QuotaInv, CopiesWithin, Handle, CatalogueInv, Copies
      <3>3. s \notin SelfMade(mem, u)
        BY <1>1 DEF SelfMade, Owned
      <3>4. Cardinality(SelfMade(mem', u)) = Cardinality(SelfMade(mem, u)) + 1
        BY <1>4, <2>1, <3>3, SelfMadeIsFinite, FS_AddElement
      <3>. QED  BY <3>1, <3>2, <3>4, SelfMadeIsFinite
    <2>2. CASE ~(self /\ owner = u)
      BY <1>4, <2>2 DEF QuotaInv, Within
    <2>. QED  BY <2>1, <2>2
  <1>. QED  BY <1>2, <1>5 DEF QuotaInv, Within

LEMMA QuotaOfStreams ==
    ASSUME CatalogueInv, QuotaInv, SelfServiceNext \/ StreamNext PROVE QuotaInv'
  <1>1. PICK r \in Requests, s \in StreamIds : Handle(r) /\ best' = best /\ StreamChange(r, s)
    BY StreamsOnly
  <1>2. mem \in Documents
    BY DEF CatalogueInv, Good
  <1>3. ASSUME NEW k \in Keys, NEW owner \in Users \cup {None}, NEW on \in BOOLEAN \cup {None},
               updateStream(r, s, k, on, owner)
        PROVE  Within(mem', best)
    <2>. DEFINE old == mem.stream[s]
                rec == [key |-> k, on |-> IF on = None THEN old.on ELSE on, owner |-> owner,
                        self |-> old.self /\ owner = old.owner]
    <2>1. /\ s \in Existing(mem) /\ mem' = [mem EXCEPT !.stream[s] = rec]
      BY <1>3 DEF updateStream, Save
    <2>2. /\ \A t \in StreamIds : mem'.stream[t] = IF t = s THEN rec ELSE mem.stream[t]
          /\ mem'.quota = mem.quota
      BY <1>2, <2>1 DEF Documents
    <2>3. rec.self => old.self /\ rec.owner = old.owner
      OBVIOUS
    <2>. HIDE DEF rec
    <2>4. \A u \in Users : SelfMade(mem', u) \subseteq SelfMade(mem, u)
      BY <2>1, <2>2, <2>3 DEF SelfMade, Owned, Existing
    <2>. QED  BY <2>2, <2>4, FewerKeep DEF QuotaInv
  <1>4. ASSUME removeStream(r, s) PROVE Within(mem', best)
    <2>1. /\ \A t \in StreamIds : mem'.stream[t] = IF t = s THEN None ELSE mem.stream[t]
          /\ mem'.quota = mem.quota
      BY <1>2, <1>4 DEF removeStream, Save, Without, Documents
    <2>2. \A u \in Users : SelfMade(mem', u) \subseteq SelfMade(mem, u)
      BY <2>1 DEF SelfMade, Owned, Existing
    <2>. QED  BY <2>1, <2>2, FewerKeep DEF QuotaInv
  <1>5. Within(mem', best)
    <2>1. ASSUME NEW k \in Keys, NEW owner \in Users \cup {None}, NEW on \in BOOLEAN, NEW self \in BOOLEAN,
                 AddStream(s, k, owner, on, self),
                 self => owner = requests[r].id /\ CountedAgainst(r) < requests[r].quota
          PROVE  Within(mem', best)
      BY <1>1, <2>1, AddingKeepsQuota
    <2>. QED  BY <1>1, <1>3, <1>4, <2>1 DEF StreamChange
  <1>6. disk' = disk /\ requests' = [requests EXCEPT ![r] = None]
    BY <1>1 DEF Handle
  <1>7. CopiesWithin(best)'
    BY <1>1, <1>6, HandledCopies DEF QuotaInv
  <1>. QED  BY <1>1, <1>5, <1>6, <1>7 DEF QuotaInv, Within, SelfMade, Owned, Existing

\* Streams and quotas stay as they are, and copies at most go.
LEMMA QuotaRests ==
    ASSUME CatalogueInv, QuotaInv, mem'.stream = mem.stream, mem'.quota = mem.quota,
           UNCHANGED <<disk, best>>,
           requests' = requests \/ \E r \in Requests : requests' = [requests EXCEPT ![r] = None]
    PROVE  QuotaInv'
  <1>1. Within(mem', best)
    BY FewerKeep DEF QuotaInv, SelfMade, Owned, Existing
  <1>2. CopiesWithin(best)'
    BY HandledCopies DEF QuotaInv, CopiesWithin
  <1>. QED  BY <1>1, <1>2 DEF QuotaInv, Within, SelfMade, Owned, Existing

LEMMA QuotaSteps == CatalogueInv /\ QuotaInv /\ [CatalogueNext]_catalogueVars => QuotaInv'
  <1>. SUFFICES ASSUME CatalogueInv, QuotaInv, [CatalogueNext]_catalogueVars PROVE QuotaInv'
    OBVIOUS
  <1>1. CASE StoreNext
    <2>1. CASE Flush
      <3>1. mem' = mem /\ disk' = mem /\ UNCHANGED <<best, requests>>
        BY <2>1 DEF Flush
      <3>. QED  BY <3>1 DEF QuotaInv, Within, CopiesWithin, SelfMade, Owned, Existing
    <2>2. CASE FlushFails
      BY <2>2, QuotaRests DEF FlushFails
    <2>3. CASE Crash
      <3>1. PICK u \in Users : mem' = Booted(disk, u)
        BY <2>3 DEF Crash
      <3>2. disk \in Documents /\ UNCHANGED <<disk, best>> /\ requests' = [r \in Requests |-> None]
        BY <2>3 DEF CatalogueInv, Good, Crash
      <3>3. mem'.stream = disk.stream /\ mem'.quota = disk.quota
        BY <3>1, <3>2 DEF Booted, Documents
      <3>4. Within(mem', best)
        BY <3>3, FewerKeep DEF QuotaInv, SelfMade, Owned, Existing
      <3>5. CopiesWithin(best)'
        BY <3>2 DEF CopiesWithin
      <3>. QED  BY <3>2, <3>4, <3>5 DEF QuotaInv, Within, SelfMade, Owned, Existing
    <2>. QED  BY <1>1, <2>1, <2>2, <2>3 DEF StoreNext
  <1>2. CASE RequestNext
    <2>1. PICK r \in Requests : (\E u \in Users : Arrive(r, u)) \/ Refuse(r)
      BY <1>2 DEF RequestNext
    <2>2. CASE Refuse(r)
      BY <2>2, QuotaRests DEF Refuse
    <2>3. ASSUME NEW u \in Users, Arrive(r, u) PROVE QuotaInv'
      <3>1. /\ UNCHANGED <<mem, disk, best>>
            /\ requests' = [requests EXCEPT ![r] = [id |-> u, role |-> mem.role[u], quota |-> mem.quota[u]]]
        BY <2>3 DEF Arrive
      <3>2. mem.quota[u] <= best[u]
        BY DEF QuotaInv, Within
      <3>3. CopiesWithin(best)'
        BY <3>1, <3>2 DEF QuotaInv, CopiesWithin, CatalogueInv
      <3>. QED  BY <3>1, <3>3 DEF QuotaInv, Within, SelfMade, Owned, Existing
    <2>. QED  BY <2>1, <2>2, <2>3
  <1>3. CASE AccountNext
    BY <1>3, QuotaOfAccounts
  <1>4. CASE SelfServiceNext \/ StreamNext
    BY <1>4, QuotaOfStreams
  <1>5. CASE DestNext
    BY <1>5, DestinationsOnly, QuotaRests
  <1>6. CASE ChannelNext
    BY <1>6, ChannelsOnly, QuotaRests
  <1>7. CASE PublisherNext
    <2>1. UNCHANGED <<mem, disk, best, requests>>
      BY <1>7 DEF PublisherNext, Connects, Listed, Leaves, Kick, KickFails, Publishers
    <2>. QED  BY <2>1, QuotaRests
  <1>8. CASE UNCHANGED catalogueVars
    BY <1>8, QuotaRests
  <1>. QED
    BY <1>1, <1>2, <1>3, <1>4, <1>5, <1>6, <1>7, <1>8 DEF CatalogueNext

LEMMA QuotaInvariant == CatalogueSpec => []QuotaInv
  <1>1. CatalogueInit => QuotaInv
    <2>. SUFFICES ASSUME CatalogueInit PROVE QuotaInv
      OBVIOUS
    <2>1. PICK u \in Users : mem = Booted(Fresh, u)
      BY DEF CatalogueInit
    <2>2. /\ \A doc \in {mem, disk} : doc.quota = [v \in Users |-> 0] /\ doc.stream = [s \in StreamIds |-> None]
          /\ best = [v \in Users |-> 0] /\ requests = [r \in Requests |-> None]
      BY <2>1 DEF CatalogueInit, Booted, Fresh
    <2>3. \A v \in Users : SelfMade(mem, v) = {} /\ SelfMade(disk, v) = {}
      BY <2>2 DEF SelfMade, Owned, Existing
    <2>4. Within(mem, best) /\ Within(disk, best)
      BY <2>2, <2>3, FS_EmptySet DEF Within
    <2>. QED  BY <2>2, <2>4, BoundsAssumption DEF QuotaInv, CopiesWithin
  <1>. QED  BY <1>1, QuotaSteps, CatalogueInvariant, PTL DEF CatalogueSpec

\* routes/streamer.js: an account makes no more streams for itself than it was
\* ever granted, though it counts them against a copy of its quota that may be
\* old, and a crash may bring back streams and quotas of before.
THEOREM QuotasHold == CatalogueSpec => []QuotaHolds
  <1>1. QuotaInv => QuotaHolds
    BY DEF QuotaInv, Within, SelfMade, QuotaHolds
  <1>. QED  BY <1>1, QuotaInvariant, PTL

----------------------------------------------------------------------------
(* What is left of the type. *)

RestTyped ==
    /\ {writeQueued, unsaved} \subseteq BOOLEAN
    /\ kicks \subseteq Keys /\ missed \subseteq Keys
    /\ spent \subseteq Users \cup StreamIds \cup Channels \cup Dests
    /\ hurt \subseteq Channels
    /\ ops \in 0 .. MaxOps /\ mishaps \in 0 .. MaxMishaps

LEMMA Bounded ==
    ASSUME RestTyped
    PROVE  /\ \A r \in Requests : Handle(r) => ops' \in 0 .. MaxOps
           /\ Mishap => mishaps' \in 0 .. MaxMishaps
  BY BoundsAssumption DEF RestTyped, Handle, Mishap

\* A handler that makes kicks, uses identifiers up, or hurts a channel, of known
\* ones only.
LEMMA HandledTyped ==
    ASSUME RestTyped, NEW r \in Requests, Handle(r),
           writeQueued' \in BOOLEAN, kicks' \subseteq Keys,
           spent' \subseteq Users \cup StreamIds \cup Channels \cup Dests,
           hurt' \subseteq Channels, mishaps' \in 0 .. MaxMishaps
    PROVE  RestTyped'
  <1>1. ops' \in 0 .. MaxOps /\ UNCHANGED <<missed, unsaved>>
    BY Bounded DEF Handle
  <1>. QED  BY <1>1 DEF RestTyped

\* The keys that are kicked are those the streams had.
LEMMA KicksAreOfKeys ==
    ASSUME CatalogueInv, RestTyped, SelfServiceNext \/ StreamNext PROVE RestTyped'
  <1>1. PICK r \in Requests, s \in StreamIds : Handle(r) /\ hurt' = hurt /\ StreamChange(r, s)
    BY StreamsOnly
  <1>2. s \in Existing(mem) => mem.stream[s].key \in Keys
    BY DEF CatalogueInv, Good, Documents, Existing, StreamRecords
  <1>3. ASSUME NEW k \in Keys, NEW owner \in Users \cup {None}, NEW on \in BOOLEAN, NEW self \in BOOLEAN,
               AddStream(s, k, owner, on, self)
        PROVE  RestTyped'
    BY <1>1, <1>3, HandledTyped DEF RestTyped, AddStream, Save, Content
  <1>4. ASSUME NEW k \in Keys, NEW owner \in Users \cup {None}, NEW on \in BOOLEAN \cup {None},
               updateStream(r, s, k, on, owner)
        PROVE  RestTyped'
    <2>1. kicks' \subseteq Keys /\ writeQueued' = TRUE /\ UNCHANGED <<spent, hurt, mishaps>>
      BY <1>2, <1>4 DEF RestTyped, updateStream, Retires, Save
    <2>. QED  BY <1>1, <2>1, HandledTyped DEF RestTyped
  <1>5. CASE removeStream(r, s)
    BY <1>1, <1>2, <1>5, HandledTyped DEF RestTyped, removeStream, Save
  <1>. QED  BY <1>1, <1>3, <1>4, <1>5 DEF StreamChange

LEMMA RestSteps == CatalogueInv /\ RestTyped /\ [CatalogueNext]_catalogueVars => RestTyped'
  <1>. SUFFICES ASSUME CatalogueInv, RestTyped, [CatalogueNext]_catalogueVars PROVE RestTyped'
    OBVIOUS
  <1>1. CASE StoreNext
    <2>1. CASE Flush
      BY <2>1 DEF Flush, RestTyped
    <2>2. CASE FlushFails
      BY <2>2, Bounded DEF FlushFails, RestTyped
    <2>3. CASE Crash
      BY <2>3, Bounded DEF Crash, RestTyped
    <2>. QED  BY <1>1, <2>1, <2>2, <2>3 DEF StoreNext
  <1>2. CASE RequestNext
    BY <1>2 DEF RequestNext, Arrive, Refuse, RestTyped
  <1>3. CASE AccountNext
    BY <1>3, HandledTyped
       DEF AccountNext, createUser, patchUser, deleteUser, Save, Content, RestTyped
  <1>4. CASE SelfServiceNext \/ StreamNext
    BY <1>4, KicksAreOfKeys
  <1>5. CASE DestNext
    BY <1>5, HandledTyped DEF DestNext, forward, removeDest, Save, Content, RestTyped
  <1>6. CASE ChannelNext
    <2>1. PICK r \in Requests, c \in Channels :
            \/ \E u \in Users, S \in SUBSET StreamIds : createChannel(r, c, u, S)
            \/ \E S \in SUBSET StreamIds : updateChannel(r, c, S)
            \/ \E kind \in Kinds : setBackgroundImage(r, c, kind) \/ BackgroundNotWritten(r, c, kind)
            \/ removeChannel(r, c)
            \/ setHomepage(r, c) \/ setHomepage(r, None)
      BY <1>6 DEF ChannelNext
    <2>2. ASSUME NEW kind \in Kinds, BackgroundNotWritten(r, c, kind) PROVE RestTyped'
      BY <2>2, Bounded, HandledTyped DEF BackgroundNotWritten, RestTyped
    <2>3. ASSUME NEW kind \in Kinds, setBackgroundImage(r, c, kind) PROVE RestTyped'
      BY <2>3, HandledTyped DEF setBackgroundImage, Save, RestTyped
    <2>4. CASE removeChannel(r, c)
      BY <2>4, HandledTyped DEF removeChannel, Save, RestTyped
    <2>. QED  BY <2>1, <2>2, <2>3, <2>4, HandledTyped
              DEF createChannel, updateChannel, setHomepage, Save, Content, RestTyped
  <1>7. CASE PublisherNext
    <2>1. PICK k \in Keys : Connects(k) \/ Listed(k) \/ Leaves(k) \/ Kick(k) \/ KickFails(k)
      BY <1>7 DEF PublisherNext
    <2>2. UNCHANGED Publishers
      BY <2>1 DEF Connects, Listed, Leaves, Kick, KickFails
    <2>3. kicks' \subseteq Keys /\ missed' \subseteq Keys
      BY <2>1 DEF Connects, Listed, Leaves, Kick, KickFails, RestTyped
    <2>4. mishaps' \in 0 .. MaxMishaps
      BY <2>1, Bounded DEF Connects, Listed, Leaves, Kick, KickFails, RestTyped
    <2>. QED  BY <2>2, <2>3, <2>4 DEF Publishers, RestTyped
  <1>8. CASE UNCHANGED catalogueVars
    BY <1>8 DEF RestTyped
  <1>. QED
    BY <1>1, <1>2, <1>3, <1>4, <1>5, <1>6, <1>7, <1>8 DEF CatalogueNext

\* Every document, copy of an account, publisher and count has its type.
THEOREM CatalogueTypes == CatalogueSpec => []CatalogueTypeOK
  <1>1. CatalogueInit => RestTyped
    <2>. SUFFICES ASSUME CatalogueInit PROVE RestTyped
      OBVIOUS
    <2>1. writeQueued \in BOOLEAN /\ unsaved \in BOOLEAN
      BY DEF CatalogueInit
    <2>2. ops \in 0 .. MaxOps /\ mishaps \in 0 .. MaxMishaps
      BY BoundsAssumption DEF CatalogueInit
    <2>3. kicks = {} /\ missed = {} /\ spent = {} /\ hurt = {}
      BY DEF CatalogueInit
    <2>. QED  BY <2>1, <2>2, <2>3 DEF RestTyped
  <1>2. CatalogueSpec => []RestTyped
    BY <1>1, RestSteps, CatalogueInvariant, PTL DEF CatalogueSpec
  <1>3. CatalogueInv /\ PublishersInv /\ ImagesInv /\ QuotaInv /\ RestTyped => CatalogueTypeOK
    BY DEF CatalogueInv, Good, Copies, PublishersInv, ImagesInv, QuotaInv, RestTyped, CatalogueTypeOK
  <1>. QED  BY <1>2, <1>3, CatalogueInvariant, PublishersInvariant, ImagesInvariant,
               QuotaInvariant, PTL

=============================================================================
