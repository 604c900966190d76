-------------------------- MODULE AddFeedChannels --------------------------
(***************************************************************************)
(* marketing/scripts/add_feed_channels.py main(): add the NEW_CHANNELS to  *)
(* the existing BOTS category, skipping names that already exist anywhere  *)
(* in the guild, then post and pin each channel's PINNED_MESSAGES unless   *)
(* the channel already has a pin; a message containing URL_PLACEHOLDER is  *)
(* skipped on its own.  Every HTTP call succeeds or fails; the process may *)
(* die on an exception and be run again.                                   *)
(***************************************************************************)
EXTENDS Integers, Sequences, FiniteSets, Functions

CONSTANTS
  New,             \* NEW_CHANNELS: sequence of channel names
  Pinned,          \* PINNED_MESSAGES: name -> sequence of messages
  Placeholder,     \* messages whose text contains "URL_PLACEHOLDER"
  BotsNames,       \* names n with n.upper() = "BOTS"
  InitChannels,    \* the guild's channels before the first run
  ServerRoles,     \* the guild's roles: set of [id, name]
  FirstId,         \* first snowflake the guild hands out
  GuildId,         \* the guild id = @everyone role id
  NoId,            \* model value: None
  MaxRuns,         \* bound: invocations of the script
  MaxFail          \* bound: failed HTTP calls and crashes in a behaviour

VARIABLES
  srvChannels,   \* set of [id, name, kind, parent, ow]
  srvMsgs,       \* set of [id, ch, body, pinned]
  nextId,
  pc, dry, runs, fails,
  listing,       \* the channels returned by GET /guilds/{id}/channels
  botsId,        \* bots_category_id
  overwrites,    \* the read_only overwrites built from the fetched roles
  created,       \* created_channels: name -> id
  idx, pk, mi, msgId,
  realDone       \* history: some run without --dry-run reached the end

srv  == <<srvChannels, srvMsgs, nextId>>
vars == <<srv, pc, dry, runs, fails, listing, botsId, overwrites, created,
          idx, pk, mi, msgId, realDone>>

CH_TEXT == 0
CH_CATEGORY == 4
VH == {"VIEW", "HISTORY"}

Assign(f, k, v) == [x \in DOMAIN f \cup {k} |-> IF x = k THEN v ELSE f[x]]

\* PINNED_MESSAGES.get(name, [])
PinnedOf(n) == IF n \in DOMAIN Pinned THEN Pinned[n] ELSE << >>

\* Mutant: the overwrites deny VIEW instead of SEND (wrong bit constant).
ReadOnlyOverwritesDenyView(everyone, unverified) ==
  << [id |-> everyone, allow |-> VH, deny |-> {"VIEW"}] >> \o
  (IF unverified # NoId THEN << [id |-> unverified, allow |-> VH, deny |-> {"VIEW"}] >>
   ELSE << >>)

\* build_read_only_overwrites: @everyone, plus Unverified when it resolved.
ReadOnlyOverwrites(everyone, unverified) ==
  << [id |-> everyone, allow |-> VH, deny |-> {"SEND"}] >> \o
  (IF unverified # NoId THEN << [id |-> unverified, allow |-> VH, deny |-> {"SEND"}] >>
   ELSE << >>)

\* Mutant: only channels inside BOTS count as existing.
ExistingNamesInBots(chs, bots) == {c.name : c \in {d \in chs : d.parent = bots}}

\* The names the creation loop treats as already present.
ExistingNames(chs, bots) == {c.name : c \in chs}

\* "URL_PLACEHOLDER" in msg_content: the message is skipped.
Skipped(m) == m \in Placeholder

Ok   == UNCHANGED fails
Fail == fails < MaxFail /\ fails' = fails + 1

Running == pc \notin {"idle", "done", "aborted"}

Init ==
  /\ srvChannels = InitChannels /\ srvMsgs = {} /\ nextId = FirstId
  /\ pc = "idle" /\ dry = FALSE /\ runs = 0 /\ fails = 0
  /\ listing = {} /\ botsId = NoId /\ overwrites = << >> /\ created = << >>
  /\ idx = 1 /\ pk = 1 /\ mi = 1 /\ msgId = NoId /\ realDone = FALSE

Start ==
  /\ ~Running /\ runs < MaxRuns
  /\ runs' = runs + 1
  /\ \E d \in BOOLEAN : dry' = d
  /\ pc' = "fetch"
  /\ listing' = {} /\ botsId' = NoId /\ overwrites' = << >> /\ created' = << >>
  /\ idx' = 1 /\ pk' = 1 /\ mi' = 1 /\ msgId' = NoId
  /\ UNCHANGED <<srv, fails, realDone>>

(***************************************************************************)
(* Step 1: fetch channels.  Dry-run stops here.  An empty or failed reply, *)
(* or no BOTS category, is sys.exit(1).  The last BOTS category of the     *)
(* reply (in an order the guild chooses) wins.                             *)
(***************************************************************************)
FetchChannels ==
  /\ pc = "fetch"
  /\ \/ dry /\ Ok /\ pc' = "done" /\ UNCHANGED <<listing, botsId>>
     \/ /\ ~dry /\ Ok
        /\ LET bots == {c \in srvChannels : c.kind = CH_CATEGORY /\ c.name \in BotsNames}
           IN IF srvChannels = {} \/ bots = {}
              THEN pc' = "aborted" /\ UNCHANGED <<listing, botsId>>
              ELSE /\ listing' = srvChannels
                   /\ \E b \in bots : botsId' = b.id
                   /\ pc' = "roles"
     \/ ~dry /\ Fail /\ pc' = "aborted" /\ UNCHANGED <<listing, botsId>>
  /\ UNCHANGED <<srv, dry, runs, overwrites, created, idx, pk, mi, msgId, realDone>>

\* Step 2: fetch roles; role_ids keeps the last role of each name.
FetchRoles ==
  /\ pc = "roles"
  /\ \/ /\ Ok
        /\ LET unv == {r \in ServerRoles : r.name = "Unverified"} IN
             \/ unv = {} /\ overwrites' = ReadOnlyOverwrites(GuildId, NoId)
             \/ \E r \in unv : overwrites' = ReadOnlyOverwrites(GuildId, r.id)
        /\ pc' = "create" /\ idx' = 1
     \/ Fail /\ pc' = "aborted" /\ UNCHANGED <<overwrites, idx>>
  /\ UNCHANGED <<srv, dry, runs, listing, botsId, created, pk, mi, msgId, realDone>>

(***************************************************************************)
(* Step 3: for each NEW_CHANNELS entry, skip a name already present (but  *)
(* keep the id of the first channel of that name for pinning), else POST  *)
(* it under BOTS.                                                          *)
(***************************************************************************)
\* Mutant: a skipped existing channel's id is not kept for pinning.
SkipExistingNoRecord ==
  /\ pc = "create" /\ idx <= Len(New)
  /\ New[idx] \in ExistingNames(listing, botsId)
  /\ idx' = idx + 1
  /\ UNCHANGED <<srv, pc, dry, runs, fails, listing, botsId, overwrites, created, pk, mi,
                 msgId, realDone>>

\* Mutant: the id is taken from the wrong entry of the listing.
SkipExistingAnyId ==
  /\ pc = "create" /\ idx <= Len(New)
  /\ New[idx] \in ExistingNames(listing, botsId)
  /\ \E c \in listing : created' = Assign(created, New[idx], c.id)
  /\ idx' = idx + 1
  /\ UNCHANGED <<srv, pc, dry, runs, fails, listing, botsId, overwrites, pk, mi, msgId,
                 realDone>>

SkipExisting ==
  /\ pc = "create" /\ idx <= Len(New)
  /\ New[idx] \in ExistingNames(listing, botsId)
  /\ \E c \in listing : c.name = New[idx] /\ created' = Assign(created, New[idx], c.id)
  /\ idx' = idx + 1
  /\ UNCHANGED <<srv, pc, dry, runs, fails, listing, botsId, overwrites, pk, mi, msgId,
                 realDone>>

CreateFeedChannel ==
  /\ pc = "create" /\ idx <= Len(New)
  /\ New[idx] \notin ExistingNames(listing, botsId)
  /\ idx' = idx + 1
  /\ \/ /\ Ok
        /\ srvChannels' = srvChannels \cup {[id |-> nextId, name |-> New[idx], kind |-> CH_TEXT,
                                             parent |-> botsId, ow |-> overwrites]}
        /\ created' = Assign(created, New[idx], nextId)
        /\ nextId' = nextId + 1
     \/ Fail /\ UNCHANGED <<srvChannels, nextId, created>>
  /\ UNCHANGED <<srvMsgs, pc, dry, runs, listing, botsId, overwrites, pk, mi, msgId, realDone>>

CreateDone ==
  /\ pc = "create" /\ idx > Len(New)
  /\ pc' = "pin_chan" /\ pk' = 1
  /\ UNCHANGED <<srv, dry, runs, fails, listing, botsId, overwrites, created, idx, mi,
                 msgId, realDone>>

(***************************************************************************)
(* Step 4: for each collected channel with pinned messages defined, GET    *)
(* its pins; a non-empty list skips the channel, a failed GET does not.    *)
(* Then per message: skip a placeholder, POST it, PUT the pin.             *)
(***************************************************************************)
SkipPinChannel ==
  /\ pc = "pin_chan" /\ pk <= Len(New)
  /\ New[pk] \notin DOMAIN created \/ PinnedOf(New[pk]) = << >>
  /\ pk' = pk + 1
  /\ UNCHANGED <<srv, pc, dry, runs, fails, listing, botsId, overwrites, created, idx, mi,
                 msgId, realDone>>

BeginPinChannel ==
  /\ pc = "pin_chan" /\ pk <= Len(New)
  /\ New[pk] \in DOMAIN created /\ PinnedOf(New[pk]) # << >>
  /\ pc' = "check_pins"
  /\ UNCHANGED <<srv, dry, runs, fails, listing, botsId, overwrites, created, idx, pk, mi,
                 msgId, realDone>>

CheckPins ==
  /\ pc = "check_pins"
  /\ LET hasPin == \E m \in srvMsgs : m.ch = created[New[pk]] /\ m.pinned IN
       \/ Ok /\ hasPin /\ pc' = "pin_chan" /\ pk' = pk + 1 /\ UNCHANGED mi
       \/ Ok /\ ~hasPin /\ pc' = "send" /\ mi' = 1 /\ UNCHANGED pk
       \/ Fail /\ pc' = "send" /\ mi' = 1 /\ UNCHANGED pk
  /\ UNCHANGED <<srv, dry, runs, listing, botsId, overwrites, created, idx, msgId, realDone>>

SendFeedMessage ==
  /\ pc = "send"
  /\ LET n == New[pk]
         m == PinnedOf(n)[mi]
     IN /\ mi <= Len(PinnedOf(n))
        /\ \/ /\ Skipped(m) /\ Ok
              /\ mi' = mi + 1 /\ UNCHANGED <<srv, pc, msgId>>
           \/ /\ ~Skipped(m) /\ Ok
              /\ srvMsgs' = srvMsgs \cup {[id |-> nextId, ch |-> created[n], body |-> m,
                                           pinned |-> FALSE]}
              /\ msgId' = nextId /\ nextId' = nextId + 1
              /\ pc' = "pin" /\ UNCHANGED <<srvChannels, mi>>
           \/ /\ ~Skipped(m) /\ Fail
              /\ mi' = mi + 1 /\ UNCHANGED <<srv, pc, msgId>>
  /\ UNCHANGED <<dry, runs, listing, botsId, overwrites, created, idx, pk, realDone>>

PinFeedMessage ==
  /\ pc = "pin"
  /\ pc' = "send" /\ mi' = mi + 1
  /\ \/ /\ Ok
        /\ srvMsgs' = {IF m.id = msgId THEN [m EXCEPT !.pinned = TRUE] ELSE m : m \in srvMsgs}
     \/ Fail /\ UNCHANGED srvMsgs
  /\ UNCHANGED <<srvChannels, nextId, dry, runs, listing, botsId, overwrites, created, idx,
                 pk, msgId, realDone>>

MessagesDone ==
  /\ pc = "send" /\ mi > Len(PinnedOf(New[pk]))
  /\ pc' = "pin_chan" /\ pk' = pk + 1
  /\ UNCHANGED <<srv, dry, runs, fails, listing, botsId, overwrites, created, idx, mi,
                 msgId, realDone>>

PinsDone ==
  /\ pc = "pin_chan" /\ pk > Len(New)
  /\ pc' = "done" /\ realDone' = TRUE
  /\ UNCHANGED <<srv, dry, runs, fails, listing, botsId, overwrites, created, idx, pk, mi,
                 msgId>>

\* An exception out of requests ends the process.
Crash ==
  /\ Running /\ ~dry
  /\ Fail
  /\ pc' = "idle"
  /\ UNCHANGED <<srv, dry, runs, listing, botsId, overwrites, created, idx, pk, mi,
                 msgId, realDone>>

Next ==
  \/ Start \/ FetchChannels \/ FetchRoles
  \/ SkipExisting \/ CreateFeedChannel \/ CreateDone
  \/ SkipPinChannel \/ BeginPinChannel \/ CheckPins
  \/ SendFeedMessage \/ PinFeedMessage \/ MessagesDone \/ PinsDone \/ Crash

Spec == Init /\ [][Next]_vars

(***************************************************************************)
(* Properties                                                              *)
(***************************************************************************)
TypeOK ==
  /\ srvChannels \subseteq [id : Nat, name : STRING, kind : Nat, parent : Nat \cup {NoId},
                            ow : Seq([id : Nat, allow : SUBSET VH, deny : {{"SEND"}}])]
  /\ srvMsgs \subseteq [id : Nat, ch : Nat, body : STRING, pinned : BOOLEAN]
  /\ pc \in {"idle", "fetch", "roles", "create", "pin_chan", "check_pins", "send", "pin",
             "done", "aborted"}
  /\ runs \in 0..MaxRuns /\ fails \in 0..MaxFail
  /\ DOMAIN created \subseteq Range(New) /\ Range(created) \subseteq Nat
  /\ botsId \in Nat \cup {NoId}

\* Step 3 keeps, for a skipped name, the id of a listed channel of that
\* name, and step 4 posts by that id: over all runs, crashes and failures,
\* every message the script posts sits in a channel whose name
\* PINNED_MESSAGES gives it to, and none contains URL_PLACEHOLDER.
MessagesInPlace ==
  \A m \in srvMsgs :
    /\ m.body \notin Placeholder
    /\ \E c \in srvChannels : c.id = m.ch /\ m.body \in Range(PinnedOf(c.name))

\* "if name in existing_channel_names: SKIP": however many runs, crashes
\* and failures, no feed channel name ever exists twice in the guild.
FeedChannelsUnique ==
  \A n \in Range(New) : Cardinality({c \in srvChannels : c.name = n}) <= 1

\* spec 8 (placeholder guard, fresh/existing channel scenario): once a run
\* has completed and no call ever failed, every feed channel -- created or
\* found already present -- has each of its clean messages pinned; only the
\* placeholder messages are missing.
FeedPinsComplete ==
  (realDone /\ fails = 0) =>
    \A n \in Range(New) :
      \A i \in 1..Len(PinnedOf(n)) :
        ~Skipped(PinnedOf(n)[i]) =>
          \E m \in srvMsgs, c \in srvChannels :
            c.name = n /\ m.ch = c.id /\ m.body = PinnedOf(n)[i] /\ m.pinned

\* spec 8 (idempotency): running the script again must never double-pin --
\* no message text is pinned twice in one channel.
NoDoublePin ==
  \A a, b \in srvMsgs :
    (a.id # b.id /\ a.ch = b.ch /\ a.body = b.body) => ~(a.pinned /\ b.pinned)

=============================================================================
